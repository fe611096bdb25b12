\* Two executions, one after the other.
CONSTANTS
    Plans <- AllPlans
    SourceColumns <- OrdersColumns
    MaxExecutions = 2

SPECIFICATION Spec

INVARIANTS
    AnswerIsThePlan
    UnsupportedShapesFail
    ReadsDescribedUnlessEmptied

\* The bound on executions stops the system.
CHECK_DEADLOCK FALSE
