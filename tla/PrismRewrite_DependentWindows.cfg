\* DependentWindows run of PrismRewrite.
CONSTANTS
    MaxStores = 1
    MaxCursors = 3
    Payload <- DependentWindows
    NoAssignments <- DefaultPayload
    Accepted <- AcceptedPayload
    Plain <- AsIs
    NoJoin = NoJoin
    NoPayload <- DefaultPayload
    TrueLiteral <- True
    NoRequest = NoRequest
    TableColumns <- OrdersColumns
    TableRows <- OrdersRows

SPECIFICATION RewriteSpec

INVARIANTS
    RewritePreservesMeaning

\* A program may stop issuing calls at any point.
CHECK_DEADLOCK FALSE
