\* Api run of PrismStore.
CONSTANTS
    MaxStores = 2
    MaxCursors = 3
    Payload <- ApiPayload
    NoAssignments <- EmptySelect
    Accepted <- AcceptedPayload
    Plain <- WithoutWrapper
    NoJoin = NoJoin

SPECIFICATION Spec

INVARIANTS
    StoreSound

PROPERTIES
    LineageStable

\* A program may stop issuing calls at any point.
CHECK_DEADLOCK FALSE
