\* Shared run of PrismRewrite.
CONSTANTS
    MaxStores = 1
    MaxCursors = 4
    Payload <- SharedPayload
    NoAssignments <- DefaultPayload
    Accepted <- AcceptedPayload
    Plain <- AsIs
    NoJoin = NoJoin
    NoPayload <- DefaultPayload
    TrueLiteral <- True
    NoRequest = NoRequest
    TableColumns <- OrdersColumns
    TableRows <- OrdersRows

SPECIFICATION RewriteSpec

INVARIANTS
    ViewSound
    OriginsExplain
    ExplainAccounts
    LoweringAgrees

\* A program may stop issuing calls at any point.
CHECK_DEADLOCK FALSE
