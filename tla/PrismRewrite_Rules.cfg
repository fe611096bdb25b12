\* Rules run of PrismRewrite.
CONSTANTS
    MaxStores = 1
    MaxCursors = 4
    Payload <- RulesPayload
    NoAssignments <- DefaultPayload
    Accepted <- AcceptedPayload
    Plain <- AsIs
    NoJoin = NoJoin
    NoPayload <- DefaultPayload
    TrueLiteral <- True
    NoRequest = NoRequest
    TableColumns <- OrdersColumns
    TableRows <- OrdersRows

SPECIFICATION RewriteSpec

INVARIANTS
    DraftSound
    ViewCanonical
    LoweringAgrees
    ColumnsAgree

\* A program may stop issuing calls at any point.
CHECK_DEADLOCK FALSE
