\* Adoption run of PrismStore.
CONSTANTS
    MaxStores = 2
    MaxCursors = 6
    Payload <- AdoptionPayload
    NoAssignments <- EmptySelect
    Accepted <- AcceptedPayload
    Plain <- WithoutWrapper
    NoJoin = NoJoin

SPECIFICATION Spec

INVARIANTS
    AdoptionFaithful
    AdoptionDedupsLocally

PROPERTIES
    JoinMeansBothSides

\* A program may stop issuing calls at any point.
CHECK_DEADLOCK FALSE
