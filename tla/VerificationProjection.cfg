\* Seven observations, two scopes, five arrivals.
CONSTANTS
    Events <- Emitted
    Scopes = {"day", "week"}
    MaxArrivals = 5

SPECIFICATION Spec

INVARIANTS
    OrderDoesNotShow
    NewestCounts

PROPERTIES
    SupersededStaysOut
    FailureIsNotWaivedAway
