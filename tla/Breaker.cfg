CONSTANTS
    Callers = {c1, c2, c3, c4}
    MaxRequests = 3
    MinRequests = 5
    FailurePercent = 70
    ConsecutiveLimit = 3
    HasInterval = TRUE
    MaxCount = 7
SPECIFICATION FairSpec
INVARIANT
    TypeOK
    CountsAddUp
    HalfOpenLimit
    ClosedOnEvidence
PROPERTY
    NoLateTrip
    Decides
    Recovers
