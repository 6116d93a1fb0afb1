CONSTANTS
    Processors = {p1}
    Kinds = {"activated", "deactivated", "role_changed"}
    MaxEvents = 3
    BatchSize = 2
    Ties = FALSE
    Replayers = {}
    MaxFaults = 1
SPECIFICATION Spec
CHECK_DEADLOCK FALSE
INVARIANT
    FailedIsRetried
