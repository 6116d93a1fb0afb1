CONSTANTS
    Events = {1, 2}
    MaxRetries = 2
    BatchSize = 2
    Driver = "pgx"
    MaxDeliveries = 1
    MaxFaults = 0
    Workers = {w1, w2}
    MaxConcurrency = 1
SPECIFICATION FairSpec
CHECK_DEADLOCK FALSE
PROPERTY
    EventuallySettles
