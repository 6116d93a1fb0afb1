CONSTANTS
    Events = {1}
    MaxRetries = 2
    BatchSize = 1
    Driver = "pq"
    MaxDeliveries = 1
    MaxFaults = 0
    Workers = {w1}
    MaxConcurrency = 1
SPECIFICATION FairSpec
CHECK_DEADLOCK FALSE
PROPERTY
    EventuallySettles
