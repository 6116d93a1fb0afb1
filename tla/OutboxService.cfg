CONSTANTS
    Events = {1, 2}
    MaxRetries = 2
    BatchSize = 2
    Driver = "pgx_simple"
    MaxDeliveries = 1
    MaxFaults = 1
    Workers = {w1}
    MaxConcurrency = 1
    BaseWorkers = {b1}
SPECIFICATION ServiceSpec
CHECK_DEADLOCK FALSE
INVARIANTS
    ServiceTypeOK
    PublishedWasDelivered
    ServiceProcessingIsOwned
