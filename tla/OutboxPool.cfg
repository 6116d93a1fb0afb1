CONSTANTS
    Events = {1, 2}
    MaxRetries = 2
    BatchSize = 2
    Driver = "pgx"
    MaxDeliveries = 5
    MaxFaults = 1
    Workers = {w1, w2}
    MaxConcurrency = 2
SPECIFICATION Spec
CHECK_DEADLOCK FALSE
SYMMETRY WorkerSymmetry
INVARIANTS
    TypeOK
    PublishedWasDelivered
    ProcessingIsOwned
    FailedSchedule
    RetryBudget
    DeliveryBudget
PROPERTY
    ImplementsDelivery
