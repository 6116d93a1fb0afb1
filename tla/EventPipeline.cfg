CONSTANTS
    Processors = {p1, p2}
    Kinds = {"activated", "deactivated", "role_changed", "updated"}
    MaxEvents = 4
    BatchSize = 2
    Ties = FALSE
    Replayers = {}
    MaxFaults = 1
    Items = 1
    Configurations <- SomeConfigurations
    MaxStepRetries = 2
    RetryAttempts = 1
    Flows = {w1}
    WorkflowCallers = {c1, c2}
    MaxConcurrent = 1
    MaxExecutions = 2
SPECIFICATION MCSpec
CHECK_DEADLOCK FALSE
INVARIANTS
    TypeOK
    ProjectionAgrees
    ProcessedIsReflected
    WorkflowSafety
    OrchestratorSafety
PROPERTY
    EventuallyProcessed
    WorkflowsEnd
