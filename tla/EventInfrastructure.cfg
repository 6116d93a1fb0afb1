CONSTANTS
    Processors = {p1}
    Kinds = {"activated", "deactivated", "role_changed"}
    MaxEvents = 3
    BatchSize = 2
    Ties = TRUE
    Replayers = {r1}
    MaxFaults = 0
    Stories <- AllStories
    Strategies = {"sync", "async", "batch", "eventual"}
    ProjectionWorkers = {w1, w2}
    EventCap = 2
    BatchCap = 1
    ProjectionBatch = 2
    RetryLimit = 2
    QueryReaders = {q1}
    KeyOrders = {"ab", "ba"}
    MaxQueries = 1
    MaxRefusals = 1
    BusEvents = {1, 2}
    BusHandlers = {h1, h2}
    BusConfigs <- BusConfigurations
    InputCap = 1
    KafkaBatch = 2
    OutboxRows = {11, 12}
    MaxBusCalls = 4
    MaxKafkaFaults = 1
    Replays = {s1, s2}
    ReplayRequests <- Requested
    ReplayedIds = {"a1", "a2"}
    LogLength = 2
    StoredFirst <- OneEvent
    EngineWorkers = 1
    EngineBatch = 0
    MaxReplayFaults = 1
    stored1 = stored1
    stored2 = stored2
    UnitTasks = {t1}
    UnitCalls <- Units
    Stored = {stored1, stored2}
    MaxStored = 2
    MaxUnitFaults = 2
    Lockers = {l1, l2}
    LockDuration = 1
    LockHorizon = 3
    ConflictRetries = 1
    Collecting = {g1, g2}
    Emitted <- Emissions
    PoolNames = {"p"}
    PoolUsers = {u1}
    MaxPools = 3
    PoolRetries = 2
    MaxPoolFaults = 2
    People = {o, p, q}
    Owner = o
    MaxMembers = 2
    MaxSessions = 2
    MaxAggregateEvents = 4
    Registrants = {n1, n2}
    EmailOf <- OneEmail
    SlugOf <- OneSlug
    Managers = {g3, g4}
    MaxSlugs = 1
    MaxVersions = 2
    MaxRegistrationFaults = 1
    Targets <- BusAndKafka
    Guarded = {"kafka"}
    PublishStrategies = {"all", "any", "primary"}
    TargetTries = 2
    TargetFailures = 2
    PublishCallers = {w1, w2}
    PublishedEntries = {1}
    MaxPublishCalls = 3
    Trackers = {p1, p2}
    TrackerDrivers = {"pq", "pgx"}
    TrackerFailures = 2
    MaxTracked = 3
    MaxTrackerStarts = 3
    MaxTrackerFaults = 1
    Writers = {c1, c2}
    WriterKinds = {"operation", "batch", "aggregate", "store", "saga"}
    Connections = 2
    MaxWrites = 2
    MaxWriteFaults = 1
    Electors = {p1, p2}
    MaxLeaderTime = 6
    MaxElectorFaults = 2
    Hooks = {h1, h2, h3}
    AuditTimes <- OddTimes
    Micro = 1000
    AuditCallers = {c1, c2}
    AuditBatch = 2
    SiemCallers = {c1}
    SiemSenders = {s1}
    SiemBatch = 2
    SiemKinds = {"elasticsearch"}
    Playbook <- BlockAndLimit
    KnownActions = {"block_ip", "revoke_sessions"}
    Analysts = {a1, a2}
    MaxIncidentUpdates = 2
    TrendWindow = 2
    MaxSamples = 3
    MaxQueued = 1
    MaxReported = 3
    MaxMonitorFaults = 1
SPECIFICATION MCSpec
CHECK_DEADLOCK FALSE
INVARIANTS
    EventInfrastructureTypeOK
    ReadModelHolds
    BusesAndWatchersHold
    WritesHold
