CONSTANTS
    Events <- OneChange
    Subscriptions <- ToAll
    Dispatchers = {d1}
    Retriers = {t1, t2}
    Admins = {a1, a2}
    MaxAttempts = 2
    MaxRows = 3
    MaxWebhookFaults = 1
    Requests = {q1, q2}
    Passwords = {w1, w2}
    MaxTokens = 2
    MaxAuthFaults = 1
    Clients = {c1, c2}
    UserOf <- OneUser
    Tables = {b1}
    Posters = {o1}
    SendCap = 1
    QueueCap = 1
    MaxViews = 1
    Uploads = {u1, u2, u3}
    FileWorkers = {f1, f2}
    QueueSize = 1
    Watchers = {v1}
    Reporters = {n1, n2}
    SocketCap = 1
    FlushAt = 2
    MaxPlain = 1
    MaxBuffered = 3
    Instances = {"i1", "i2"}
    FirstList <- FirstInstance
    Weight <- Heavier
    Algorithms = {"round_robin", "weighted"}
    Callers = {c1, c2}
    Sessions = {s1}
    NoSession = NoSession
    RetryCount = 1
    TTL = 0
    MaxTicks = 1
    MaxPicks = 2
    Strategies = {"token_bucket", "sliding_window", "fixed_window", "counter"}
    LimitCallers = {c1, c2, c3}
    Limit = 2
    UnitTicks = 2
    Spenders = {s1, s2, s3}
    Quota <- DayAndMonth
    KeyAdmins = {a1, a2}
    MaxLimitTime = 3
    MaxAsked = 6
    MaxSpent = 5
    MaxChanges = 4
    MaxRedisFailures = 1
    GrpcCalls = {c1, c2, c3}
    ProbeLimit = 4
    TripAt = 3
    MaxCounted = 6
    MaxGenerations = 5
    PermUsers = {"admin", "user"}
    PermRequests = {r1, r2}
    RowIds = {1}
    MaxAsks = 3
    MaxPermFaults = 1
    ClientCalls = {"c1"}
    PoolSize = 2
    MaxRetries = 1
    MaxFailures = 2
    MaxCalls = 6
    Installs = {i1, i2}
    PluginExecutions = {e1, e2}
    MaxInstances = 1
    MaxRuns = 2
    Catalogue = {"p1", "p2"}
    Featured = {"p1"}
    Searches = {s1, s2}
    PoolBytes = 8
    BlockSizes = {3, 5}
    Blocks = {b1, b2, b3}
    MaxPluginFaults = 1
    MaxSearches = 4
    VersionRequests = {1, 2}
    NameAt <- TwoRequests
    RegisteredVersions <- ThreeVersions
    DefaultName <- MajorOnly
    Configured = {"path", "header", "combined"}
    TransformRules <- RuleLists
    Payload <- UserPayload
    HeaderReaders = {1, 2}
    DeprecationPeriod = 1
    MaxDays = 3
    MaxSchedules = 2
    RetentionCount = 2
    LastWindow = 4
    MaxWindowEvents = 5
    Calls = {1, 2}
    FetchRetries = 2
    Queued = {"q1", "q2"}
    MaxFetchAttempts = 2
    MaxCloses = 1
    MaxClientFaults = 2
    MaxExpiries = 1
    CacheKeys = {"record", "list"}
    CacheTags = {"table", "user"}
    CacheSize = 1
    Updates = {"u1", "u2"}
    MaxWrites = 3
    RealtimeSubs = {1}
    MaxSockets = 3
    ReconnectAttempts = 2
    MaxConnects = 3
    Accounts = {1, 2}
    AccountTenant <- OneTenant
    AccountEmail <- OneMail
    UserCalls = {r1, r2}
    PageSizes = {1, 2}
    MaxUserCalls = 2
    MaxUserFaults = 1
    Resolvers = {"g"}
    MaxResolved = 2
    Processes = {"p1", "p2"}
    CachedKeys = {"k1", "k2"}
    CacheUsers = {"u1", "u2"}
    SetTTL = 1
    L1TTL = 1
    L2TTL = 1
    CleanWindow = 1
    L1MaxEntries = 1
    MaxCacheOps = 2
    MaxTime = 2
    MaxCacheFaults = 1
    EdgeLocations = {"e1", "e2"}
    EdgeKeys = {"a", "b"}
    EdgeUsers = {"v1", "v2"}
    EdgeCapacity = 1
    PurgeQueueCap = 1
    MaxEdgeOps = 4
    GqlCalls = {c1, c2}
    GqlHorizon = 3
    MaxRedisFaults = 1
    CachedQueries = {"short", "long"}
    QueryTTL <- ShortOrLong
    TagGrace = 0
    LoadedKeys = {k1, k2, k3}
    RowsThere = {k1}
    MaxBatch = 2
SPECIFICATION MCSpec
CHECK_DEADLOCK FALSE
INVARIANTS
    ServicesTypeOK
    
    GatewaysHold
    CopiesHold
    DeliveriesHold
