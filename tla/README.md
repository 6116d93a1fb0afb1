# TLA+ models of the PyAirtable Go services

Specifications of the parts of this repository where interleavings, crashes and
retries decide whether it is correct, model-checked with TLC and proved with TLAPS.
`PROJECT.json` lists every component, run, theorem, finding and hazard, and maps each
definition to the lines it models.

The repository is an event-driven back end in Go: event-sourced aggregates (`domain`)
saved to an event store (`pkg/eventstore`), an outbox that publishes events
(`pkg/outbox`), a processor that feeds read models (`pkg/eventprocessor`,
`pkg/eventbus`, `pkg/eventhandlers`, `pkg/cqrs`), a circuit breaker, workflows, and a
set of services (auth, users, permissions, webhooks, files, plugins, gateway) around it.

## 1. Inventory

### The core: outbox, breaker, store, pipeline

| Component | State it keeps | Operations | Hard parts | What makes it correct |
|---|---|---|---|---|
| Outbox table, `migrations/004` | `event_outbox` rows | insert with the business transaction, fetch (SKIP LOCKED), mark processing / published / failed, cleanup | each statement is a transaction of its own; nothing holds a row between two of them | a failed row has a retry scheduled exactly while retries are left |
| Worker pool, `pkg/outbox/workers.go` | slots, goroutines, cancelled contexts, a batch per goroutine | Start, Stop, health check with restart, `processBatch` | two workers with the same entries, a restarted worker beside its old goroutine, a crash between publishing and recording, a lost answer | nothing is recorded as published that was not delivered; retries and duplicates are bounded; every entry settles |
| Base outbox, `transactional_outbox.go` | a batch per goroutine, retry counts in memory | Start, Stop, poll, publish entry by entry, two UPDATEs by id | writes without looking at the row; runs beside the pool on one table | as above; an entry given up leaves the queue |
| Outbox service, `config.go`, `enhanced_outbox.go` | how far Start / Stop came | Start, Stop of both kinds of worker | stopping one while the other runs | a row in processing has an owner |
| Circuit breaker, `pkg/circuitbreaker` | state, generation, counts, expiry | before / after request, `State` | results of requests that began generations ago; half-open limit; recovery | counts are those of the generation; closes and trips only on fresh evidence |
| Event store and repositories, `pkg/eventstore`, `pkg/repositories`, `domain/shared` | `domain_events`; an aggregate per request with version and uncommitted events | load, raise, `Save`/`SaveEvents` | check and insert are not atomic; unique-key waits; failed and unanswered commits | a save is an atomic append that saw all before it; conflicts are real |
| Event pipeline, `pkg/eventprocessor`, `pkg/eventbus`, `pkg/eventhandlers` | the events' `processed` flags, a user's row in `user_projections` | poll, publish, five handlers, mark, replay | several processors on the same events; a role change in two statements; errors swallowed by the bus | the row agrees with the log; nothing is marked before it shows; everything is processed |

Calls between them: a service loads an aggregate from the event store, changes it and
saves it; processors poll the same table, call the bus, and the bus calls handlers
synchronously, which write read models. Independently, `ExecuteWithOutbox` writes
business data and outbox entries in one transaction; the outbox's goroutines poll that
table and call an `EventPublisher`. All coordination goes through rows in PostgreSQL.

### The event infrastructure around it

| Component | State it keeps | Operations | Hard parts | What makes it correct |
|---|---|---|---|---|
| Publishers and enhanced outbox, `event_publishers.go`, `enhanced_outbox.go` | a breaker per target, a row and a registration per process | composite / retried / guarded publish, tracked publish, start and stop | an unlocked breaker, a publish that is swallowed, some targets failing, processes of one name | nil means received, or swallowed by the breaker; attempts per target are bounded; rows in processing are somebody's |
| Outbox writers, `repository_integration.go` | transactions, connections, a saga's step | operation, batch, aggregate, event store, saga step | the store's own transaction inside the outbox's, a pool of connections that runs out | what is committed is announced, as often and by the same writer |
| Leader election, `workers.go` | the row "leader-", who thinks it leads | elect, renew, release | a lease that runs out, a late release | confirmed leaders are a lease apart |
| Kafka, `kafka_event_bus.go`, `optimized_kafka.go`, `kafka_publisher.go` | channels, sessions, marks, subscriptions | start, stop, publish, consume, subscribe, dead letters | waiting with the mutex held, rebalances, drops | the mark passes only what was tried or is no event; a stopped bus is quiet |
| CQRS, `pkg/cqrs` | projection rows, checkpoints, channels, cached queries | project in four ways, batch, retry, query, invalidate, shut down | overlapping transactions, deadlocks, drops, sends on closed channels | the newest event of a row wins; checkpoints count what took effect |
| Event replay, `pkg/eventreplay` | a replay's workers, shared handlers, snapshots | replay by three strategies, snapshot, clean up | parallel workers, two replays at once | versions in order; completed means all were handled |
| Unit of work, `pkg/repository` | transaction, tracked aggregates, locks, pools, collected events | begin, track, commit, roll back, retry; lock; collect; pool | locks taken twice, contexts that end, retries with old aggregates | no transaction is left open, no commit over a conflict |
| Aggregates and registration, `domain` | users, tenants, workspaces and their events | every command; register, invite, suspend | what is not evented, checks before saves, three saves without a transaction | replaying gives back what was evented; nothing refers to what is not there |
| Graceful shutdown, `pkg/graceful` | hooks, the error channel | register, wait, shut down | hooks that fail after the timeout, two callers | hooks run once; the process outlives them or the timeout |
| Audit, SIEM, incidents, outbox monitor | buffers, an incident's copies, gauges | log, flush, send, respond, update, collect | flushes that fail, a buffer without a lock, copies that overwrite each other | each event is in one place; losses only where a batch was refused or accesses overlapped |
| Workflows, `pkg/workflows` | an execution's memory, executions and their slots | five workflows' steps, retries, cancel, pause, resume | retries from the first step, background work, panics | effects are bounded, statuses earned, slots given back |

### The services

| Component | State it keeps | Operations | Hard parts | What makes it correct |
|---|---|---|---|---|
| Webhooks | subscriptions, attempts, dead letters | dispatch, deliver, retry, replay, change | unclaimed retries, copies written back, steps that fail in between | delivered was sent; abandoned is in the dead letters |
| Auth, with its websocket hub | tokens in three places, clients and presence | login, refresh, log out, change password; join, view, send | overlapping refresh and logout; channels closed from three places | an invalidated token stays so; who is counted has an open channel |
| Files, with the progress tracker | uploads, a queue, clients' channels | upload, queue, work, stop; notify, flush, broadcast | a lock taken twice, closing a queue or a channel others send to | no send after close; updates in order |
| Gateway | registry, weights, sessions, limits, quotas, keys | route, balance, retry, check, limit, revoke | orders of commands, stale instances, clocks | budgets hold; revoked keys stay revoked; weights cancel |
| Permissions, with its client | rows, cached answers, connections | check, grant, revoke, assign; call, retry | an answer cached after its invalidation | a stale answer has one of four causes |
| Plugins | installations, instances, lists, blocks | install, execute, evict, search, allocate | a mutex taken twice, calls past their deadline | one caller per instance; lists are whole |
| Versioning | a shared strategy, dates, rules | detect, transform, deprecate, sunset | a strategy swapped while others read | own version, ordered life-cycle |
| Users, caches | rows and their copies; three levels; locations | CRUD, bulk, get, set, promote, evict, purge | copies stored by overtaken reads | copies are current, edits stay |
| GraphQL gateway, frontend client | responses by tag, loaders; tokens, queue, cache, sockets | look up, store, tag, invalidate, load; request, retry, send, roll back, reconnect | state read before an await and used after | tags find entries; queued requests are sent once; the open socket's server knows the subscriptions |

The services do not share state with each other or with the core: they call each other
over HTTP or gRPC, and those calls are answers an action may get.

## 2. Modules

| Module | Models | Uses |
|---|---|---|
| `OutboxTable` | rows and SQL functions; what a database call and a publisher may do | |
| `OutboxWorkers` | manager and worker goroutines on the table | `OutboxTable`, `OutboxDelivery` |
| `OutboxDelivery` | the promise: at-least-once, settled for good, never lost | |
| `TransactionalOutbox` | the base outbox's goroutines | `OutboxTable` |
| `OutboxService` | both together, one process | `OutboxWorkers`, `TransactionalOutbox` |
| `OutboxPublishers` (`pb`, `tk`) | publishers around publishers; tracked publishing | |
| `OutboxIntegration` (`oi`, `le`) | writers on one pool of connections; leader election | |
| `CircuitBreaker` | the breaker, its callers, the service behind it | |
| `EventStore` | `SaveEvents` statement by statement, and the aggregates saved | `EventLog` |
| `EventLog` | the promise: atomic appends by clients that saw the log they extend | |
| `EventPipeline` | processors, replays, bus and user handler for one user | |
| `KafkaBus` (`kb`, `ob`, `kp`) | the Kafka bus, the optimized bus, the Kafka publisher | |
| `EventReplay` (`rp`) | the replay engine and its snapshots | |
| `Cqrs` (`cq`) | projections, queries and their copies | |
| `UnitOfWork` (`uw`, `cm`, `co`, `po`) | units, optimistic locks, collector, connection pools | |
| `Aggregates` (`ag`), `Registration` (`rg`) | the aggregates' commands and replays; the domain services | |
| `GracefulShutdown` (`gs`) | the shutdown handler | |
| `Monitoring` (`al`, `si`, `in`, `om`, `tr`) | audit, SIEM, incidents, outbox monitor, trends | |
| `WorkflowSteps` | the five workflows as programs | |
| `WorkflowRun` (`wr`) | one execution of one workflow | `WorkflowSteps` |
| `WorkflowOrchestrator` (`wo`) | executions, slots and statuses | |
| `WebhookDelivery` (`wh`) | one webhook and its deliveries | |
| `AuthSessions` (`au`, `ph`) | accounts and tokens; the websocket hub | |
| `FileProcessing` (`fp`, `pt`) | uploads and engine; the progress tracker | |
| `GatewayRouting` (`gw`), `GatewayLimits` (`gl`, `mb`) | routing; limits, quotas, keys and the middleware's breaker | |
| `Permissions` (`pm`, `pc`), `Plugins` (`pg`, `pr`, `mp`) | the service and its client; runtime, registries, memory pool | |
| `Versioning` (`vd`, `vl`, `vw`) | detection and transformation, life-cycle, usage windows | |
| `UserService` (`us`, `ug`), `Caching` (`ml`, `ec`) | rows and copies, resolvers; levels, edge locations | |
| `GraphqlGateway` (`rc`, `dl`), `FrontendClient` (`fc`, `fo`, `fr`) | responses and their tags, loaders; tokens and queue, optimistic updates, realtime | |
| `OutboxProofs` | theorems of `OutboxWorkers` and its refinement of `OutboxDelivery`, and of `OutboxService` | |
| `CircuitBreakerProofs`, `EventStoreProofs` | theorems of the module they are named after; the second also of the refinement of `EventLog` | |
| `EventPipelineProofs` | theorems of `EventPipeline` and `WorkflowOrchestrator` | |
| `InfrastructurePartsProofs` | lemmas about `OutboxPublishers`, `KafkaBus`, `Monitoring` | |
| `InfrastructureProofs` | theorems of `UnitOfWork`, `Registration`, `OutboxIntegration`, `GracefulShutdown`, and of `WritesHold`, `BusesAndWatchersHold` | `MCEventInfrastructure`, `InfrastructurePartsProofs` |
| `ServicePartsProofs` | theorems of `WebhookDelivery` and `FileProcessing`, lemmas about `Versioning`, `UserService`, `Caching` and `FrontendClient` | |
| `ServicesProofs` | theorems of `AuthSessions`, `Permissions`, `GatewayLimits`, `Plugins`, `GraphqlGateway`, and of `AccessHolds`, `DeliveriesHold` and `CopiesHold` | `MCServices`, `ServicePartsProofs` |
| `MCLiveness` | pipeline, workflow execution and orchestrator, with liveness | |
| `MCEventInfrastructure`, `MCServices` | the infrastructure's and the services' parts, one at a time | |
| other `MC*` | small sets for TLC | |

Prefixes name the machines of a module that share no variable. Each machine has its
`Init`, `Next` and variables tuple under its prefix, so that a composing module can take
one without the others.

### How state and actions correspond to the code

**Outbox.** `rows[e]` holds the columns some statement reads or writes; `next_retry_at`
is NULL, in the future or reached, `RetryTimeReached` being the clock. Each SQL
statement is atomic (autocommit) and an operator on `rows`; what happens between two of
them is up to `OutboxWorkers`, where `pc[w]` names the line of `processBatch` a
goroutine has reached: `fetched` (after `getNextBatch`), `publishing` (the loop),
`recording` (between the two mark calls). The row locks of a fetch end with its
statement; `Locked` are rows that some other statement may hold at the moment of the
fetch. A worker in `workers` and a goroutine are different things: the health check
replaces `current` while the old goroutine goes on, so `Workers` are goroutines and
`current` those that occupy slots. `Succeeds`, `Errs`: a call works, or returns an
error having taken effect or not. `PublishOk`, `PublishErr`: nil after the handover; an
error with or without one (a timeout). `delivered` and `committed` are history.

*Driver.* `CONSTANT Driver` is the `database/sql` driver of the `*sql.DB` passed in, for
two statements depend on it. The worker's marks pass a bare `[]string`, which lib/pq
refuses and pgx takes. `updateEntryStatus` uses `$1` as a VARCHAR and as a TEXT value,
which a server refuses to prepare and pgx's simple protocol avoids. The pool's runs use
`pgx`, those with the base outbox `pgx_simple`, and `OutboxPoolDriver` shows what lib/pq does.

**Circuit breaker.** `generation` numbers are abstracted to whether a request belongs to
the current one; `ExpiryPasses` is the clock. Counts are naturals; the code's `uint32`
is far from the bounds. The policies of `NewHTTPCircuitBreaker` and
`NewDatabaseCircuitBreaker` are constants' values.

**Event store.** A client is a request with one aggregate in memory: `version` and
`events` are `GetVersion()` and `len(GetUncommittedEvents())`. A row is known by the
client that saved it, the version it decided on and the size of its save. The
transaction is READ COMMITTED: the check reads committed rows, an insert of a key that
another open transaction has inserted waits (`Waits`) and fails if that one commits.
`NewVersion` is the version of an aggregate before its first event. The code's value is
1, with which no first save passes (see Findings). Streams of `Existing` aggregates are there
at the start, as rows imported or written by another program would be, so that with either
value saves of loaded aggregates race. The theorems hold for every value; `store` checks 0, the
value with which the store works from empty, and `store_first_save` the code's.

**Event pipeline.** The log of one user, as the event store keeps it (versions 1, 2, ...;
so the first-save defect is taken as repaired), and his row abstracted to which events its columns
show. Events of other users only make a fetch return fewer of his. `occurred_at` follows
the version (one clock); `Ties` lets two events of one save be equal. `Replayers` are
callers of `ProcessEventsByType` beside the polls.

**The other modules** follow one convention. A request, a worker or a goroutine is a
record with the place it has reached (`at`, `pc`) and what it has read so far; one action
runs from one point at which somebody else may come in - a statement, a Redis command, a
channel operation, an unlock, an await - to the next. What a call to another service
returns is chosen; whether a statement fails, or a process stops, is chosen up to a
`Max...Faults`. A row written back from a copy is written whole, as `Save` does. A
mutex is modelled only where the code can wait for it for ever: a goroutine that takes
one twice stays at a place no action leaves (`"hung"`, `"stuck"`). A panic that no
`recover` catches ends the process. Variables whose names say what was promised
or caused (`kbTried`, `pbSwallowed`, `oiTorn`, `rgBlind`, `cmRobbed`, ...) are history:
they are read by properties and never by actions.

*Outbox publishers.* `pbCalls` calls of `Publish` overlap on the breakers' shared fields,
read and written as `event_publishers.go` does, without a lock. In `tk`, `tkRow` is the row,
`tkTask` what a goroutine holds, `tkRegistry` the row that processes of one name share.
A statement may fail, or take effect and lose its answer; lib/pq refuses the `[]string` of the
marks, and a prepared failure update is refused after the last retry (`tkDriver`). The heartbeat
goroutine deactivates the row as soon as the context ends, while tasks still run; `Stop` waits
for both.

*Outbox integration.* `oiFree` are the free connections: a writer holds one from `BeginTx`
to its end, and `SaveEvents` of a store that takes no transaction needs another. No store
and no repository of this tree takes one (`oiTakes`).

*Kafka.* A producer is a channel in front of a log: messages are accepted, refused or lost
after `Publish` returned; publishing after `Close` panics, and the process may be started
again. `kbMark`, `obMark` are the consumer group's marks. A topic also has messages of other
producers, which do not decode or have no `event_type`: they are marked with no handler called
(`NotAnEvent`). `BusConfigs` holds the default configuration, with which sarama refuses to start, beside a working one.

*SIEM.* The buffer is a slice that callers, senders and the loop append to, copy and clear with
no lock. An access reads the header and writes it back in two steps; one that another overtook
may put back what it had read, with the places in it as they were or as they are (`Overtaken`,
`InPlace`), or leave a nil whose conversion ends the process. What a failed request had delivered
depends on the endpoint (`SiemKinds`): a prefix, all or nothing, or, for a bulk request of
Elasticsearch, any part, also when the answer is 200.

*CQRS.* `cqTable` are committed rows, a worker's transaction its own writes and the locks
that others wait for; deadlocks end one of them. Packages that do not compile
(`pkg/cqrs`, `pkg/repository`) are modelled as they read.

*Unit of work.* A unit is a list of operations on tracked aggregates. `"hung"` marks the two
calls that lock a mutex they hold; what the code has after them cannot run, and is not
modelled. The locks, the collector and the pools work by themselves and are machines of
their own.

*Workflows.* A step is a list of calls in the order of the code, each with what an error
does to it. `wrGiven`, chosen at the start from `Configurations`, are the lists and flags the
request gave; what it lacks is skipped, fails the validation, or ends the process where the code
asserts that it is there: an integration without a `base_url`
(`automation_engine_workflow.go:806`), a query that is no text (`ai_analytics_workflow.go:604`).
Without Context and Metadata (`wrMaps`) the first write to either panics. `MemoryIsThere` is about
the other kind of assertion, on what an earlier step left in memory. `WrExecute` is one call, `RoutineEnds` the background; a retried execution starts at its
first step with the memory it has left.

*Services.* Redis commands are single steps, Lua scripts and pipelines one step, and what a
process read before is a field of its request. Time is a counter with a horizon, and TTLs
and windows are a tick or two. The websocket hub and the progress tracker have bounded
channels and a goroutine per client; a send to a closed channel ends the process.

*Webhooks.* An attempt whose secret is empty (the webhook was deleted) or whose URL makes no
request (`whUrl`; only its prefix is checked) has no result, and a row that then has used up its
retries dereferences it: the process ends with every delivery in hand (`whPanicked`).

*GraphQL gateway.* `rcEnds` is when a response in Redis ends, `rcTag` and `rcTagEnds` are its
tag's set and expiry. Each Redis command of a request or of an invalidation is a step that may
fail (`CommandFails`), and since `utils/redis.ts` only logs that, the next step follows; the
process may end in between (`GatewayRestarts`). A hit keeps nothing from being executed and
stored again, as in the code. `rcUnfound` remembers the responses whose tag was lost that way.

## 3. Runs

All bounds are constants named in the modules. "Violation" runs show a disagreement
between the code and what the repository says of it.

| Run | Bounds | Shows |
|---|---|---|
| `pool_safety` | 2 goroutines in 2 slots, 2 entries, batch 2, 2 retries, 1 fault | `PublishedWasDelivered`, `ProcessingIsOwned`, `FailedSchedule`, `RetryBudget`, `DeliveryBudget` and the refinement `ImplementsDelivery` while two workers hold the same batch |
| `pool_liveness` | 2 goroutines, 1 slot, 2 entries, no fault | `EventuallySettles`: a replaced goroutine works beside its successor, managers stop and start |
| `pool_crash` (violation) | 1 goroutine, 1 entry, 1 crash | a crash strands entries in processing |
| `pool_driver` (violation) | 1 goroutine, 1 entry, lib/pq | nothing is ever published |
| `service_mixed` | 1 goroutine of each kind, 2 entries, 1 fault | `PublishedWasDelivered`, `ServiceProcessingIsOwned` |
| `breaker` | 4 callers, database policy | counts, half-open limit, closing and tripping on evidence; `Decides`, `Recovers` |
| `store` | 2 clients, 2 aggregates, one of them there before, saves of up to 2 events, 1 fault, `NewVersion` = 0 | `NoLostUpdate`, `ConflictIsReal`, `MemoryIsStored`, refinement `ImplementsLog`; `SaveReturns`: no two saves wait for each other |
| `store_first_save` (violation) | `NewVersion` = 1 | the first save of an aggregate is refused |
| `pipeline` | 2 processors, 4 events of all kinds, batch 2, 1 fault; one workflow of each type, given everything (with flaws or without), all but one thing, or only what is required, 2 step retries; 2 callers, 1 slot, 2 executions | `ProjectionAgrees`, `ProcessedIsReflected`, `EventuallyProcessed`; `WorkflowSafety`, `OrchestratorSafety`, `WorkflowsEnd` |
| `pipeline_failed` (violation) | 1 processor, 3 events | failures are not retried |
| `event_infrastructure` | 1 processor, 1 replay, 3 events, ties; mostly 2 actors and 1 fault per part | `ReadModelHolds`, also for events processed beside replays and with ties; `BusesAndWatchersHold`, `WritesHold` |
| `services` | 2 or 3 actors, caches and queues of 1, 1 fault per part | `AccessHolds`, `GatewaysHold`, `CopiesHold`, `DeliveriesHold` |

The last two and `pipeline` explore machines that share no variable. A behaviour of all of
them is behaviours side by side, and a property of one does not see the others: so a run
explores the sum and not the product, one machine at a time (`focus`), the others standing
in an initial state that their own `focus` checks. Their properties are conjunctions of
named ones, each stated with its meaning in the module of its machine:

| Property | Of |
|---|---|
| `WorkflowSafety` | `WrTypeOK`, `EffectBudget`, `MemoryIsThere`, `CompletedIsWhole` |
| `OrchestratorSafety` | `WoTypeOK`, `LimitOvershoot`, `StatusIsEarned` |
| `WorkflowsEnd` | `ExecutionEnds`, `SlotsReturn` |
| `ReadModelHolds` | the pipeline's `ProjectionAgrees`, `ProcessedIsReflected`; `NewestWins`, `CheckpointCounts`, `CountsMatch`, `InvalidationHolds`; `ReplaySafety` (`VersionsInOrder`, `CompletedIsAll`, `SnapshotsAreNewest`, `CountsAddUp`); `AggregateSafety` (`UserReplays`, `WorkspaceReplays`, `TenantReplays`, `OneOwner`, `SessionsEnd`) |
| `BusesAndWatchersHold` | `KafkaSafety` (`StoppedIsQuiet`, `MarkedWasTried`, `FirstCallsInOrder`, `ProcessedWasAccepted`), `MonitoringSafety` (`AuditIsKept`, `SignatureSurvives`, `SiemIsKept`, `SiemSendsOnce`, `IncidentIsKept`, `GaugesLag`, `TrendIsOfWindow`) |
| `WritesHold` | `UnitOfWorkSafety` (`NoTransactionLeft`, `ConflictsAreFinal`, `LocksApart`, `CollectorAddsUp`, `HandlesOwned`), `RegistrationSafety` (`NothingDangles`, `DoneIsWhole`, `DuplicatesAreBlind`, `SuspensionHolds`), `IntegrationSafety` (`WrittenIsAnnounced`, `AnnouncedIsStored`, `StoredIsAnnounced`, `KeptUntilOut`, `SagaFollows`, `StallIsNested`), `ElectionSafety` (`LeaderHasRow`, `LeadersApart`), `GracefulSafety` (`HooksRunOnce`, `ExitWaits`, `CrashIsLate`, `ErrorsReported`), `PublishersSafety` (`AckedIsReceived`, `ReceivedBudget`, `BreakerKeepsCount`, `TrackedIsSent`, `TrackedIsOwned`, `RegistryNamesLive`, `TripIsForGood`) |
| `AccessHolds` | tokens (`LogoutIsFinal`, `GivenIsGood`, ...), the hub (`RegisteredIsOpen`, `GoneIsForgotten`, ...), permissions (`CacheIsCurrent`), their client (`ClientHolds`), limits (`BucketBudget`, `WindowBudget`, `QuotaOvershoot`, `RevokedStays`), the middleware's breaker (`NeverWedged`, `CountsOwn`), plugins (`RoomKept`, `OneCallEach`, `ListIsWhole`), versioning (`StrategyRestored`, `NamedIsServed`, `OrderKept`, `NewestKept`, ...) |
| `GatewaysHold` | routing (`WeightsCancel`, `FairShare`, `OrphansEnd`), transformed bodies (`BodyArrives`), the plugins' memory pool (`PoolOvershoot`) |
| `CopiesHold` | users (`CopiesAreCurrent`, `EditsStay`, `EmailsApart`), caches (`LifeIsBounded`, `OwnWritesStay`, `HangsOnlyWhenFull`, `EdgeCountsKept`), the frontend (`AuthErrorIsEarned`, `OfflineOnce`, `TagsReach`, `RolledBackGone`, `OpenKnowsAll`, `NoOrphanSocket`), GraphQL (`TagFindsEntries`, `OneAnswerEach`) |
| `DeliveriesHold` | webhooks (`AttemptIsHeld`, `DeliveredWasSent`, `AbandonedIsDead`), files (`ProcessingHasTask`, `QueuedIsStored`, `NoSendAfterClose`, `LockIsSelfHeld`), the tracker (`WatchersAreOpen`, `UpdatesInOrder`, `ProcessSurvives`) |

Why the bounds are enough. An outbox batch conflict needs two goroutines that hold one
entry, whether they fill two slots or one replaced the other. Two retries separate the
first failure, the last retry and exhaustion. One fault is one crash, failed call or
lost answer; the safety proofs have no such bound, nor one on goroutines and entries. A
lost update needs two clients, a circle of waiting saves would need two clients and rows
of two keys. A role change racing a status change needs registration, activation and
two more events. Bounds on deliveries and versions cut off only longer histories of the
same kind. In the other parts, each hazard listed in `PROJECT.json` needs two actors on one
row, key, channel or connection, or three where the third takes what two are waiting for;
caches, channels and windows have room for one, so that being full is the common case;
times go past each TTL once. The realtime client makes three connections: one whose close
comes late, one being connected at that moment, and the one made beside it. Of the load
balancers the two that keep state are explored. Of the SIEM endpoints the run takes
Elasticsearch, whose failures include those of the others; both drivers of tracked publishing
are explored. The GraphQL cache has a short-lived and a long-lived response under one tag, two
requests and an invalidation; a `TagGrace` of 0 makes a tag's end and a response's coincide,
where the code leaves 300 seconds between them.

`CHECK_DEADLOCK FALSE` is set where the system may rightly stop: everything settled and
the retry, fault or event bound used up, or every goroutine at a mutex it holds.

**Fairness.** Weak fairness, per goroutine, of its next statement: Go schedules runnable
goroutines, tickers fire, and calls return because the drivers and contexts time out.
For the outbox also of the process being started again, of a stopping manager's
goroutines ending, and of the clock. Nothing is assumed of a publisher or a handler:
entries that always fail are dead-lettered, events that always fail are marked.
`breaker` assumes that requests return and that somebody keeps asking.
`EventuallySettles` is conditional on the service being up for good.
For workflows: of a step's next call, of background goroutines seeing their cancelled
context, and of what an executor returns, since every execution runs under a timeout.
`event_infrastructure` and `services` state safety only.

## 4. Theorems

Every theorem holds for all values of the constants that satisfy the named assumptions
(sets finite where they are counted, bounds natural numbers).

* **Worker pool** (`OutboxProofs`): `TypeOK`, `PublishedWasDelivered`,
  `FailedSchedule`, `ProcessingIsOwned`, `RetryBudget`, `DeliveryBudget`. None is
  inductive. `IInv` adds what holds at each line of `processBatch`: entries in `okIDs` were
  delivered, batches are disjointly split into to-do, ok and failed, only live goroutines
  have batches; for `RetryBudget`, that the retries above `max_retries` are paid for by
  goroutines that still hold the entry from before it was dead-lettered, so each can add
  one; and for `DeliveryBudget`, that every delivery belongs to a retry counted, to a
  goroutine that has the entry in hand, or to one of the faults.
* **Refinement** (`OutboxProofs`): `Spec => ImplementsDelivery`. Each statement
  maps to a change of stage that `OutboxDelivery` allows; `IInv` gives that a row becoming
  published was delivered and that no mark moves a settled row.
* **Outbox service** (`OutboxProofs`): `ServiceTypeOK`, `PublishedWasDelivered`,
  `ServiceProcessingIsOwned`, with both kinds of worker on one table. The pool's step lemmas
  are used again for its own statements; what the base outbox writes by id needs that each
  of its goroutines is about to mark as published only what it delivered, and that a row
  it fetched is its own until it writes it.
* **Circuit breaker** (`CircuitBreakerProofs`): `TypeOK`, `CountsAddUp`,
  `HalfOpenLimit`, `ClosedOnEvidence`, `NoLateTrip`, for any number of callers and any
  policy. The invariant relates the counts to the requests in flight and ended of the
  current generation.
* **Event store** (`EventStoreProofs`): `TypeOK`, `NoLostUpdate`, `ConflictIsReal`,
  `MemoryIsStored`, and `Spec => ImplementsLog`, for every `NewVersion`, the code's 1 too:
  what a refused first save leaves in memory is named in the two properties (`NewInVain` in the
  invariant).
  The invariant says that inserted but uncommitted versions of two transactions are
  disjoint and not in the table, that a transaction past its check expects at most the
  stored version, and that after its first insert nobody else can reach that version: so
  its commit appends to exactly the log it saw.
* **Event pipeline** (`EventPipelineProofs`): `TypeOK`, `ProjectionAgrees`,
  `ProcessedIsReflected`, for any number of processors, replays and events. The row's
  version guard is safe only because batches have no gaps: without ties, every event below
  the one a processor is about to publish is in the row already, or failed. The invariant
  is that, what a replay has read, that the row shows the log up to its version, and where a
  role change stands between its two statements.
* **Orchestrator** (`EventPipelineProofs`): `OrchestratorSafety`, also as `OrchestratorKeepsItsWord`
  under `WoSpec`. A caller's execution is new and nobody else's until its goroutine runs; the
  executions past the limit are those whose callers looked before another had taken its slot,
  so at most one for each; a status comes from an execution of its workflow that had that
  outcome, or that its caller went on to cancel. The steps of a workflow do not matter for it.
* **Writes** (`InfrastructureProofs`): `WritesHold` of `MCEventInfrastructure`, from one
  inductive invariant per machine.
  - *Registration*: also as `RegistrationIsSafe` under `RgSpec`. Registrations that passed
    both checks before the other's save are remembered; copies in memory are older versions
    of what is saved; what an aggregate refers to was saved before it.
  - *Units of work*: versions already compared equal those read, also for what an earlier
    attempt of a retried unit tracked; a conflict leads to "failed" at once. *Locks*: who has
    an unexpired lock nobody deleted has the entry with the end of its own lease, so
    two would have to have the same one. *Collector*: the counters grow with the fates,
    and a collection that ended has nothing left to look at. *Pools*: an `AddPool` under way
    has the newest number, so that no name has its handles.
  - *Outbox writers*: also as `OutboxFollowsWrites` under `OiSpec`. A transaction at its
    first insert has run all its operations; who writes the next versions excludes others
    of its kind; events a nested store committed are stored under their writer and not yet
    announced; connections and open calls add up to the pool.
  - *Election*: also as `OneLeaderPerLease` under `LeSpec`. The two properties are inductive
    with the types and the fact that nobody asked in the future: who wins finds the
    row absent or older than a lease, and a leader whose lease runs has the row.
  - *Shutdown*: also as `ShutdownIsGraceful` under `GsSpec`. At most one of signal and call
    runs the hooks, they are untouched until it starts them (hence each runs once),
    only its closing of the channel ends the counting, and meanwhile the channel holds one
    error for each hook that failed and went on.
  - *Publishers*: the attempts a call still has to make are counted with those that reached a
    target, so that receipts stay within calls times tries; a call that has failed nowhere
    has reached every target before its own; while no two calls met in one breaker, whoever is
    inside it finds what it read still there, so that the count and the state move together.
  - *Tracked publishing*: an entry that no two processed at once has one holder, and none
    when it is done; a row in processing is held by one past its mark, or was cut off by a crash,
    a lost answer or a refused statement. A registration names a process whose heartbeat
    goroutine has not ended only as active, since deactivating touches the own id alone.
* **Buses and watchers** (`InfrastructurePartsProofs`, and `InfrastructureProofs` for the
  composition): `BusesAndWatchersHold` of `MCEventInfrastructure`. The watchers share only the
  count of faults, which only grows.
  - *Kafka*: through every message, refusal, crash and close a producer's log only grows, so that
    a mark or a call that fitted it still does; the first call of a handler for a message
    follows the mark, which never passes the consumer but for messages that are no events; and a row marked processed is one the
    producer holds, has logged, or has given up.
  - *Audit log*: each event that was logged is once in exactly one place, and each place has it
    at most once; the last flush begins after Close, so it takes all that was logged before.
  - *SIEM buffer*: a task that nobody overtook between its read and its write has read the buffer
    as it is. Two accesses that overlap put at stake what had been held until then and nothing
    later: any other event is in the buffer, with a task, sent, or in a batch that was given up;
    before the first failure it is in one of these places only.
  - *Incidents*: a copy has the actions of the row it was made from and those its maker reports,
    so that a write over the same row loses none. *Gauges*: a status that no row has entered or
    left since is shown as counted, or has no row. *Trend*: the samples were taken in order, so
    what the window leaves is the end of what it left before.
* **Access** (`ServicesProofs`): `AccessHolds` of `MCServices`, likewise.
  - *Tokens*: also as `TokensAreSafe` under `AuSpec`. A token is in one hand only until it
    is given out; what a request will still write for it is bounded by where the request
    stands; an invalidation removes the key before it returns.
  - *Hub*: also as `HubAgrees` under `PhSpec`. Only clients whose goroutine has joined are in
    the maps, every place that closes a channel removes its client, and removing one entry
    from a list leaves the other clients' entries.
  - *Permissions*: a cached answer is current, or one of the four causes of a stale one is
    on record; answers in the hands of a reader are bounded the same way. *Their client*: the
    breaker's counters and the connections handed out agree.
  - *Limits*: a script of the bucket that lets a request through leaves no debt, so that what
    was let through is covered by the clock, although a later script may run with an
    earlier time and leave one; requests that are to count under a quota found it not used
    up; who revoked a key alone left nobody that would write it as switched on.
  - *Breaker of the gRPC servers*: also as `BreakerIsNotWedged` under `MbSpec`. In half-open the
    requests are those under way and those that failed, and when none is under way they were
    too few to trip it. This needs `TripAt <= ProbeLimit`, which the interceptor's literals give
    (3 and 10, `circuit_breaker.go:324`); with fewer probes than `ReadyToTrip` asks for, a
    half-open breaker whose probes all failed would refuse for ever.
  - *Plugins*: instances and callers in them match, and the limit is kept by whoever holds
    the mutex; the registry's list is that of the installations.
  - *Versioning*: as long as no two detections swapped the strategy at once, what the one under
    way saved is the configured one; the dates of a version are written in the order of its
    life, and the scheduler carries out the earlier of two transitions first; the usage
    windows kept are the newest, and no more than the retention count.
* **Copies** (`ServicePartsProofs`, and `ServicesProofs` for the composition): `CopiesHold` of
  `MCServices`. The parts share nothing but the count of the frontend's faults, which only grows.
  - *Users*: a copied user, page or count is current, or remembered as late, or among the keys
    that a call which has written still drops; a call about to write holds the row as it is,
    unless another overtook it; and one about to insert found nobody with the address. Each
    removal discharges what its call owed, each store of an old read marks its key as late.
  - *Levels of the cache*: a copy expires no later than its level and the levels it was read
    from allow, for values carried from level to level too, as long as the cleaner runs. Where
    the calls of a process for a key did not overlap, what it wrote last is at every level that
    its own call has passed, or that level has another process's value.
  - *Edge*: the two properties are inductive with the types: a `Set` that finds a location
    full holds its mutex for good, after which nobody takes anything out of it.
  - *Tokens*: as long as no two refreshes overlapped, the one under way holds the token issued
    last; so it is refused only after a fault. *Offline queue*: what a request may still be sent
    is what its attempts leave, in the queue and in the pass that copied it, plus one round
    for each page closed before the pass was saved.
  - *Optimistic updates*: the two indexes agree on each entry through every deletion and
    eviction; only an update that was made is shown or gone back to, and none goes back to itself.
  - *Realtime*: what waits to be sent is about a subscription that somebody has, or that a
    server may have still; and unless a late close made the client forget it, a socket that is
    being connected is the one it waits for.
  - *GraphQL responses*: a live response is in its tag's set, and the set lasts as long, unless a
    request still has to add it or give the tag its expiry; a failed command, a restart or an
    overlapping invalidation that would break this puts it on record, and only an expiry written
    for a member, with no invalidation under way, takes it off.
    *Loaders*: a key waits, or is in the one batch, only while it is asked for, and what
    was given of it is what its promise holds.
* **Deliveries** (`ServicePartsProofs`, and `ServicesProofs` for the composition): `DeliveriesHold`
  of `MCServices`.
  - *Webhooks*: also as `WebhooksAreSafe` under `WhSpec`. What a goroutine has in hand is a row
    that exists, copied from it, with the attempts counted so far; a row is held by one that
    has it in hand, or one of the recorded causes (a replay, a fault, a panic) left it; each
    write back of a copy keeps that, whatever the other instance wrote in between.
  - *File tasks*: also as `FilesAreProcessed` under `FpSpec`. A task is in the queue once or with one
    worker, and only if its upload got as far as its sender's lock; the queue's head
    is taken with it, so that the two cases stay apart.
  - *Progress*: also as `ProgressIsOrdered` under `PtSpec`. A client that the loop is still adding
    has been sent the welcome at most, so the welcome cannot find its channel full; clients
    have open channels; one flush is under way at a time, its message is the buffer, and
    what a client has got came before what is buffered unless that flush has passed it.

Model-checked only:

* all liveness: fairness and ENABLED are outside the prover's reach;
* `WorkflowSafety`: a workflow is a program of steps that is run by recursion over data;
* the aggregates' replays, the replay engine and the projections of CQRS (what `ReadModelHolds` adds
  to the pipeline), and much of `GatewaysHold`: folds over sequences, whose value after one more
  element needs induction over data, and, for the memory pool, powers of two; the rest of these
  conjunctions is within reach (see the plan), but is stated together with them;
* the type invariants of the composed runs (`EventInfrastructureTypeOK`, `ServicesTypeOK`),
  whose bounds on counters are those of the runs.

## 5. Findings

Each is a run that TLC ends with a counterexample:

1. `pool_driver` – with lib/pq the pool's mark calls are refused (`workers.go:553`).
2. `pool_crash` – nothing takes a row out of `processing` after a crash (`workers.go:484`).
3. `store_first_save` – a new aggregate starts at version 1, the store at 0 (`domain/shared/types.go:132`).
4. `pipeline_failed` – the bus returns nil for failed handlers (`in_memory_event_bus.go:64`).

The models contain, without a run of its own for each:

* Scanning the NULL `error_message` of a new row fails every fetch of the base outbox, so
  alone it publishes nothing (`transactional_outbox.go:297`); `Scannable`.
* An entry the base outbox gives up on stays eligible (`transactional_outbox.go:350`); `FailureRows`.
* The UPDATE of a profile change does not parse (`user_projection_handler.go:267`); `HandleUserUpdated`.
* A replay that overtakes unprocessed events makes the version guard drop them
  (`event_processor.go:185`), and so may two events with one `occurred_at`
  (`postgres_event_store.go:234`); these are what `ReplaysProcessedOnly` and
  `DistinctTimes` exclude from `ProjectionAgrees`.
* A guarded publish whose reset timeout has passed returns nil without publishing
  (`event_publishers.go:400`); `pbSwallowed`. The enhanced outbox's breaker, once tripped, is
  never closed (`enhanced_outbox.go:544`); `TripIsForGood`.
* `OutboxEventStore.SaveEvents` commits events before the outbox rows
  (`repository_integration.go:226`); `oiTorn`. With as many writers as connections each waits
  for a second one for ever; `StallIsNested`.
* Every process shares the leader's row, and a late release deletes the successor's
  (`workers.go:689`); `leUsurped`.
* `Commit` after a passed version check, and `Save` of the transactional user repository, lock
  a mutex they hold (`unit_of_work.go:238`); `"hung"`. So do `cleanupLRUInstance` of the plugin
  runtime, the edge cache's `Set` at capacity, the file engine's first task, and the hub's
  unregistering of a viewer.
* Projections lose an event's whole batch when one statement fails, and drop events that come
  after a newer one; `Cqrs`. A full replay of "all events" reads only unprocessed ones; `EventReplay`.
* Registrations may give two users one address, and leave a tenant without a user
  (`user_registration_service.go:92`); `rgBlind`. Publishing after `Save` publishes nothing.
* A failed insert of audit events loses its batch (`audit.go:304`), and a stored event fails its
  own signature check unless its time is a whole microsecond (`audit.go:239`); `SignatureSurvives`.
* A hook that fails after the timeout ends the process (`shutdown.go:168`); `CrashIsLate`.
* The close of an old socket resets `isConnecting` although a new one may be being connected
  (`event-client.ts:74`), so that the next `connect` opens another beside it; `frReset`. A
  subscription removed before it was confirmed is not taken back from the server
  (`event-client.ts:130`); "untold" in `OpenKnowsAll`.
* A permission answer cached after its invalidation is served for five minutes; `CacheIsCurrent`.
* Rows of webhook attempts left failed by a crash, and replayed dead letters, are delivered by
  nobody; `AttemptIsHeld`. A webhook that was deleted, or whose URL makes no request, leaves an
  attempt without a result, and giving up its retries dereferences it
  (`delivery_service.go:285`): the process ends with all it had in hand; `whPanicked`.
* The GraphQL limiter's hook calls a method through a `this` that has none (`rate-limit.ts:38`),
  so that over HTTP each operation it does not skip ends in a TypeError; nothing is counted, and
  the limiter is not modelled.
* A failed Redis command between a GraphQL response and its tag leaves a response that no
  invalidation finds (`cache.ts:152`), and so may a shorter response that gives the tag a shorter
  life, or an invalidation beside it; `rcUnfound`. A hit keeps nothing from being executed.
* Kafka messages that do not decode are marked as handled (`kafka_event_bus.go:785`); `NotAnEvent`.
* Events that Elasticsearch refused in a bulk request with answer 200 are gone (`siem.go:283`);
  `siDropped`. Callers and senders share a slice without a lock (`siem.go:412`); `siStale`.
* The enhanced outbox's heartbeat goroutine reports the process inactive while its tasks still run
  (`enhanced_outbox.go:276`).

## 6. Abstractions and assumptions

* One PostgreSQL database whose statements are atomic; READ COMMITTED; committed data survives.
* Redis executes commands, scripts and `MULTI` one after another; a key's TTL ends between two of them.
* Payloads, tenants, metrics, logs and configuration parsing are left out, except where a
  property is about them (signatures' times, version names, cache keys).
* In `OutboxTable`, a publisher's nil means the entry was received; what it means behind a
  composite, a breaker or a Kafka producer is checked in `OutboxPublishers` and `KafkaBus`.
* Statistics, archives and delivery logs of `migrations/004` do not affect the rows modelled.
* Code that does not compile is modelled as it reads: `pkg/repository`, `pkg/cqrs`,
  `repository_integration.go`'s aggregate wrapper, `config.go`'s Kafka publisher, the webhook
  service's event listener, two lines of `pkg/middleware`, the file service's and the user
  service's `main.go`. Code nobody calls is driven by the callers its documentation describes.

## 7. Not modelled

| Part | Why |
|---|---|
| `pkg/database`, `config`, `grpc`, `auth`, `telemetry`, `observability`, `metrics` | connections, configuration and telemetry: I/O, no state others decide on |
| `pkg/api`, `pkg/services`, `cmd` | HTTP handlers and wiring; `pkg/services` does not compile and `pkg/api` imports it |
| `file-service`, `notification-service`, `mobile-bff`, `web-bff` | generated skeletons |
| `tests`, `monitoring`, `shared` | test data, dashboards, manifests |
| `sunset_monitoring.go`, `developer_tools.go`, `example_integration.go` of `pkg/versioning` | type declarations, printed text, an example |
| cron jobs of the workflows, `monitoring_service.go` | a job keeps a context that its execution's end cancels; thin delegation |
| gateway's WAF and token validation | pattern lists; a stub that refuses every token |
| the GraphQL gateway's rate limiter and subscriptions | the limiter's only caller is the hook that throws (`rate-limit.ts:38`); `addSubscriber`, `removeSubscriber` and `cleanup` are called by nobody, and nothing in the repository writes the `lastSeen` times that `cleanup` reads |
| CRUD handlers, parsers, validators, password and token contents, WebAssembly | data |
| React hooks and login pages of the frontend | wrappers |

`PROJECT.json` says of every partly modelled component what is missing.

## 8. Plan

The model covers the system's parts; what remains is proof, within what provers can do:

1. The saves and loads of aggregates one event at a time, by a function from versions to states
   in place of the fold, which is what `ReadModelHolds` needs first.
