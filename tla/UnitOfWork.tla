---------------------------- MODULE UnitOfWork ----------------------------
(***************************************************************************)
(* The unit of work of pkg/repository with what it is made of: the units   *)
(* and the retry loops around them (unit_of_work.go,                       *)
(* service_integration.go, transactional_repositories.go), the optimistic  *)
(* concurrency manager with its locks and conflict resolvers               *)
(* (optimistic_concurrency.go), the event collector                        *)
(* (aggregate_event_collector.go) and the connection pools                 *)
(* (connection_pool.go).                                                   *)
(*                                                                         *)
(* Two calls never come back.  Commit takes uow.mu and, once the versions  *)
(* are checked, calls ValidateBusinessRules, which read-locks it; Save of  *)
(* the user repository takes repo.mu and calls ExistsByEmail, which        *)
(* read-locks it.  A goroutine at either stays at "hung", with its         *)
(* transaction open; what the code writes after these points cannot run.   *)
(***************************************************************************)
EXTENDS Integers, Sequences, FiniteSets

CONSTANTS
    UnitTasks,          \* goroutines that run a unit of work
    UnitCalls,          \* the calls they may make, see UnitCall
    Stored,             \* the aggregates with events in domain_events
    MaxStored,          \* bound: the highest version an aggregate reaches
    MaxUnitFaults,      \* bound: failing database calls and panics
    Lockers,            \* goroutines that share one concurrency manager
    LockDuration,       \* how long a lock is taken for
    LockHorizon,        \* bound: the last instant of the locks' clock
    ConflictRetries,    \* NewRetryOnConflictResolver(maxRetries)
    Collecting,         \* aggregates whose events are collected
    Emitted,            \* their uncommitted events: kinds, in order
    PoolNames,          \* names the pool manager knows
    PoolUsers,          \* goroutines that run transactions on a pool
    MaxPools,           \* bound: pools ever constructed
    PoolRetries,        \* ConnectionPoolConfig.MaxRetries
    MaxPoolFaults       \* bound: failing pool operations

\* How a unit is run: WithTransaction once, a RetryableUnitOfWork that keeps one unit over its
\* attempts, or a ServiceUnitOfWork that makes a unit for each.
Styles == {"once", "retryable", "service"}

\* What the operation given to a unit does, step by step.
BodySteps ==
    [op: {"track", "get", "load"}, of: Stored]
        \cup [op: {"saveUser", "saveOther", "getOther", "validate", "publish"}, of: {"-"}]

UnitCall == [style: Styles, retries: Nat, timeout: BOOLEAN, body: Seq(BodySteps)]

\* An event: its kind, and whether an interceptor stops it or fails, a transformer fails or
\* changes it, and its handler fails.
CollectedEvent == [kind: {"wanted", "noise"}, fate: {"stop", "refuse", "break", "change", "keep", "reject"}]

ASSUME UnitOfWorkAssumption ==
    /\ {MaxStored, LockDuration, LockHorizon, ConflictRetries, PoolRetries} \subseteq Nat
    /\ ConflictRetries > 0 /\ UnitCalls # {} /\ UnitCalls \subseteq UnitCall
    /\ IsFiniteSet(Collecting) /\ Emitted \subseteq Seq(CollectedEvent)

VARIABLES
    uwTask,             \* [UnitTasks -> task]
    uwStored,           \* [Stored -> MAX(version) in domain_events]
    uwFaults,
    cmCache,            \* versionCache; 0: no entry
    cmLocks,            \* lockTimeouts; 0: no entry
    cmRetry,            \* RetryOnConflictResolver.retryCount
    cmNow,
    cmLocker,           \* [Lockers -> what it is doing, and what it was granted]
    cmRow,              \* ghost: "retry" answers in a row, per aggregate
    cmRobbed,           \* ghost: goroutines whose lock another one deleted
    coLeft,             \* [Collecting -> events not yet looked at]
    coFilters,          \* kinds the registered filters let through
    coCount,            \* CollectorMetrics
    coFate,             \* ghost: [Collecting -> what became of each event]
    poOf,               \* ConnectionPoolManager.pools; 0: no pool
    poMade,             \* pools constructed so far
    poOpen,             \* open sql.DB handles: <<pool, kind>>
    poAdding,           \* the AddPool that holds the manager's mutex
    poUser,             \* [PoolUsers -> user]
    poFaults

unVars == <<uwTask, uwStored, uwFaults>>
cmVars == <<cmCache, cmLocks, cmRetry, cmNow, cmLocker, cmRow, cmRobbed>>
coVars == <<coLeft, coFilters, coCount, coFate>>
poVars == <<poOf, poMade, poOpen, poAdding, poUser, poFaults>>
uwVars == <<unVars, cmVars, coVars, poVars>>

-----------------------------------------------------------------------------
(* The unit of work.  tracked outlives a rollback; a retryable call meets  *)
(* it again in its next attempt.  The events collected so far are left     *)
(* out: nothing that can run reads them.                                   *)

IdleUnit == [at |-> "idle", call |-> CHOOSE c \in UnitCalls : TRUE, attempt |-> 0, step |-> 0,
             tx |-> FALSE, dead |-> FALSE, tracked |-> {}, unchecked |-> {},
             base |-> [a \in Stored |-> 0], seen |-> [a \in Stored |-> 0],
             error |-> "none", conflicts |-> 0]

SetUnit(t, r) == uwTask' = [uwTask EXCEPT ![t] = r]

\* isRetryableError: by the text of the error, and no domain error has such a text.
RetryableUnitError(error) == error = "retryable"

UnitFault == uwFaults < MaxUnitFaults /\ uwFaults' = uwFaults + 1
NoUnitFault == UNCHANGED uwFaults

Attempts(call) == IF call.style = "once" THEN 1 ELSE call.retries

\* A call arrives with aggregates it has read before.
CallUnit(t) ==
    /\ uwTask[t].at = "idle"
    /\ \E call \in UnitCalls :
        SetUnit(t, [IdleUnit EXCEPT
            !.call = call, !.base = uwStored,
            !.at = IF Attempts(call) = 0 THEN "failed" ELSE "begin",
            !.error = IF Attempts(call) = 0 THEN "final" ELSE "none"])
    /\ UNCHANGED <<uwStored, uwFaults>>

\* What the loops do with the error of an attempt.
AfterAttempt(u, error) ==
    [u EXCEPT !.error = error, !.tx = FALSE,
              !.at = CASE error = "panic" -> "failed"
                       [] RetryableUnitError(error) /\ u.attempt < Attempts(u.call) -> "begin"
                       [] OTHER -> "failed"]

\* A service makes a new unit for every attempt, a retryable unit is used again.
FreshUnit(u) ==
    IF u.call.style = "retryable" THEN u
    ELSE [u EXCEPT !.tracked = {}, !.dead = FALSE]

\* Begin: the deferred cancel() of the timeout's context ends the transaction at once, and the
\* unit keeps that context, so that a later Begin of the same unit fails.
BeginUnit(t) ==
    /\ uwTask[t].at = "begin"
    /\ LET u == FreshUnit([uwTask[t] EXCEPT !.attempt = @ + 1])
       IN \/ /\ ~u.dead
             /\ SetUnit(t, [u EXCEPT !.at = "body", !.step = 1, !.tx = TRUE,
                                     !.dead = u.call.timeout])
             /\ NoUnitFault
          \/ u.dead /\ SetUnit(t, AfterAttempt(u, "final")) /\ NoUnitFault
          \/ UnitFault /\ SetUnit(t, AfterAttempt(u, "retryable"))
    /\ UNCHANGED uwStored

\* Rollback leaves the tracked aggregates.  The error returned holds the operation's text also
\* when the rollback fails.
RolledBack(u, error) == AfterAttempt(u, error)

RegisterAggregate(u, a) == [u EXCEPT !.tracked = @ \cup {a}, !.step = @ + 1]

\* GetByID of the user repository reads the event store on a connection of its own.
BodyStep(t) ==
    LET u == uwTask[t]
        s == u.call.body[u.step]
    IN  /\ u.at = "body" /\ u.step <= Len(u.call.body)
        /\ \/ s.op = "track" /\ SetUnit(t, RegisterAggregate(u, s.of)) /\ NoUnitFault
           \/ /\ s.op \in {"get", "load"} /\ uwStored[s.of] > 0
              /\ SetUnit(t, [RegisterAggregate(u, s.of) EXCEPT !.base[s.of] = uwStored[s.of]])
              /\ NoUnitFault
           \/ /\ s.op = "get" /\ uwStored[s.of] = 0
              /\ SetUnit(t, RolledBack(u, "final")) /\ NoUnitFault
           \/ /\ s.op = "load" /\ uwStored[s.of] = 0     \* Workspaces().GetByID: nil, nil
              /\ SetUnit(t, RolledBack(u, "panic")) /\ NoUnitFault
           \/ s.op = "saveUser" /\ SetUnit(t, [u EXCEPT !.at = "hung"]) /\ NoUnitFault
           \/ /\ s.op \in {"saveOther", "validate", "publish"}
              /\ SetUnit(t, [u EXCEPT !.step = @ + 1]) /\ NoUnitFault
           \/ s.op = "getOther" /\ SetUnit(t, RolledBack(u, "final")) /\ NoUnitFault
           \/ \E error \in {"retryable", "final", "panic"} :  \* the operation itself
                UnitFault /\ SetUnit(t, RolledBack(u, error))
        /\ UNCHANGED uwStored

\* Commit, up to its first validation.  An error or a conflict rolls back and forgets the
\* tracked aggregates.
CommitUnit(t) ==
    LET u == uwTask[t]
    IN  /\ u.at = "body" /\ u.step > Len(u.call.body)
        /\ SetUnit(t, [u EXCEPT !.at = "check", !.unchecked = u.tracked])
        /\ UNCHANGED <<uwStored, uwFaults>>

CommitFails(u, error) == AfterAttempt([u EXCEPT !.tracked = {}, !.unchecked = {}], error)

\* validateOptimisticConcurrency, one aggregate at a time in map order.  Of the actions of the
\* resolver a unit starts with, each one leaves the result invalid.
CheckAggregate(t, a) ==
    LET u == uwTask[t]
    IN  /\ u.at = "check" /\ a \in u.unchecked
        /\ \/ u.dead /\ SetUnit(t, CommitFails(u, "final")) /\ NoUnitFault
           \/ UnitFault /\ SetUnit(t, CommitFails(u, "retryable"))
           \/ /\ ~u.dead /\ uwStored[a] = u.base[a]
              /\ SetUnit(t, [u EXCEPT !.unchecked = @ \ {a}, !.seen[a] = uwStored[a]])
              /\ NoUnitFault
           \/ /\ ~u.dead /\ uwStored[a] # u.base[a]
              /\ SetUnit(t, CommitFails([u EXCEPT !.conflicts = @ + 1], "final"))
              /\ NoUnitFault
        /\ UNCHANGED uwStored

\* ValidateBusinessRules under the lock that Commit holds.
ValidateBusinessRules(t) ==
    /\ uwTask[t].at = "check" /\ uwTask[t].unchecked = {}
    /\ SetUnit(t, [uwTask[t] EXCEPT !.at = "hung"])
    /\ UNCHANGED <<uwStored, uwFaults>>

\* ExecuteWithRetry: the caller's context ends while the loop waits.
ContextEnds(t) ==
    /\ uwTask[t].at = "begin" /\ uwTask[t].attempt > 0 /\ uwTask[t].call.style = "service"
    /\ SetUnit(t, [uwTask[t] EXCEPT !.at = "failed", !.error = "final"])
    /\ UNCHANGED <<uwStored, uwFaults>>

\* Another program saves events of an aggregate.
OtherSaves(a) ==
    /\ uwStored[a] < MaxStored
    /\ uwStored' = [uwStored EXCEPT ![a] = @ + 1]
    /\ UNCHANGED <<uwTask, uwFaults>>

UnInit == /\ uwTask = [t \in UnitTasks |-> IdleUnit]
          /\ uwStored \in [Stored -> 0..1] /\ uwFaults = 0

UnNext ==
    \/ \E t \in UnitTasks :
        \/ CallUnit(t) \/ BeginUnit(t) \/ BodyStep(t) \/ CommitUnit(t)
        \/ ValidateBusinessRules(t) \/ ContextEnds(t)
        \/ \E a \in Stored : CheckAggregate(t, a)
    \/ \E a \in Stored : OtherSaves(a)

-----------------------------------------------------------------------------
(* One ConcurrencyControlManager, used by several goroutines.  The lockers *)
(* see the versions in uwStored.                                           *)

IdleLocker == [at |-> "idle", of |-> CHOOSE a \in Stored : TRUE, read |-> 0, until |-> 0]

SetLocker(l, r) == cmLocker' = [cmLocker EXCEPT ![l] = r]
LockerIdle(l) == cmLocker[l].at = "idle"
HasLock(l, a) == cmLocker[l].at = "locked" /\ cmLocker[l].of = a /\ cmNow < cmLocker[l].until

RegisterAggregateVersion(l, a) ==
    /\ LockerIdle(l)
    /\ cmCache[a] # uwStored[a]
    /\ cmCache' = [cmCache EXCEPT ![a] = uwStored[a]]
    /\ UNCHANGED <<cmLocks, cmRetry, cmNow, cmLocker, cmRow, cmRobbed>>

\* CheckOptimisticConcurrency reads the database without ccm.mu ...
GetDatabaseVersion(l, a) ==
    /\ LockerIdle(l)
    /\ SetLocker(l, [IdleLocker EXCEPT !.at = "checking", !.of = a, !.read = uwStored[a]])
    /\ UNCHANGED <<cmCache, cmLocks, cmRetry, cmNow, cmRow, cmRobbed>>

\* ... and stores what it read afterwards, unless the resolver's answer is an error.  The
\* version the caller expects is any it may have seen.
ResolveConflict(l, expected) ==
    LET w == cmLocker[l]
        a == w.of
        conflict == expected # w.read
        spent == cmRetry[a] >= ConflictRetries
    IN  /\ w.at = "checking"
        /\ cmCache' = IF conflict /\ spent THEN cmCache ELSE [cmCache EXCEPT ![a] = w.read]
        /\ cmRetry' = [cmRetry EXCEPT ![a] =
                        IF ~conflict THEN @ ELSE IF spent THEN 0 ELSE @ + 1]
        /\ cmRow' = [cmRow EXCEPT ![a] =
                        IF ~conflict THEN @ ELSE IF spent THEN 0 ELSE @ + 1]
        /\ SetLocker(l, IdleLocker)
        /\ UNCHANGED <<cmLocks, cmNow, cmRobbed>>

\* Mutant: a lock that is held is given again.
AcquireOptimisticLockHeld(l, a) ==
    /\ LockerIdle(l)
    /\ cmCache[a] \in {0, uwStored[a]}
    /\ cmLocks' = [cmLocks EXCEPT ![a] = cmNow + LockDuration]
    /\ SetLocker(l, [IdleLocker EXCEPT !.at = "locked", !.of = a, !.until = cmNow + LockDuration])
    /\ cmRobbed' = cmRobbed \ {l}
    /\ UNCHANGED <<cmCache, cmRetry, cmNow, cmRow>>

\* An unexpired lock, or another version in the cache, refuses the lock.
AcquireOptimisticLock(l, a) ==
    /\ LockerIdle(l)
    /\ ~(cmNow < cmLocks[a])
    /\ cmCache[a] \in {0, uwStored[a]}
    /\ cmLocks' = [cmLocks EXCEPT ![a] = cmNow + LockDuration]
    /\ SetLocker(l, [IdleLocker EXCEPT !.at = "locked", !.of = a, !.until = cmNow + LockDuration])
    /\ cmRobbed' = cmRobbed \ {l}
    /\ UNCHANGED <<cmCache, cmRetry, cmNow, cmRow>>

\* ReleaseOptimisticLock deletes the aggregate's entry, whoever has it by now.
ReleaseOptimisticLock(l) ==
    LET w == cmLocker[l]
    IN  /\ w.at = "locked"
        /\ cmLocks' = [cmLocks EXCEPT ![w.of] = 0]
        /\ cmRobbed' = cmRobbed \cup {k \in Lockers \ {l} : HasLock(k, w.of)}
        /\ SetLocker(l, IdleLocker)
        /\ UNCHANGED <<cmCache, cmRetry, cmNow, cmRow>>

\* The holder saved: UpdateVersionAfterSave.
UpdateVersionAfterSave(l) ==
    LET a == cmLocker[l].of
    IN  /\ cmLocker[l].at = "locked" /\ cmCache[a] # uwStored[a]
        /\ cmCache' = [cmCache EXCEPT ![a] = uwStored[a]]
        /\ UNCHANGED <<cmLocks, cmRetry, cmNow, cmLocker, cmRow, cmRobbed>>

CleanupExpiredLocks ==
    /\ \E a \in Stored : cmLocks[a] # 0 /\ cmNow > cmLocks[a]
    /\ cmLocks' = [a \in Stored |-> IF cmNow > cmLocks[a] THEN 0 ELSE cmLocks[a]]
    /\ UNCHANGED <<cmCache, cmRetry, cmNow, cmLocker, cmRow, cmRobbed>>

LockTick == cmNow < LockHorizon /\ cmNow' = cmNow + 1
            /\ UNCHANGED <<cmCache, cmLocks, cmRetry, cmLocker, cmRow, cmRobbed>>

CmInit ==
    /\ cmCache = [a \in Stored |-> 0] /\ cmLocks = [a \in Stored |-> 0]
    /\ cmRetry = [a \in Stored |-> 0] /\ cmRow = [a \in Stored |-> 0]
    /\ cmNow = 1 /\ cmRobbed = {} /\ cmLocker = [l \in Lockers |-> IdleLocker]

CmNext ==
    \/ \E l \in Lockers :
        \/ \E a \in Stored : \/ RegisterAggregateVersion(l, a)
                             \/ GetDatabaseVersion(l, a)
                             \/ AcquireOptimisticLock(l, a)
        \/ \E expected \in 0..MaxStored : ResolveConflict(l, expected)
        \/ ReleaseOptimisticLock(l) \/ UpdateVersionAfterSave(l)
    \/ CleanupExpiredLocks \/ LockTick

-----------------------------------------------------------------------------
(* The event collector.                                                    *)

CollectorMetrics == [total: Nat, filtered: Nat, intercepted: Nat, transformed: Nat, processed: Nat]

\* CollectEventsFromAggregate, one event: filters, interceptors, transformers, the handlers of
\* its type.  Handlers run before the collection is known to succeed.
FateOf(event) ==
    CASE event.kind \notin coFilters -> "filtered"
      [] event.fate = "refuse" -> "aborted"
      [] event.fate = "stop" -> "intercepted"
      [] event.fate = "break" -> "aborted"
      [] event.fate = "reject" -> "aborted"
      [] OTHER -> "processed"

Changed(event) == FateOf(event) \in {"processed", "aborted"} /\ event.fate \in {"change", "reject"}

CountOf(c, event) ==
    [total       |-> c.total + 1,
     filtered    |-> c.filtered + (IF FateOf(event) = "filtered" THEN 1 ELSE 0),
     intercepted |-> c.intercepted + (IF FateOf(event) = "intercepted" THEN 1 ELSE 0),
     transformed |-> c.transformed + (IF Changed(event) THEN 1 ELSE 0),
     processed   |-> c.processed + (IF FateOf(event) = "processed" THEN 1 ELSE 0)]

CollectEvent(g) ==
    /\ coLeft[g] # <<>>
    /\ LET event == Head(coLeft[g])
       IN  /\ coCount' = CountOf(coCount, event)
           /\ coFate' = [coFate EXCEPT ![g] = Append(@, FateOf(event))]
           /\ coLeft' = [coLeft EXCEPT ![g] = IF FateOf(event) = "aborted" THEN <<>> ELSE Tail(@)]
    /\ UNCHANGED coFilters

\* RegisterEventFilter may come while events are being collected.
RegisterEventFilter ==
    /\ coFilters = {"wanted", "noise"} /\ coFilters' = {"wanted"}
    /\ UNCHANGED <<coLeft, coCount, coFate>>

CoInit ==
    /\ coLeft \in [Collecting -> Emitted] /\ coFilters = {"wanted", "noise"}
    /\ coCount = [total |-> 0, filtered |-> 0, intercepted |-> 0, transformed |-> 0, processed |-> 0]
    /\ coFate = [g \in Collecting |-> <<>>]

CoNext == (\E g \in Collecting : CollectEvent(g)) \/ RegisterEventFilter

-----------------------------------------------------------------------------
(* Connection pools and their manager.                                     *)

HandleKinds == <<"read", "write", "longRunning">>

\* GetConnection: analytics share the long-running handle, anything unknown reads.
HandleOf(workload) ==
    CASE workload = "write" -> "write"
      [] workload \in {"longRunning", "analytics"} -> "longRunning"
      [] OTHER -> "read"
Workloads == {"read", "write", "analytics"}

NoAdding == [name |-> "-", stage |-> 0]
IdlePoolUser == [at |-> "idle", pool |-> 0, workload |-> "read", attempt |-> 0, applied |-> 0,
                 lost |-> 0]

PoolFault == poFaults < MaxPoolFaults /\ poFaults' = poFaults + 1
NoPoolFault == UNCHANGED poFaults
SetPoolUser(p, r) == poUser' = [poUser EXCEPT ![p] = r]
HandlesOf(pool) == {pool} \X {"read", "write", "longRunning"}

\* AddPool holds the manager's mutex while it opens and pings the three handles.
AddPool(name) ==
    /\ poAdding = NoAdding /\ poMade < MaxPools
    /\ poMade' = poMade + 1 /\ poAdding' = [name |-> name, stage |-> 1]
    /\ UNCHANGED <<poOf, poOpen, poUser, poFaults>>

\* initializeConnectionPools: a handle that cannot be opened or pinged closes the earlier ones.
OpenHandle ==
    /\ poAdding.stage \in 1..3
    /\ \/ /\ poOpen' = poOpen \cup {<<poMade, HandleKinds[poAdding.stage]>>}
          /\ poAdding' = [poAdding EXCEPT !.stage = @ + 1] /\ NoPoolFault
       \/ PoolFault /\ poOpen' = poOpen \ HandlesOf(poMade) /\ poAdding' = NoAdding
    /\ UNCHANGED <<poOf, poMade, poUser>>

ClosePool(pool) == poOpen' = poOpen \ HandlesOf(pool)

\* The name's earlier pool is closed under those who use it.
StorePool ==
    /\ poAdding.stage = 4
    /\ ClosePool(poOf[poAdding.name])
    /\ poOf' = [poOf EXCEPT ![poAdding.name] = poMade]
    /\ poAdding' = NoAdding
    /\ UNCHANGED <<poMade, poUser, poFaults>>

CloseAll ==
    /\ poAdding = NoAdding /\ \E name \in PoolNames : poOf[name] # 0
    /\ poOpen' = poOpen \ UNION {HandlesOf(poOf[name]) : name \in PoolNames}
    /\ poOf' = [name \in PoolNames |-> 0]
    /\ UNCHANGED <<poMade, poAdding, poUser, poFaults>>

GetPool(p, name) ==
    /\ poUser[p].at = "idle" /\ poAdding = NoAdding
    /\ \E workload \in Workloads :
        SetPoolUser(p, [IdlePoolUser EXCEPT
            !.pool = poOf[name], !.workload = workload,
            !.at = IF poOf[name] = 0 \/ PoolRetries = 0 THEN "failed" ELSE "begin"])
    /\ UNCHANGED <<poOf, poMade, poOpen, poAdding, poFaults>>

HandleIsOpen(u) == <<u.pool, HandleOf(u.workload)>> \in poOpen

\* WithRetryableTransaction's loop.
AfterPoolError(u, retryable) ==
    [u EXCEPT !.at = IF retryable /\ u.attempt < PoolRetries THEN "begin" ELSE "failed"]

BeginPoolTx(p) ==
    LET u == [poUser[p] EXCEPT !.attempt = @ + 1]
    IN  /\ u.at = "begin"
        /\ \/ HandleIsOpen(u) /\ SetPoolUser(p, [u EXCEPT !.at = "commit"]) /\ NoPoolFault
           \/ ~HandleIsOpen(u) /\ SetPoolUser(p, AfterPoolError(u, FALSE)) /\ NoPoolFault
           \/ PoolFault /\ SetPoolUser(p, AfterPoolError(u, TRUE))
        /\ UNCHANGED <<poOf, poMade, poOpen, poAdding>>

\* fn and Commit of WithTransaction.  Close cancels the pool's context, and with it the
\* transaction; a commit whose answer is lost may have happened.
CommitPoolTx(p) ==
    LET u == poUser[p]
    IN  /\ u.at = "commit"
        /\ \/ /\ HandleIsOpen(u)
              /\ SetPoolUser(p, [u EXCEPT !.at = "done", !.applied = @ + 1]) /\ NoPoolFault
           \/ ~HandleIsOpen(u) /\ SetPoolUser(p, AfterPoolError(u, FALSE)) /\ NoPoolFault
           \/ PoolFault /\ \E retryable \in BOOLEAN : SetPoolUser(p, AfterPoolError(u, retryable))
           \/ /\ HandleIsOpen(u) /\ PoolFault
              /\ SetPoolUser(p, AfterPoolError([u EXCEPT !.applied = @ + 1, !.lost = @ + 1], TRUE))
        /\ UNCHANGED <<poOf, poMade, poOpen, poAdding>>

PoInit ==
    /\ poOf = [name \in PoolNames |-> 0] /\ poMade = 0 /\ poOpen = {} /\ poAdding = NoAdding
    /\ poUser = [p \in PoolUsers |-> IdlePoolUser] /\ poFaults = 0

PoNext ==
    \/ \E name \in PoolNames : AddPool(name) \/ \E p \in PoolUsers : GetPool(p, name)
    \/ OpenHandle \/ StorePool \/ CloseAll
    \/ \E p \in PoolUsers : BeginPoolTx(p) \/ CommitPoolTx(p)

-----------------------------------------------------------------------------
(* The four parts share nothing but the versions the locks are checked     *)
(* against, so each is run from every state of the stored versions.        *)

UwInit == UnInit /\ CmInit /\ CoInit /\ PoInit

UwTypeOK ==
    /\ \A t \in UnitTasks :
        /\ uwTask[t].at \in {"idle", "begin", "body", "check", "hung", "failed"}
        /\ uwTask[t].attempt \in 0..(Attempts(uwTask[t].call) + 1)
        /\ uwTask[t].tracked \subseteq Stored /\ uwTask[t].unchecked \subseteq uwTask[t].tracked
    /\ uwStored \in [Stored -> 0..MaxStored]
    /\ cmCache \in [Stored -> 0..MaxStored] /\ cmLocks \in [Stored -> 0..(LockHorizon + LockDuration)]
    /\ coCount \in CollectorMetrics
    /\ poOf \in [PoolNames -> 0..MaxPools] /\ poOpen \subseteq UNION {HandlesOf(i) : i \in 1..MaxPools}

(* A transaction is open only while a call is inside it, or is stuck in    *)
(* it: no path out of Begin, of the operation (its error, its panic) or of *)
(* a refused commit leaves one behind, and no attempt is made with the     *)
(* last one's still open.                                                  *)
NoTransactionLeft ==
    \A t \in UnitTasks : uwTask[t].tx <=> uwTask[t].at \in {"body", "check", "hung"}

(* A commit reaches the business rules only with versions that were the    *)
(* stored ones when they were read, for every aggregate tracked, the ones  *)
(* of earlier attempts of a retryable unit included; and a conflict, which *)
(* the resolver answers with "retry", is the last thing a call meets.      *)
ConflictsAreFinal ==
    \A t \in UnitTasks :
        LET u == uwTask[t]
        IN  /\ u.conflicts <= 1 /\ (u.conflicts = 1 => u.at = "failed")
            /\ (u.at = "hung" /\ u.step > Len(u.call.body)
                    => \A a \in u.tracked : u.seen[a] = u.base[a])

(* Two goroutines believe at once that they hold the lock of an aggregate  *)
(* only after a third release: that of a holder whose own lock had run     *)
(* out, and who deleted the entry of its successor.  And the resolver      *)
(* never answers "retry" more than ConflictRetries times in a row.         *)
LocksApart ==
    /\ \A a \in Stored : \A l, k \in Lockers \ cmRobbed : HasLock(l, a) /\ HasLock(k, a) => l = k
    /\ \A a \in Stored : cmRow[a] <= ConflictRetries

(* Every event the collector counted is accounted for once: filtered,      *)
(* intercepted, processed, or the one that ended its aggregate's           *)
(* collection, which no counter shows; nothing is looked at after it.      *)
Ended == {g \in Collecting : \E i \in 1..Len(coFate[g]) : coFate[g][i] = "aborted"}
CollectorAddsUp ==
    /\ coCount.total = coCount.filtered + coCount.intercepted + coCount.processed + Cardinality(Ended)
    /\ coCount.transformed <= coCount.processed + Cardinality(Ended)
    /\ \A g \in Collecting : \A i \in 1..Len(coFate[g]) :
        coFate[g][i] = "aborted" => i = Len(coFate[g]) /\ coLeft[g] = <<>>

(* A handle is open only while its pool is registered or being added: a    *)
(* pool that fails half-way, is replaced or is closed leaves none.  A      *)
(* transaction reported done was applied, and applied a second time only   *)
(* when the answer to a commit was lost.                                   *)
HandlesOwned ==
    /\ \A h \in poOpen : (\E name \in PoolNames : poOf[name] = h[1])
                            \/ (poAdding # NoAdding /\ h[1] = poMade)
    /\ \A p \in PoolUsers :
        /\ poUser[p].at = "done" => poUser[p].applied > 0
        /\ poUser[p].applied <= 1 + poUser[p].lost

UnitOfWorkSafety ==
    NoTransactionLeft /\ ConflictsAreFinal /\ LocksApart /\ CollectorAddsUp /\ HandlesOwned

=============================================================================
