--------------------------- MODULE OutboxWorkers ---------------------------
(***************************************************************************)
(* The worker pool of pkg/outbox/workers.go: OutboxWorkerManager and the    *)
(* goroutines it starts, working against the event_outbox table.            *)
(*                                                                         *)
(* A worker is one goroutine.  It fetches a batch, marks it processing,     *)
(* publishes the entries one by one, then records the outcomes; between any *)
(* two of these steps the other workers, the clock and the business         *)
(* transactions run.  checkWorkerHealth replaces a worker it finds idle for *)
(* too long: the old goroutine is only cancelled, and finishes its batch    *)
(* beside the new one.                                                      *)
(***************************************************************************)
EXTENDS OutboxTable

CONSTANTS
    Workers,        \* names for the goroutines that exist at one time
    MaxConcurrency  \* workers the manager runs (WorkerConfig.MaxConcurrency)

ASSUME WorkersAssumption == IsFiniteSet(Workers)
ASSUME ConcurrencyAssumption ==
    MaxConcurrency \in Nat /\ MaxConcurrency <= Cardinality(Workers)

VARIABLES
    manager,    \* "down", "running" or, from Stop until wg.Wait returns, "stopping"
    monitor,    \* the monitoringLoop goroutine is alive
    current,    \* wm.workers
    cancelled,  \* workers whose context is cancelled
    stale,      \* workers whose lastActivity is more than five minutes ago
    pc,         \* what each worker does next
    batch,      \* the entries it fetched
    todo,       \* those it has not published yet
    okIDs,      \* successfulIDs
    failedIDs   \* the keys of failedEvents

poolVars == <<manager, monitor, current, cancelled, stale, pc, batch, todo, okIDs, failedIDs>>
vars == <<tableVars, poolVars>>

PoolTypeOK ==
    /\ manager \in {"down", "running", "stopping"}
    /\ monitor \in BOOLEAN
    /\ current \subseteq Workers
    /\ cancelled \subseteq Workers
    /\ stale \subseteq Workers
    /\ pc \in [Workers -> {"off", "idle", "fetched", "publishing", "recording"}]
    /\ batch \in [Workers -> SUBSET Events]
    /\ todo \in [Workers -> SUBSET Events]
    /\ okIDs \in [Workers -> SUBSET Events]
    /\ failedIDs \in [Workers -> SUBSET Events]

\* Types of the table and of the pool.
TypeOK == TableTypeOK /\ PoolTypeOK

NoBatch == [w \in Workers |-> {}]

PoolInit ==
    /\ manager = "down"
    /\ monitor = FALSE
    /\ current = {}
    /\ cancelled = {}
    /\ stale = {}
    /\ pc = [w \in Workers |-> "off"]
    /\ batch = NoBatch
    /\ todo = NoBatch
    /\ okIDs = NoBatch
    /\ failedIDs = NoBatch

Init == TableInit /\ PoolInit

----------------------------------------------------------------------------
(* The manager.                                                            *)

Off == {w \in Workers : pc[w] = "off"}

\* OutboxWorkerManager.Start in a new process.
Start ==
    /\ manager = "down"
    /\ manager' = "running"
    /\ monitor' = TRUE
    /\ \E S \in SUBSET Workers :
          /\ Cardinality(S) = MaxConcurrency
          /\ current' = S
          /\ pc' = [w \in Workers |-> IF w \in S THEN "idle" ELSE "off"]
    /\ UNCHANGED <<cancelled, stale, batch, todo, okIDs, failedIDs, tableVars>>

\* Five minutes pass without activity, which only a non-empty fetch records.
\* A poll comes every PollInterval, so a worker with rows to fetch fetches them
\* before that: what goes stale is a worker without work or inside a long batch.
GoesStale(w) ==
    /\ w \in current \ stale
    /\ pc[w] = "idle" => Eligible = {}
    /\ stale' = stale \cup {w}
    /\ UNCHANGED <<manager, monitor, current, cancelled, pc, batch, todo, okIDs, failedIDs,
                   tableVars>>

\* checkWorkerHealth cancels the unhealthy w and starts v in its place.  After
\* Stop the new worker's context is cancelled from the start.
CheckWorkerHealth(w, v) ==
    /\ monitor
    /\ w \in current \cap stale /\ v \in Off \ current
    /\ current' = (current \ {w}) \cup {v}
    /\ stale' = stale \ {w}
    /\ cancelled' = cancelled \cup ({w} \ Off) \cup (IF manager = "stopping" THEN {v} ELSE {})
    /\ pc' = [pc EXCEPT ![v] = "idle"]
    /\ UNCHANGED <<manager, monitor, batch, todo, okIDs, failedIDs, tableVars>>

\* Stop cancels the manager's context, and with it every worker's.
Stop ==
    /\ manager = "running"
    /\ manager' = "stopping"
    /\ cancelled' = Workers \ Off
    /\ UNCHANGED <<monitor, current, stale, pc, batch, todo, okIDs, failedIDs, tableVars>>

MonitorExits ==
    /\ manager = "stopping" /\ monitor
    /\ monitor' = FALSE
    /\ UNCHANGED <<manager, current, cancelled, stale, pc, batch, todo, okIDs, failedIDs, tableVars>>

\* wg.Wait returns: every worker and the monitoring loop have ended.
StopReturns ==
    /\ manager = "stopping" /\ ~monitor /\ Off = Workers
    /\ manager' = "down"
    /\ current' = {}
    /\ stale' = {}
    /\ UNCHANGED <<monitor, cancelled, pc, batch, todo, okIDs, failedIDs, tableVars>>

\* The process dies: the table is all that survives.
WorkersLost ==
    /\ manager' = "down"
    /\ monitor' = FALSE
    /\ current' = {}
    /\ cancelled' = {}
    /\ stale' = {}
    /\ pc' = [w \in Workers |-> "off"]
    /\ batch' = NoBatch /\ todo' = NoBatch /\ okIDs' = NoBatch /\ failedIDs' = NoBatch

Crash ==
    /\ manager # "down"
    /\ faults < MaxFaults
    /\ faults' = faults + 1
    /\ WorkersLost
    /\ UNCHANGED <<rows, committed, delivered>>

----------------------------------------------------------------------------
(* processBatch.                                                           *)

\* Rows a peer's fetch or mark statement holds locked at this moment.
Locked(w) == UNION {batch[v] : v \in {u \in Workers \ {w} : pc[u] = "fetched"}}

\* get_next_outbox_batch: the oldest eligible rows, SKIP LOCKED.
GetNextBatch(w) ==
    /\ pc[w] = "idle"
    /\ \E L \in SUBSET Locked(w) :
          LET fetched == Oldest(Eligible \ L, BatchSize)
          IN  fetched # {} /\ batch' = [batch EXCEPT ![w] = fetched]
    /\ pc' = [pc EXCEPT ![w] = "fetched"]
    /\ stale' = stale \ {w}
    /\ UNCHANGED <<manager, monitor, current, cancelled, todo, okIDs, failedIDs, tableVars>>

\* Processing goes on whatever number of rows the statement updated.
MarkEventsAsProcessing(w) ==
    /\ pc[w] = "fetched"
    /\ TakesSlices /\ Succeeds(MarkedProcessing(batch[w]))
    /\ pc' = [pc EXCEPT ![w] = "publishing"]
    /\ todo' = [todo EXCEPT ![w] = batch[w]]
    /\ UNCHANGED <<manager, monitor, current, cancelled, stale, batch, okIDs, failedIDs,
                   committed, delivered>>

\* On an error the batch is given up.
MarkEventsAsProcessingErrs(w) ==
    /\ pc[w] = "fetched"
    /\ \/ TakesSlices /\ Errs(MarkedProcessing(batch[w]))
       \/ ~TakesSlices /\ Refused
    /\ pc' = [pc EXCEPT ![w] = "idle"]
    /\ batch' = [batch EXCEPT ![w] = {}]
    /\ UNCHANGED <<manager, monitor, current, cancelled, stale, todo, okIDs, failedIDs,
                   committed, delivered>>

\* The loop over events, in batch order.
ProcessEvent(w, e) ==
    /\ pc[w] = "publishing"
    /\ e \in Oldest(todo[w], 1)
    /\ todo' = [todo EXCEPT ![w] = @ \ {e}]
    /\ \/ /\ PublishOk(e)
          /\ okIDs' = [okIDs EXCEPT ![w] = @ \cup {e}]
          /\ UNCHANGED failedIDs
       \/ /\ PublishErr(e)
          /\ failedIDs' = [failedIDs EXCEPT ![w] = @ \cup {e}]
          /\ UNCHANGED okIDs
    /\ UNCHANGED <<manager, monitor, current, cancelled, stale, pc, batch, rows, committed, faults>>

\* An error of either mark statement is logged and nothing more.
MarkEventsAsPublished(w) ==
    /\ pc[w] = "publishing" /\ todo[w] = {}
    /\ \/ Succeeds(MarkedPublished(okIDs[w]))
       \/ okIDs[w] # {} /\ Errs(MarkedPublished(okIDs[w]))
    /\ pc' = [pc EXCEPT ![w] = "recording"]
    /\ okIDs' = [okIDs EXCEPT ![w] = {}]
    /\ UNCHANGED <<manager, monitor, current, cancelled, stale, batch, todo, failedIDs,
                   committed, delivered>>

MarkEventsAsFailed(w) ==
    /\ pc[w] = "recording"
    /\ \/ Succeeds(MarkedFailed(failedIDs[w]))
       \/ failedIDs[w] # {} /\ Errs(MarkedFailed(failedIDs[w]))
    /\ pc' = [pc EXCEPT ![w] = "idle"]
    /\ batch' = [batch EXCEPT ![w] = {}]
    /\ failedIDs' = [failedIDs EXCEPT ![w] = {}]
    /\ UNCHANGED <<manager, monitor, current, cancelled, stale, todo, okIDs, committed, delivered>>

\* processingLoop sees ctx.Done between two batches; a tick may still win the select.
LoopExits(w) ==
    /\ pc[w] = "idle" /\ w \in cancelled
    /\ pc' = [pc EXCEPT ![w] = "off"]
    /\ cancelled' = cancelled \ {w}
    /\ UNCHANGED <<manager, monitor, current, stale, batch, todo, okIDs, failedIDs, tableVars>>

WorkerStep(w) ==
    \/ GetNextBatch(w)
    \/ MarkEventsAsProcessing(w)
    \/ MarkEventsAsProcessingErrs(w)
    \/ \E e \in Events : ProcessEvent(w, e)
    \/ MarkEventsAsPublished(w)
    \/ MarkEventsAsFailed(w)
    \/ LoopExits(w)

ManagerStep ==
    \/ Start
    \/ Stop
    \/ \E w \in Workers : GoesStale(w)
    \/ \E w, v \in Workers : CheckWorkerHealth(w, v)
    \/ MonitorExits
    \/ StopReturns

PoolNext == ManagerStep \/ \E w \in Workers : WorkerStep(w)

Next ==
    \/ PoolNext
    \/ Crash
    \/ TableNext /\ UNCHANGED poolVars

Spec == Init /\ [][Next]_vars

(***************************************************************************)
(* Fairness: a started goroutine keeps running (its ticker fires, its calls  *)
(* return), a stopping manager ends, the process is started again when it   *)
(* is down, and time passes.  Nothing is assumed of Publish: an entry that   *)
(* always fails is dead-lettered.                                           *)
(***************************************************************************)
Fairness ==
    /\ \A w \in Workers : WF_vars(WorkerStep(w))
    /\ WF_vars(Start)
    /\ WF_vars(MonitorExits)
    /\ WF_vars(StopReturns)
    /\ \A e \in Events : WF_vars(RetryTimeReached(e) /\ UNCHANGED poolVars)

FairSpec == Spec /\ Fairness

----------------------------------------------------------------------------
(* Properties.                                                             *)

\* A row says published, or has been cleaned up, only after the entry was handed
\* over, whichever worker recorded it and however stale its batch was.
PublishedWasDelivered ==
    \A e \in Events : Settled(e) => delivered[e] > 0

\* A failed row has a retry scheduled exactly while retries are left: no entry
\* falls out of the queue early and none stays in it after its last retry.
FailedSchedule ==
    \A e \in Events :
        rows[e].status = "failed" =>
            (rows[e].next_retry_at = "null" <=> rows[e].retry_count >= MaxRetries)

\* A dead-lettered row can be taken up again by a peer whose batch is older, so
\* max_retries can be exceeded, but by less than one attempt per other worker.
RetryBudget ==
    \A e \in Events : rows[e].retry_count <= MaxRetries + Cardinality(Workers) - 1

\* As long as no process died and no database call failed, a row in processing
\* is in the hands of a worker that will still record its outcome.
ProcessingIsOwned ==
    faults = 0 =>
        \A e \in Events :
            rows[e].status = "processing" =>
                \E w \in Workers : e \in todo[w] \cup okIDs[w] \cup failedIDs[w]

\* Each worker tries an entry at most once per retry_count below max_retries, so
\* duplicates are bounded even with stale batches, crashes and lost answers.
DeliveryBudget ==
    \A e \in Events : delivered[e] <= MaxRetries * Cardinality(Workers)

\* The pool and its table implement the promise of OutboxDelivery: settled only
\* after a delivery, settled for good, parked but never lost.
Stage(e) ==
    IF e \notin committed THEN "none"
    ELSE IF Settled(e) THEN "settled"
    ELSE IF DeadLettered(e) THEN "parked"
    ELSE "owed"

Delivery == INSTANCE OutboxDelivery
              WITH stage    <- [e \in Events |-> Stage(e)],
                   received <- {e \in Events : delivered[e] > 0}

ImplementsDelivery == Delivery!Spec

\* If the service is up for good, every committed entry ends published or in the
\* dead-letter state and stays there.
EventuallySettles ==
    <>[](manager = "running") =>
        \A e \in Events : [](e \in committed => <>[](Settled(e) \/ DeadLettered(e)))
============================================================================
