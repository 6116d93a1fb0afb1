---------------------------- MODULE OutboxProofs ----------------------------
(***************************************************************************)
(* Proofs about the worker pool and about the outbox service, for any sets   *)
(* of entries and workers.                                                 *)
(*                                                                         *)
(* First the statements of OutboxTable: each keeps the table well typed.     *)
(* Then type correctness of the pool, and from it the inductive invariant    *)
(* IInv that the safety properties follow from, and the refinement of        *)
(* OutboxDelivery.                                                         *)
(*                                                                         *)
(* Then the service, where the base outbox's goroutines and the worker pool  *)
(* write the same rows.  The base outbox's UPDATEs name only the id, so the  *)
(* pool's FailedSchedule and budgets do not hold there; what the proofs of   *)
(* the pool say of one step does, and is cited for every step the pool takes *)
(* inside the service.                                                     *)
(***************************************************************************)
EXTENDS OutboxService, TLAPS, FiniteSetTheorems

(***************************************************************************)
(* The statements return tables of the same type.                           *)
(***************************************************************************)
\* Each mark statement, the insert and the delete give a well-typed table.
LEMMA StatementTypes ==
    ASSUME TableTypeOK, NEW S \in SUBSET Events
    PROVE  /\ Insert(S) \in [Events -> Row]
           /\ MarkedProcessing(S) \in [Events -> Row]
           /\ MarkedPublished(S) \in [Events -> Row]
           /\ MarkedFailed(S) \in [Events -> Row]
           /\ Deleted(S) \in [Events -> Row]
<1>1. \A e \in Events : rows[e] \in Row
  BY DEF TableTypeOK
<1>2. NoRow \in Row /\ [NoRow EXCEPT !.status = "pending"] \in Row
  BY DEF NoRow, Row, Statuses
<1>3. Insert(S) \in [Events -> Row] /\ Deleted(S) \in [Events -> Row]
  BY <1>1, <1>2 DEF Insert, Deleted
<1>4. MarkedProcessing(S) \in [Events -> Row]
  BY <1>1 DEF MarkedProcessing, Row, Statuses
<1>5. MarkedPublished(S) \in [Events -> Row]
  BY <1>1 DEF MarkedPublished, Row, Statuses
<1>6. MarkedFailed(S) \in [Events -> Row]
  <2>1. SUFFICES ASSUME NEW e \in Events
                 PROVE  MarkedFailed(S)[e] \in Row
    BY DEF MarkedFailed
  <2>2. NextRetryAt(rows[e].retry_count) \in {"null", "later", "due"}
    BY DEF NextRetryAt
  <2>3. rows[e].retry_count + 1 \in Nat
    BY <1>1 DEF Row
  <2> QED BY <1>1, <2>2, <2>3 DEF MarkedFailed, Row, Statuses
<1> QED BY <1>3, <1>4, <1>5, <1>6

\* A call that succeeds, or fails with or without effect, keeps rows and faults typed.
LEMMA CallTypes ==
    ASSUME TableTypeOK, NEW R \in [Events -> Row],
           Succeeds(R) \/ Errs(R) \/ Refused
    PROVE  rows' \in [Events -> Row] /\ faults' \in 0 .. MaxFaults
BY BoundsAssumption DEF TableTypeOK, Succeeds, Errs, Refused

\* A publish keeps the delivery counts typed, and never lowers one.
LEMMA PublishTypes ==
    ASSUME TableTypeOK, NEW e \in Events, PublishOk(e) \/ PublishErr(e)
    PROVE  /\ delivered' \in [Events -> 0 .. MaxDeliveries]
           /\ \A d \in Events : delivered[d] > 0 => delivered'[d] > 0
           /\ \A d \in Events \ {e} : delivered'[d] = delivered[d]
           /\ PublishOk(e) => delivered'[e] > 0
BY BoundsAssumption DEF TableTypeOK, PublishOk, PublishErr, HandOver

(***************************************************************************)
(* Type correctness.                                                       *)
(***************************************************************************)
\* A fetched batch is a set of entries.
LEMMA FetchedEntries ==
    ASSUME NEW S \in SUBSET Events
    PROVE  Oldest(S, BatchSize) \in SUBSET Events
BY DEF Oldest

\* The workers' batches are empty and well typed when the process starts.
LEMMA EmptyBatches == NoBatch \in [Workers -> SUBSET Events]
BY DEF NoBatch

\* No step of the pool, of the table or of the environment breaks TypeOK.
LEMMA TypeStep == TypeOK /\ [Next]_vars => TypeOK'
<1> SUFFICES ASSUME TypeOK, [Next]_vars
             PROVE  TypeOK'
  OBVIOUS
<1> USE DEF TypeOK
<1>1. CASE ManagerStep
  <2>1. CASE Start
    BY <2>1 DEF Start, TableTypeOK, PoolTypeOK, tableVars
  <2>2. CASE Stop
    BY <2>2 DEF Stop, TableTypeOK, PoolTypeOK, tableVars
  <2>3. ASSUME NEW w \in Workers, GoesStale(w)
        PROVE  TypeOK'
    BY <2>3 DEF GoesStale, TableTypeOK, PoolTypeOK, tableVars
  <2>4. ASSUME NEW w \in Workers, NEW v \in Workers, CheckWorkerHealth(w, v)
        PROVE  TypeOK'
    BY <2>4 DEF CheckWorkerHealth, Off, TableTypeOK, PoolTypeOK, tableVars
  <2>5. CASE MonitorExits
    BY <2>5 DEF MonitorExits, TableTypeOK, PoolTypeOK, tableVars
  <2>6. CASE StopReturns
    BY <2>6 DEF StopReturns, TableTypeOK, PoolTypeOK, tableVars
  <2> QED BY <1>1, <2>1, <2>2, <2>3, <2>4, <2>5, <2>6 DEF ManagerStep
<1>2. ASSUME NEW w \in Workers, WorkerStep(w)
      PROVE  TypeOK'
  <2>1. CASE GetNextBatch(w)
    <3>1. PICK L \in SUBSET Locked(w) :
             batch' = [batch EXCEPT ![w] = Oldest(Eligible \ L, BatchSize)]
      BY <2>1 DEF GetNextBatch
    <3>2. Eligible \ L \in SUBSET Events
      BY DEF Eligible
    <3>3. Oldest(Eligible \ L, BatchSize) \in SUBSET Events
      BY <3>2, FetchedEntries
    <3> QED BY <2>1, <3>1, <3>3 DEF GetNextBatch, TableTypeOK, PoolTypeOK, tableVars
  <2>2. CASE MarkEventsAsProcessing(w)
    <3>1. rows' \in [Events -> Row] /\ faults' \in 0 .. MaxFaults
      <4>1. MarkedProcessing(batch[w]) \in [Events -> Row]
        BY StatementTypes DEF PoolTypeOK
      <4> QED BY <2>2, <4>1, CallTypes DEF MarkEventsAsProcessing
    <3> QED BY <2>2, <3>1 DEF MarkEventsAsProcessing, TableTypeOK, PoolTypeOK
  <2>3. CASE MarkEventsAsProcessingErrs(w)
    <3>1. rows' \in [Events -> Row] /\ faults' \in 0 .. MaxFaults
      <4>1. MarkedProcessing(batch[w]) \in [Events -> Row]
        BY StatementTypes DEF PoolTypeOK
      <4> QED BY <2>3, <4>1, CallTypes DEF MarkEventsAsProcessingErrs
    <3> QED BY <2>3, <3>1 DEF MarkEventsAsProcessingErrs, TableTypeOK, PoolTypeOK
  <2>4. ASSUME NEW e \in Events, ProcessEvent(w, e)
        PROVE  TypeOK'
    <3>1. delivered' \in [Events -> 0 .. MaxDeliveries]
      BY <2>4, PublishTypes DEF ProcessEvent
    <3> QED BY <2>4, <3>1 DEF ProcessEvent, TableTypeOK, PoolTypeOK
  <2>5. CASE MarkEventsAsPublished(w)
    <3>1. rows' \in [Events -> Row] /\ faults' \in 0 .. MaxFaults
      <4>1. MarkedPublished(okIDs[w]) \in [Events -> Row]
        BY StatementTypes DEF PoolTypeOK
      <4> QED BY <2>5, <4>1, CallTypes DEF MarkEventsAsPublished
    <3> QED BY <2>5, <3>1 DEF MarkEventsAsPublished, TableTypeOK, PoolTypeOK
  <2>6. CASE MarkEventsAsFailed(w)
    <3>1. rows' \in [Events -> Row] /\ faults' \in 0 .. MaxFaults
      <4>1. MarkedFailed(failedIDs[w]) \in [Events -> Row]
        BY StatementTypes DEF PoolTypeOK
      <4> QED BY <2>6, <4>1, CallTypes DEF MarkEventsAsFailed
    <3> QED BY <2>6, <3>1 DEF MarkEventsAsFailed, TableTypeOK, PoolTypeOK
  <2>7. CASE LoopExits(w)
    BY <2>7 DEF LoopExits, TableTypeOK, PoolTypeOK, tableVars
  <2> QED BY <1>2, <2>1, <2>2, <2>3, <2>4, <2>5, <2>6, <2>7 DEF WorkerStep
<1>3. CASE Crash
  <2>1. TableTypeOK'
    BY <1>3, BoundsAssumption DEF Crash, TableTypeOK
  <2>2. PoolTypeOK'
    BY <1>3, EmptyBatches DEF Crash, WorkersLost, PoolTypeOK
  <2> QED BY <2>1, <2>2
<1>4. CASE TableNext /\ UNCHANGED poolVars
  <2>1. TableTypeOK'
    <3>1. ASSUME NEW S \in SUBSET Events, ExecuteWithOutbox(S)
          PROVE  TableTypeOK'
      BY <3>1, StatementTypes DEF ExecuteWithOutbox, TableTypeOK
    <3>2. ASSUME NEW S \in SUBSET Events, CleanupProcessedEvents(S)
          PROVE  TableTypeOK'
      BY <3>2, StatementTypes DEF CleanupProcessedEvents, TableTypeOK
    <3>3. ASSUME NEW e \in Events, RetryTimeReached(e)
          PROVE  TableTypeOK'
      BY <3>3 DEF RetryTimeReached, TableTypeOK, Row
    <3> QED BY <1>4, <3>1, <3>2, <3>3 DEF TableNext
  <2>2. PoolTypeOK'
    BY <1>4 DEF PoolTypeOK, poolVars
  <2> QED BY <2>1, <2>2
<1>5. CASE UNCHANGED vars
  BY <1>5 DEF vars, tableVars, poolVars, TableTypeOK, PoolTypeOK
<1> QED BY <1>1, <1>2, <1>3, <1>4, <1>5 DEF Next, PoolNext

\* The empty table and the idle pool are well typed.
LEMMA TypeInitially == Init => TypeOK
<1> SUFFICES ASSUME Init
             PROVE  TypeOK
  OBVIOUS
<1>1. NoRow \in Row
  BY DEF NoRow, Row, Statuses
<1>2. TableTypeOK
  BY <1>1, BoundsAssumption DEF Init, TableInit, TableTypeOK
<1>3. PoolTypeOK
  BY EmptyBatches DEF Init, PoolInit, PoolTypeOK
<1> QED BY <1>2, <1>3 DEF TypeOK

\* Every reachable state is well typed: in particular a row has one of the four
\* statuses the workers write, and the counters stay in their ranges.
THEOREM TypeCorrect == Spec => []TypeOK
BY TypeInitially, TypeStep, PTL DEF Spec

----------------------------------------------------------------------------
(***************************************************************************)
(* The inductive invariant.                                                *)
(***************************************************************************)

\* Where a worker's entries are at each point of processBatch.
BatchOK ==
    \A w \in Workers :
        /\ batch[w] \subseteq committed
        /\ todo[w] \cup okIDs[w] \cup failedIDs[w] \subseteq batch[w]
        /\ pc[w] \in {"off", "idle"} => batch[w] = {}
        /\ pc[w] = "fetched" => todo[w] = {} /\ okIDs[w] = {} /\ failedIDs[w] = {}
        /\ pc[w] = "recording" => todo[w] = {} /\ okIDs[w] = {}

\* No goroutine outlives its process.
ManagerOK == manager = "down" => ~monitor /\ \A w \in Workers : pc[w] = "off"

\* A row exists only after its transaction, and is pending only until its first fetch.
RowsOK ==
    \A e \in Events :
        /\ rows[e].status # "absent" => e \in committed
        /\ rows[e].status = "pending" => rows[e].retry_count = 0

\* What a worker is about to record as published was handed over.
DeliveredOK ==
    /\ PublishedWasDelivered
    /\ \A w \in Workers : \A e \in okIDs[w] : delivered[e] > 0

\* Each goroutine with the entry in its batch may still add one to its count.
Holders(e) == {w \in Workers : e \in batch[w]}

BudgetOK ==
    \A e \in Events :
        \/ rows[e].retry_count < MaxRetries
        \/ rows[e].retry_count + Cardinality(Holders(e)) <= MaxRetries + Cardinality(Workers) - 1

(***************************************************************************)
(* Deliveries.  retry_count r below max_retries stands for at most r + 1     *)
(* rounds in which every worker tries the entry once; the workers that have  *)
(* the entry before them can still use up what is left of the last round.   *)
(***************************************************************************)
Publishers(e) == {w \in Workers : e \in todo[w]}
Candidates(e) == Publishers(e) \cup {w \in Workers : pc[w] = "fetched" /\ e \in batch[w]}

Retryable(e) == rows[e].status \in {"pending", "failed"} /\ rows[e].retry_count < MaxRetries

Rounds(e) ==
    IF Retryable(e) THEN rows[e].retry_count
    ELSE IF rows[e].status = "processing" /\ rows[e].retry_count < MaxRetries
         THEN rows[e].retry_count + 1
         ELSE MaxRetries

\* Whoever fetched a row that waits for a retry must mark it before it publishes, and
\* that opens a new round: only those past their mark statement count there.
Outstanding(e) == IF Retryable(e) THEN Publishers(e) ELSE Candidates(e)

DeliveriesOK ==
    \A e \in Events :
        IF e \in committed
        THEN delivered[e] + Cardinality(Outstanding(e)) <= Cardinality(Workers) * Rounds(e)
        ELSE delivered[e] = 0

IInv ==
    /\ TypeOK
    /\ BatchOK
    /\ ManagerOK
    /\ RowsOK
    /\ DeliveredOK
    /\ FailedSchedule
    /\ BudgetOK
    /\ DeliveriesOK
    /\ ProcessingIsOwned

(***************************************************************************)
(* A mark statement as the worker sees it changes the table as a whole or    *)
(* not at all, and only the rows named and in the right status.             *)
(***************************************************************************)
\* Entry by entry, what a mark call may do to the table.
LEMMA MarkEffects ==
    ASSUME TypeOK, NEW S \in SUBSET Events
    PROVE  /\ Succeeds(MarkedProcessing(S)) \/ Errs(MarkedProcessing(S)) \/ Refused =>
                 \A e \in Events :
                    \/ rows'[e] = rows[e]
                    \/ /\ e \in S /\ rows[e].status \in {"pending", "failed"}
                       /\ rows'[e] = [rows[e] EXCEPT !.status = "processing"]
           /\ Succeeds(MarkedPublished(S)) \/ Errs(MarkedPublished(S)) =>
                 \A e \in Events :
                    \/ rows'[e] = rows[e]
                    \/ /\ e \in S /\ rows[e].status = "processing"
                       /\ rows'[e] = [rows[e] EXCEPT !.status = "published",
                                       !.published_at = "set", !.error_message = "null"]
           /\ Succeeds(MarkedFailed(S)) \/ Errs(MarkedFailed(S)) =>
                 \A e \in Events :
                    \/ rows'[e] = rows[e]
                    \/ /\ e \in S /\ rows[e].status = "processing"
                       /\ rows'[e] = [rows[e] EXCEPT !.status = "failed",
                                       !.retry_count = @ + 1,
                                       !.next_retry_at = NextRetryAt(rows[e].retry_count),
                                       !.error_message = "text"]
BY DEF TypeOK, TableTypeOK, Succeeds, Errs, Refused, MarkedProcessing, MarkedPublished, MarkedFailed

(***************************************************************************)
(* The same for the table's other clients: which rows they touch.           *)
(***************************************************************************)
TableEffect(e) ==
    \/ rows'[e] = rows[e] /\ (e \in committed' <=> e \in committed)
    \/ /\ e \notin committed /\ e \in committed'
       /\ rows'[e] = [NoRow EXCEPT !.status = "pending"]
    \/ /\ rows[e].status = "published" /\ (e \in committed' <=> e \in committed)
       /\ rows'[e] = NoRow
    \/ /\ rows[e].next_retry_at = "later" /\ (e \in committed' <=> e \in committed)
       /\ rows'[e] = [rows[e] EXCEPT !.next_retry_at = "due"]

\* Entry by entry, what the business transactions, the cleanup and the clock may do.
LEMMA TableEffects ==
    ASSUME TypeOK, TableNext
    PROVE  /\ UNCHANGED <<delivered, faults>>
           /\ committed \subseteq committed'
           /\ \A e \in Events : TableEffect(e)
<1>1. ASSUME NEW S \in SUBSET Events, ExecuteWithOutbox(S)
      PROVE  \A e \in Events : TableEffect(e)
  BY <1>1 DEF ExecuteWithOutbox, Insert, TableEffect
<1>2. ASSUME NEW S \in SUBSET Events, CleanupProcessedEvents(S)
      PROVE  \A e \in Events : TableEffect(e)
  BY <1>2 DEF CleanupProcessedEvents, Deleted, TableEffect
<1>3. ASSUME NEW d \in Events, RetryTimeReached(d)
      PROVE  \A e \in Events : TableEffect(e)
  BY <1>3 DEF RetryTimeReached, TypeOK, TableTypeOK, TableEffect
<1>4. UNCHANGED <<delivered, faults>> /\ committed \subseteq committed'
  BY DEF TableNext, ExecuteWithOutbox, CleanupProcessedEvents, RetryTimeReached
<1> QED BY <1>1, <1>2, <1>3, <1>4 DEF TableNext

\* The fields of the rows that come about that way.
LEMMA TableRow ==
    ASSUME NEW r \in Row
    PROVE  /\ LET q == [NoRow EXCEPT !.status = "pending"]
              IN  /\ q.status = "pending" /\ q.retry_count = 0 /\ q.next_retry_at = "null"
           /\ NoRow.status = "absent" /\ NoRow.retry_count = 0
           /\ LET q == [r EXCEPT !.next_retry_at = "due"]
              IN  /\ q.status = r.status /\ q.retry_count = r.retry_count
                  /\ q.next_retry_at = "due"
BY DEF Row, NoRow

(***************************************************************************)
(* Each part of IInv is preserved.                                         *)
(***************************************************************************)
\* Only a process that is up has current or running workers.
LEMMA ManagerPreserved ==
    ASSUME TypeOK, ManagerOK, [Next]_vars
    PROVE  ManagerOK'
<1> USE DEF ManagerOK
<1>1. CASE ManagerStep
  BY <1>1 DEF ManagerStep, Start, Stop, GoesStale, CheckWorkerHealth, MonitorExits, StopReturns,
     Off, TypeOK, PoolTypeOK
<1>2. ASSUME NEW w \in Workers, WorkerStep(w)
      PROVE  ManagerOK'
  <2>1. manager' = manager /\ monitor' = monitor
    BY <1>2 DEF WorkerStep, GetNextBatch, MarkEventsAsProcessing, MarkEventsAsProcessingErrs,
       ProcessEvent, MarkEventsAsPublished, MarkEventsAsFailed, LoopExits
  <2>2. pc[w] # "off"
    BY <1>2 DEF WorkerStep, GetNextBatch, MarkEventsAsProcessing, MarkEventsAsProcessingErrs,
       ProcessEvent, MarkEventsAsPublished, MarkEventsAsFailed, LoopExits
  <2> QED BY <2>1, <2>2
<1>3. CASE Crash
  BY <1>3 DEF Crash, WorkersLost
<1>4. CASE UNCHANGED poolVars
  BY <1>4 DEF poolVars
<1> QED BY <1>1, <1>2, <1>3, <1>4 DEF Next, PoolNext, vars

\* The bookkeeping of a batch: what a worker still has to publish and to record stays
\* part of the batch it fetched, and is empty where processBatch has none.
LEMMA BatchPreserved ==
    ASSUME TypeOK, BatchOK, ManagerOK, RowsOK, [Next]_vars
    PROVE  BatchOK'
<1> USE DEF BatchOK, TypeOK, PoolTypeOK
<1>1. CASE ManagerStep
  <2>1. UNCHANGED <<committed, batch, todo, okIDs, failedIDs>>
    BY <1>1 DEF ManagerStep, Start, Stop, GoesStale, CheckWorkerHealth, MonitorExits,
       StopReturns, tableVars
  <2>2. \A w \in Workers : pc'[w] = pc[w] \/ (batch[w] = {} /\ pc'[w] \in {"off", "idle"})
    BY <1>1 DEF ManagerStep, Start, Stop, GoesStale, CheckWorkerHealth, MonitorExits,
       StopReturns, Off, ManagerOK
  <2> QED BY <2>1, <2>2
<1>2. ASSUME NEW w \in Workers, WorkerStep(w)
      PROVE  BatchOK'
  <2>1. CASE GetNextBatch(w)
    <3>1. PICK L \in SUBSET Locked(w) :
             batch' = [batch EXCEPT ![w] = Oldest(Eligible \ L, BatchSize)]
      BY <2>1 DEF GetNextBatch
    <3>2. Oldest(Eligible \ L, BatchSize) \subseteq committed
      BY DEF Oldest, Eligible, RowsOK
    <3> QED BY <2>1, <3>1, <3>2 DEF GetNextBatch, tableVars
  <2>2. CASE MarkEventsAsProcessing(w)
    BY <2>2 DEF MarkEventsAsProcessing
  <2>3. CASE MarkEventsAsProcessingErrs(w)
    BY <2>3 DEF MarkEventsAsProcessingErrs
  <2>4. ASSUME NEW e \in Events, ProcessEvent(w, e)
        PROVE  BatchOK'
    <3>1. e \in todo[w]
      BY <2>4 DEF ProcessEvent, Oldest
    <3> QED BY <2>4, <3>1 DEF ProcessEvent
  <2>5. CASE MarkEventsAsPublished(w)
    BY <2>5 DEF MarkEventsAsPublished
  <2>6. CASE MarkEventsAsFailed(w)
    BY <2>6 DEF MarkEventsAsFailed
  <2>7. CASE LoopExits(w)
    BY <2>7 DEF LoopExits, tableVars
  <2> QED BY <1>2, <2>1, <2>2, <2>3, <2>4, <2>5, <2>6, <2>7 DEF WorkerStep
<1>3. CASE Crash
  BY <1>3 DEF Crash, WorkersLost, NoBatch
<1>4. CASE TableNext /\ UNCHANGED poolVars
  BY <1>4, TableEffects DEF poolVars
<1>5. CASE UNCHANGED vars
  BY <1>5 DEF vars, tableVars, poolVars
<1> QED BY <1>1, <1>2, <1>3, <1>4, <1>5 DEF Next, PoolNext

(***************************************************************************)
(* How a step changes the table, by which of the pool's statements.         *)
(***************************************************************************)
RowsAlone == UNCHANGED <<rows, committed>>

\* Every step changes the table by one of five kinds of statement, or not at all.
LEMMA TableSteps ==
    ASSUME TypeOK, [Next]_vars
    PROVE  \/ RowsAlone
           \/ TableNext /\ UNCHANGED poolVars
           \/ \E w \in Workers :
                 \/ MarkEventsAsProcessing(w)
                 \/ MarkEventsAsProcessingErrs(w)
                 \/ MarkEventsAsPublished(w)
                 \/ MarkEventsAsFailed(w)
<1>1. CASE ManagerStep
  BY <1>1 DEF ManagerStep, Start, Stop, GoesStale, CheckWorkerHealth, MonitorExits,
     StopReturns, tableVars, RowsAlone
<1>2. ASSUME NEW w \in Workers, WorkerStep(w)
      PROVE  \/ RowsAlone
             \/ MarkEventsAsProcessing(w) \/ MarkEventsAsProcessingErrs(w)
             \/ MarkEventsAsPublished(w) \/ MarkEventsAsFailed(w)
  BY <1>2 DEF WorkerStep, GetNextBatch, ProcessEvent, LoopExits, tableVars, RowsAlone
<1>3. CASE Crash
  BY <1>3 DEF Crash, RowsAlone
<1>4. CASE UNCHANGED vars
  BY <1>4 DEF vars, tableVars, RowsAlone
<1> QED BY <1>1, <1>2, <1>3, <1>4 DEF Next, PoolNext

\* The life of a row, field by field.
RowMove(e, from, to) == rows[e].status \in from /\ rows'[e].status = to
CountKept(e) == rows'[e].retry_count = rows[e].retry_count
ScheduleKept(e) == rows'[e].next_retry_at = rows[e].next_retry_at
Committed(e) == e \in committed

RowStep(e) ==
    \/ rows'[e] = rows[e] /\ (Committed(e)' <=> Committed(e))
    \/ /\ ~Committed(e) /\ Committed(e)'
       /\ rows'[e].status = "pending" /\ rows'[e].retry_count = 0
       /\ rows'[e].next_retry_at = "null"
    \/ /\ RowMove(e, {"published"}, "absent") /\ rows'[e].retry_count = 0
       /\ (Committed(e)' <=> Committed(e))
    \/ /\ rows'[e].status = rows[e].status /\ CountKept(e)
       /\ rows[e].next_retry_at = "later" /\ rows'[e].next_retry_at = "due"
       /\ (Committed(e)' <=> Committed(e))
    \/ /\ RowMove(e, {"pending", "failed"}, "processing")
       /\ CountKept(e) /\ ScheduleKept(e) /\ (Committed(e)' <=> Committed(e))
    \/ /\ RowMove(e, {"processing"}, "published")
       /\ CountKept(e) /\ ScheduleKept(e) /\ (Committed(e)' <=> Committed(e))
    \/ /\ RowMove(e, {"processing"}, "failed")
       /\ rows'[e].retry_count = rows[e].retry_count + 1
       /\ rows'[e].next_retry_at = NextRetryAt(rows[e].retry_count)
       /\ (Committed(e)' <=> Committed(e))

\* Entry by entry, the four ways in which a step may change a row.
LEMMA RowSteps ==
    ASSUME TypeOK, [Next]_vars, NEW e \in Events
    PROVE  RowStep(e)
<1>0. rows[e] \in Row /\ NextRetryAt(rows[e].retry_count) \in {"null", "later", "due"}
  BY DEF TypeOK, TableTypeOK, NextRetryAt
<1>1. CASE RowsAlone
  BY <1>1 DEF RowsAlone, RowStep, Committed
<1>2. CASE TableNext
  <2>1. TableEffect(e)
    BY <1>2, TableEffects
  <2> QED BY <1>0, <2>1, TableRow DEF TableEffect, RowStep, RowMove, CountKept, Committed
<1>3. ASSUME NEW w \in Workers,
             MarkEventsAsProcessing(w) \/ MarkEventsAsProcessingErrs(w)
      PROVE  RowStep(e)
  <2>1. batch[w] \in SUBSET Events
    BY DEF TypeOK, PoolTypeOK
  <2>2. committed' = committed
    BY <1>3 DEF MarkEventsAsProcessing, MarkEventsAsProcessingErrs
  <2>3. Succeeds(MarkedProcessing(batch[w])) \/ Errs(MarkedProcessing(batch[w])) \/ Refused
    BY <1>3 DEF MarkEventsAsProcessing, MarkEventsAsProcessingErrs
  <2>4. \/ rows'[e] = rows[e]
        \/ /\ rows[e].status \in {"pending", "failed"}
           /\ rows'[e] = [rows[e] EXCEPT !.status = "processing"]
    BY <2>1, <2>3, MarkEffects
  <2>5. \/ rows'[e] = rows[e]
        \/ RowMove(e, {"pending", "failed"}, "processing") /\ CountKept(e) /\ ScheduleKept(e)
    BY <1>0, <2>4 DEF Row, RowMove, CountKept, ScheduleKept
  <2> QED BY <2>2, <2>5 DEF RowStep, Committed
<1>4. ASSUME NEW w \in Workers, MarkEventsAsPublished(w)
      PROVE  RowStep(e)
  <2>1. okIDs[w] \in SUBSET Events /\ committed' = committed
    BY <1>4 DEF TypeOK, PoolTypeOK, MarkEventsAsPublished
  <2>2. Succeeds(MarkedPublished(okIDs[w])) \/ Errs(MarkedPublished(okIDs[w]))
    BY <1>4 DEF MarkEventsAsPublished
  <2>3. \/ rows'[e] = rows[e]
        \/ /\ rows[e].status = "processing"
           /\ rows'[e] = [rows[e] EXCEPT !.status = "published",
                           !.published_at = "set", !.error_message = "null"]
    BY <2>1, <2>2, MarkEffects
  <2>4. \/ rows'[e] = rows[e]
        \/ RowMove(e, {"processing"}, "published") /\ CountKept(e) /\ ScheduleKept(e)
    BY <1>0, <2>3 DEF Row, RowMove, CountKept, ScheduleKept
  <2> QED BY <2>1, <2>4 DEF RowStep, Committed
<1>5. ASSUME NEW w \in Workers, MarkEventsAsFailed(w)
      PROVE  RowStep(e)
  <2>1. failedIDs[w] \in SUBSET Events /\ committed' = committed
    BY <1>5 DEF TypeOK, PoolTypeOK, MarkEventsAsFailed
  <2>2. Succeeds(MarkedFailed(failedIDs[w])) \/ Errs(MarkedFailed(failedIDs[w]))
    BY <1>5 DEF MarkEventsAsFailed
  <2>3. \/ rows'[e] = rows[e]
        \/ /\ rows[e].status = "processing"
           /\ rows'[e] = [rows[e] EXCEPT !.status = "failed", !.retry_count = @ + 1,
                           !.next_retry_at = NextRetryAt(rows[e].retry_count),
                           !.error_message = "text"]
    BY <2>1, <2>2, MarkEffects
  <2>4. \/ rows'[e] = rows[e]
        \/ /\ RowMove(e, {"processing"}, "failed")
           /\ rows'[e].retry_count = rows[e].retry_count + 1
           /\ rows'[e].next_retry_at = NextRetryAt(rows[e].retry_count)
    BY <1>0, <2>3 DEF Row, RowMove
  <2> QED BY <2>1, <2>4 DEF RowStep, Committed
<1> QED BY <1>1, <1>2, <1>3, <1>4, <1>5, TableSteps

\* No step breaks RowsOK: only a committed transaction makes a row, and no statement
\* takes a row back to pending.
LEMMA RowsPreserved ==
    ASSUME TypeOK, RowsOK, [Next]_vars
    PROVE  RowsOK'
<1> SUFFICES ASSUME NEW e \in Events
             PROVE  /\ rows'[e].status # "absent" => e \in committed'
                    /\ rows'[e].status = "pending" => rows'[e].retry_count = 0
  BY DEF RowsOK
<1>1. RowStep(e)
  BY RowSteps
<1> QED BY <1>1 DEF RowStep, RowMove, CountKept, Committed, RowsOK

\* No step breaks FailedSchedule: mark_outbox_events_failed is the one statement that
\* writes failed, and it computes next_retry_at from the count it increments.
LEMMA SchedulePreserved ==
    ASSUME TypeOK, RowsOK, FailedSchedule, [Next]_vars
    PROVE  FailedSchedule'
<1> SUFFICES ASSUME NEW e \in Events, rows'[e].status = "failed"
             PROVE  rows'[e].next_retry_at = "null" <=> rows'[e].retry_count >= MaxRetries
  BY DEF FailedSchedule
<1>1. RowStep(e)
  BY RowSteps
<1>2. rows[e].retry_count \in Nat
  BY DEF TypeOK, TableTypeOK, Row
<1> QED BY <1>1, <1>2, MaxRetriesAssumption
        DEF RowStep, RowMove, CountKept, NextRetryAt, FailedSchedule

\* Deliveries are never taken back.
LEMMA DeliveriesGrow ==
    ASSUME TypeOK, [Next]_vars
    PROVE  \A e \in Events : delivered[e] > 0 => delivered'[e] > 0
<1>1. ASSUME NEW w \in Workers, NEW e \in Events, ProcessEvent(w, e)
      PROVE  \A d \in Events : delivered[d] > 0 => delivered'[d] > 0
  BY <1>1, PublishTypes DEF ProcessEvent, TypeOK
<1>2. UNCHANGED delivered \/ \E w \in Workers, e \in Events : ProcessEvent(w, e)
  BY TableEffects DEF Next, PoolNext, ManagerStep, WorkerStep, Start, Stop, GoesStale,
     CheckWorkerHealth, MonitorExits, StopReturns, GetNextBatch, MarkEventsAsProcessing,
     MarkEventsAsProcessingErrs, MarkEventsAsPublished, MarkEventsAsFailed, LoopExits,
     Crash, vars, tableVars
<1> QED BY <1>1, <1>2

\* No step breaks DeliveredOK: an entry among a worker's successfulIDs was handed over,
\* so the row it marks published was too.
LEMMA DeliveredPreserved ==
    ASSUME TypeOK, BatchOK, RowsOK, DeliveredOK, [Next]_vars
    PROVE  DeliveredOK'
<1>1. \A e \in Events : delivered[e] > 0 => delivered'[e] > 0
  BY DeliveriesGrow
<1>2. \A w \in Workers : \A e \in okIDs'[w] : delivered'[e] > 0
  <2>1. ASSUME NEW v \in Workers, NEW d \in Events, ProcessEvent(v, d)
        PROVE  \A w \in Workers : \A e \in okIDs'[w] : delivered'[e] > 0
    <3>1. okIDs' = okIDs \/ (PublishOk(d) /\ okIDs' = [okIDs EXCEPT ![v] = @ \cup {d}])
      BY <2>1 DEF ProcessEvent
    <3>2. PublishOk(d) => delivered'[d] > 0
      BY PublishTypes DEF TypeOK
    <3>3. \A w \in Workers : \A e \in okIDs'[w] : e \in okIDs[w] \/ (PublishOk(d) /\ e = d)
      BY <3>1 DEF TypeOK, PoolTypeOK
    <3> QED BY <1>1, <3>2, <3>3 DEF DeliveredOK, TypeOK, PoolTypeOK
  <2>2. \/ \E v \in Workers, d \in Events : ProcessEvent(v, d)
        \/ \A w \in Workers : okIDs'[w] \subseteq okIDs[w]
    BY DEF Next, PoolNext, ManagerStep, WorkerStep, Start, Stop, GoesStale,
       CheckWorkerHealth, MonitorExits, StopReturns, GetNextBatch, MarkEventsAsProcessing,
       MarkEventsAsProcessingErrs, MarkEventsAsPublished, MarkEventsAsFailed, LoopExits,
       Crash, WorkersLost, NoBatch, vars, poolVars, TypeOK, PoolTypeOK
  <2> QED BY <1>1, <2>1, <2>2 DEF DeliveredOK, TypeOK, PoolTypeOK
<1>3. PublishedWasDelivered'
  <2> SUFFICES ASSUME NEW e \in Events, Settled(e)'
               PROVE  delivered'[e] > 0
    BY DEF PublishedWasDelivered
  <2>1. RowStep(e)
    BY RowSteps
  <2>2. CASE RowMove(e, {"processing"}, "published")
    <3>1. PICK w \in Workers : e \in okIDs[w]
      <4>1. PICK w \in Workers : MarkEventsAsPublished(w)
        <5>1. ~TableEffect(e)
          BY <2>2, TableRow DEF TableEffect, RowMove, TypeOK, TableTypeOK
        <5>2. ASSUME NEW w \in Workers,
                     MarkEventsAsProcessing(w) \/ MarkEventsAsProcessingErrs(w)
              PROVE  FALSE
          <6>1. \/ rows'[e] = rows[e]
                \/ rows'[e] = [rows[e] EXCEPT !.status = "processing"]
            BY <5>2, MarkEffects DEF MarkEventsAsProcessing, MarkEventsAsProcessingErrs,
               TypeOK, PoolTypeOK
          <6> QED BY <2>2, <6>1 DEF RowMove, TypeOK, TableTypeOK, Row
        <5>3. ASSUME NEW w \in Workers, MarkEventsAsFailed(w)
              PROVE  FALSE
          <6>1. \/ rows'[e] = rows[e]
                \/ rows'[e] = [rows[e] EXCEPT !.status = "failed", !.retry_count = @ + 1,
                                !.next_retry_at = NextRetryAt(rows[e].retry_count),
                                !.error_message = "text"]
            BY <5>3, MarkEffects DEF MarkEventsAsFailed, TypeOK, PoolTypeOK
          <6> QED BY <2>2, <6>1 DEF RowMove, TypeOK, TableTypeOK, Row
        <5>4. ~RowsAlone
          BY <2>2 DEF RowMove, RowsAlone
        <5> QED BY <5>1, <5>2, <5>3, <5>4, TableEffects, TableSteps
      <4>2. \/ rows'[e] = rows[e]
            \/ e \in okIDs[w]
        BY <4>1, MarkEffects DEF MarkEventsAsPublished, TypeOK, PoolTypeOK
      <4> QED BY <2>2, <4>2 DEF RowMove
    <3> QED BY <1>1, <3>1 DEF DeliveredOK
  <2>3. CASE ~RowMove(e, {"processing"}, "published")
    <3>1. Settled(e)
      BY <2>1, <2>3 DEF RowStep, RowMove, Settled, Committed, RowsOK
    <3> QED BY <1>1, <3>1 DEF DeliveredOK, PublishedWasDelivered
  <2> QED BY <2>2, <2>3
<1> QED BY <1>2, <1>3 DEF DeliveredOK

\* A worker that will still record what became of the entry.
Recorder(e, w) == e \in todo[w] \cup okIDs[w] \cup failedIDs[w]

\* A row that a step leaves in processing without a fault either has a recorder after
\* the step, or was in processing and had none before it.
LEMMA OwnedStep ==
    ASSUME TypeOK, BatchOK, [Next]_vars,
           faults' = 0, NEW e \in Events, rows'[e].status = "processing"
    PROVE  /\ faults = 0
           /\ \/ \E w \in Workers : Recorder(e, w)'
              \/ rows[e].status = "processing" /\ ~\E w \in Workers : Recorder(e, w)
<1> USE DEF TypeOK, PoolTypeOK, Recorder
<1> DEFINE Was == rows[e].status = "processing"
           Goal == /\ faults = 0
                   /\ \/ \E w \in Workers : Recorder(e, w)'
                      \/ Was /\ ~\E w \in Workers : Recorder(e, w)
<1>1. faults' = 0 /\ rows'[e].status = "processing"
  OBVIOUS
<1>2. ASSUME faults = 0, Was, \A v \in Workers : Recorder(e, v) => Recorder(e, v)'
      PROVE  Goal
  BY <1>2
<1>3. faults \in Nat
  BY BoundsAssumption DEF TableTypeOK
<1>4. CASE ManagerStep
  BY <1>1, <1>2, <1>4 DEF ManagerStep, Start, Stop, GoesStale, CheckWorkerHealth, MonitorExits,
     StopReturns, tableVars
<1>5. ASSUME NEW w \in Workers, WorkerStep(w)
      PROVE  Goal
  <2>1. CASE GetNextBatch(w) \/ LoopExits(w)
    BY <1>1, <1>2, <2>1 DEF GetNextBatch, LoopExits, tableVars
  <2>2. CASE MarkEventsAsProcessing(w)
    <3>1. faults' = faults /\ (rows'[e] = rows[e] \/ e \in batch[w])
      BY <2>2, MarkEffects DEF MarkEventsAsProcessing, Succeeds
    <3>2. \A v \in Workers : Recorder(e, v) => Recorder(e, v)'
      BY <2>2 DEF MarkEventsAsProcessing, BatchOK
    <3>3. e \in batch[w] => Recorder(e, w)'
      BY <2>2 DEF MarkEventsAsProcessing
    <3> QED BY <1>1, <1>2, <3>1, <3>2, <3>3
  <2>3. CASE MarkEventsAsProcessingErrs(w)
    <3>1. rows' = rows /\ faults' = faults
      BY <1>1, <1>3, <2>3 DEF MarkEventsAsProcessingErrs, Errs, Refused
    <3>2. \A v \in Workers : Recorder(e, v) => Recorder(e, v)'
      BY <2>3 DEF MarkEventsAsProcessingErrs
    <3> QED BY <1>1, <1>2, <3>1, <3>2
  <2>4. ASSUME NEW d \in Events, ProcessEvent(w, d)
        PROVE  \A v \in Workers : Recorder(e, v) => Recorder(e, v)'
    BY <2>4 DEF ProcessEvent
  <2>5. CASE \E d \in Events : ProcessEvent(w, d)
    <3>1. rows' = rows /\ faults' = faults
      BY <2>5 DEF ProcessEvent
    <3> QED BY <1>1, <1>2, <2>4, <2>5, <3>1
  <2>6. CASE MarkEventsAsPublished(w)
    <3>1. Succeeds(MarkedPublished(okIDs[w]))
      BY <1>1, <1>3, <2>6 DEF MarkEventsAsPublished, Errs
    <3>2. e \notin okIDs[w] /\ Was /\ faults = 0
      BY <1>1, <3>1 DEF Succeeds, MarkedPublished, TableTypeOK, Row
    <3>3. \A v \in Workers : Recorder(e, v) => Recorder(e, v)'
      BY <2>6, <3>2 DEF MarkEventsAsPublished
    <3> QED BY <1>2, <3>2, <3>3
  <2>7. CASE MarkEventsAsFailed(w)
    <3>1. Succeeds(MarkedFailed(failedIDs[w]))
      BY <1>1, <1>3, <2>7 DEF MarkEventsAsFailed, Errs
    <3>2. e \notin failedIDs[w] /\ Was /\ faults = 0
      BY <1>1, <3>1 DEF Succeeds, MarkedFailed, TableTypeOK, Row
    <3>3. \A v \in Workers : Recorder(e, v) => Recorder(e, v)'
      BY <2>7, <3>2 DEF MarkEventsAsFailed
    <3> QED BY <1>2, <3>2, <3>3
  <2> QED BY <1>5, <2>1, <2>2, <2>3, <2>5, <2>6, <2>7 DEF WorkerStep
<1>6. CASE Crash
  BY <1>1, <1>3, <1>6 DEF Crash
<1>7. CASE TableNext /\ UNCHANGED poolVars
  <2>1. Was /\ faults = 0
    BY <1>1, <1>7, TableEffects, TableRow DEF TableEffect, TableTypeOK
  <2> QED BY <1>2, <1>7, <2>1 DEF poolVars
<1>8. CASE UNCHANGED vars
  BY <1>1, <1>2, <1>8 DEF vars, tableVars, poolVars
<1> QED BY <1>4, <1>5, <1>6, <1>7, <1>8 DEF Next, PoolNext

\* No step strands a row in processing unless it uses up a fault.
LEMMA OwnedPreserved ==
    ASSUME TypeOK, BatchOK, ProcessingIsOwned, [Next]_vars
    PROVE  ProcessingIsOwned'
<1> SUFFICES ASSUME faults' = 0, NEW e \in Events, rows'[e].status = "processing"
             PROVE  \E w \in Workers : Recorder(e, w)'
  BY DEF ProcessingIsOwned, Recorder
<1> QED BY OwnedStep DEF ProcessingIsOwned, Recorder

\* The number of holders of an entry, and how one worker leaving it lowers it.
LEMMA HolderCount ==
    ASSUME NEW e \in Events
    PROVE  /\ Cardinality(Holders(e)) \in Nat
           /\ Cardinality(Workers) \in Nat
           /\ Cardinality(Holders(e)) <= Cardinality(Workers)
<1>1. Holders(e) \subseteq Workers
  BY DEF Holders
<1> QED BY <1>1, WorkersAssumption, FS_Subset, FS_CardinalityType

\* If no worker takes an entry, the number of its holders does not grow.
LEMMA HoldersShrink ==
    ASSUME NEW e \in Events, Holders(e)' \subseteq Holders(e)
    PROVE  /\ Cardinality(Holders(e)') \in Nat
           /\ Cardinality(Holders(e)') <= Cardinality(Holders(e))
<1>1. Holders(e) \subseteq Workers
  BY DEF Holders
<1>2. IsFiniteSet(Holders(e))
  BY <1>1, WorkersAssumption, FS_Subset
<1> QED BY <1>2, FS_Subset, FS_CardinalityType

\* A worker that leaves the holders makes them one fewer.
LEMMA HolderLeaves ==
    ASSUME NEW e \in Events, NEW w \in Holders(e), Holders(e)' = Holders(e) \ {w}
    PROVE  Cardinality(Holders(e)') = Cardinality(Holders(e)) - 1
<1>1. Holders(e) \subseteq Workers
  BY DEF Holders
<1>2. IsFiniteSet(Holders(e))
  BY <1>1, WorkersAssumption, FS_Subset
<1> QED BY <1>2, FS_RemoveElement

\* A failure is recorded only by a holder, which then lets go of the entry, and a fetch
\* adds a holder only below max_retries: count and holders together keep to the budget.
LEMMA BudgetPreserved ==
    ASSUME TypeOK, BatchOK, RowsOK, FailedSchedule, BudgetOK, [Next]_vars
    PROVE  BudgetOK'
<1> USE DEF TypeOK, PoolTypeOK
<1>1. SUFFICES ASSUME NEW e \in Events
               PROVE  \/ rows'[e].retry_count < MaxRetries
                      \/ rows'[e].retry_count + Cardinality(Holders(e)')
                            <= MaxRetries + Cardinality(Workers) - 1
  BY DEF BudgetOK
<1>2. /\ rows[e].retry_count \in Nat /\ MaxRetries \in Nat \ {0}
      /\ \/ rows[e].retry_count < MaxRetries
         \/ rows[e].retry_count + Cardinality(Holders(e)) <= MaxRetries + Cardinality(Workers) - 1
  BY MaxRetriesAssumption DEF TableTypeOK, Row, BudgetOK
<1>3. ASSUME NEW w \in Workers, MarkEventsAsFailed(w), e \in batch[w],
             rows'[e].retry_count = rows[e].retry_count + 1
      PROVE  rows'[e].retry_count + Cardinality(Holders(e)')
                <= MaxRetries + Cardinality(Workers) - 1
  <2>1. w \in Holders(e) /\ Holders(e)' = Holders(e) \ {w}
    BY <1>3 DEF Holders, MarkEventsAsFailed
  <2>2. Cardinality(Holders(e)') = Cardinality(Holders(e)) - 1
    BY <2>1, HolderLeaves
  <2> QED BY <1>2, <1>3, <2>2, HolderCount
<1>4. CASE /\ rows'[e].retry_count \in {0, rows[e].retry_count}
           /\ Holders(e)' \subseteq Holders(e)
  <2>1. /\ Cardinality(Holders(e)') \in Nat
        /\ Cardinality(Holders(e)') <= Cardinality(Holders(e))
    BY <1>4, HoldersShrink
  <2> QED BY <1>2, <1>4, <2>1, HolderCount
<1>5. CASE rows'[e].retry_count < MaxRetries
  BY <1>5
<1>6. ASSUME NEW w \in Workers, MarkEventsAsFailed(w)
      PROVE  \/ /\ rows'[e].retry_count \in {0, rows[e].retry_count}
                /\ Holders(e)' \subseteq Holders(e)
             \/ e \in batch[w] /\ rows'[e].retry_count = rows[e].retry_count + 1
  <2>1. \/ rows'[e] = rows[e]
        \/ /\ e \in failedIDs[w]
           /\ rows'[e] = [rows[e] EXCEPT !.status = "failed", !.retry_count = @ + 1,
                            !.next_retry_at = NextRetryAt(rows[e].retry_count),
                            !.error_message = "text"]
    BY <1>6, MarkEffects DEF MarkEventsAsFailed
  <2>2. Holders(e)' \subseteq Holders(e)
    BY <1>6 DEF MarkEventsAsFailed, Holders
  <2>3. failedIDs[w] \subseteq batch[w]
    BY DEF BatchOK
  <2> QED BY <2>1, <2>2, <2>3 DEF TableTypeOK, Row
<1>7. CASE ~\E w \in Workers : MarkEventsAsFailed(w)
  <2>1. rows'[e].retry_count \in {0, rows[e].retry_count}
    <3>1. RowStep(e)
      BY RowSteps
    <3>2. CASE RowsAlone
      BY <3>2 DEF RowsAlone
    <3>3. CASE TableNext
      <4>1. rows[e] \in Row /\ TableEffect(e)
        BY <3>3, TableEffects DEF TableTypeOK
      <4> QED BY <4>1, TableRow DEF TableEffect
    <3>4. ASSUME NEW w \in Workers,
                 MarkEventsAsProcessing(w) \/ MarkEventsAsProcessingErrs(w)
          PROVE  rows'[e].retry_count = rows[e].retry_count
      <4>1. rows'[e] = rows[e] \/ rows'[e] = [rows[e] EXCEPT !.status = "processing"]
        BY <3>4, MarkEffects DEF MarkEventsAsProcessing, MarkEventsAsProcessingErrs
      <4> QED BY <4>1 DEF TableTypeOK, Row
    <3>5. ASSUME NEW w \in Workers, MarkEventsAsPublished(w)
          PROVE  rows'[e].retry_count = rows[e].retry_count
      <4>1. \/ rows'[e] = rows[e]
            \/ rows'[e] = [rows[e] EXCEPT !.status = "published", !.published_at = "set",
                             !.error_message = "null"]
        BY <3>5, MarkEffects DEF MarkEventsAsPublished
      <4> QED BY <4>1 DEF TableTypeOK, Row
    <3> QED BY <1>7, <3>2, <3>3, <3>4, <3>5, TableSteps
  <2>2. Holders(e)' \subseteq Holders(e) \/ rows'[e].retry_count < MaxRetries
    <3>1. ASSUME NEW w \in Workers, GetNextBatch(w)
          PROVE  Holders(e)' \subseteq Holders(e) \/ rows'[e].retry_count < MaxRetries
      <4>1. PICK L \in SUBSET Locked(w) :
               batch' = [batch EXCEPT ![w] = Oldest(Eligible \ L, BatchSize)]
        BY <3>1 DEF GetNextBatch
      <4>2. CASE e \in Eligible
        <5>1. rows[e].retry_count < MaxRetries
          BY <1>2, <4>2 DEF Eligible, RowsOK, FailedSchedule
        <5> QED BY <3>1, <5>1 DEF GetNextBatch, tableVars
      <4>3. CASE e \notin Eligible
        BY <4>1, <4>3 DEF Oldest, Holders
      <4> QED BY <4>2, <4>3
    <3>2. \/ \E w \in Workers : GetNextBatch(w)
          \/ \A w \in Workers : batch'[w] \subseteq batch[w]
      BY DEF Next, PoolNext, ManagerStep, WorkerStep, Start, Stop, GoesStale,
         CheckWorkerHealth, MonitorExits, StopReturns, MarkEventsAsProcessing,
         MarkEventsAsProcessingErrs, ProcessEvent, MarkEventsAsPublished, MarkEventsAsFailed,
         LoopExits, Crash, WorkersLost, NoBatch, vars, poolVars
    <3>3. CASE \A w \in Workers : batch'[w] \subseteq batch[w]
      BY <3>3 DEF Holders
    <3> QED BY <3>1, <3>2, <3>3
  <2> QED BY <1>4, <1>5, <2>1, <2>2
<1> QED BY <1>3, <1>4, <1>6, <1>7

\* Sets of workers are finite, and no larger than the pool.
LEMMA WorkerCounts ==
    ASSUME NEW S \in SUBSET Workers, NEW T \in SUBSET S
    PROVE  /\ Cardinality(Workers) \in Nat /\ Cardinality(S) \in Nat /\ Cardinality(T) \in Nat
           /\ Cardinality(T) <= Cardinality(S) /\ Cardinality(S) <= Cardinality(Workers)
           /\ \A w \in S : Cardinality(S \ {w}) = Cardinality(S) - 1
           /\ Cardinality({}) = 0
<1>1. IsFiniteSet(S)
  BY WorkersAssumption, FS_Subset
<1> QED BY <1>1, WorkersAssumption, FS_Subset, FS_CardinalityType, FS_RemoveElement, FS_EmptySet

\* A round more is one try more per worker.
LEMMA RoundSizes ==
    ASSUME NEW k \in Nat, NEW l \in Nat
    PROVE  /\ Cardinality(Workers) * k \in Nat
           /\ Cardinality(Workers) * (k + 1) = Cardinality(Workers) * k + Cardinality(Workers)
           /\ k <= l => Cardinality(Workers) * k <= Cardinality(Workers) * l
<1> DEFINE n == Cardinality(Workers)
<1>1. n \in Nat
  BY WorkersAssumption, FS_CardinalityType
<1> HIDE DEF n
<1>2. n * k \in Nat /\ n * (k + 1) = n * k + n
  BY <1>1
<1>3. k <= l => n * k <= n * l
  BY <1>1
<1> QED BY <1>2, <1>3 DEF n

\* A step that delivers nothing adds no worker to those that can still deliver, except
\* by a fetch of a row that waits for a retry or a mark that opens a round.
LEMMA OutstandingSteps ==
    ASSUME TypeOK, BatchOK, ManagerOK, RowsOK, FailedSchedule, [Next]_vars, NEW e \in Events,
           ~\E w \in Workers : ProcessEvent(w, e)
    PROVE  /\ delivered'[e] = delivered[e]
           /\ Publishers(e)' \subseteq Publishers(e) \/ ~Retryable(e)'
           /\ \/ Candidates(e)' \subseteq Candidates(e)
              \/ rows' = rows /\ committed' = committed /\ Retryable(e)
<1> USE DEF TypeOK, PoolTypeOK
<1> DEFINE Shrinks == Publishers(e)' \subseteq Publishers(e) /\ Candidates(e)' \subseteq Candidates(e)
<1>1. delivered'[e] = delivered[e]
  <2>1. ASSUME NEW w \in Workers, NEW d \in Events \ {e}, ProcessEvent(w, d)
        PROVE  delivered'[e] = delivered[e]
    BY <2>1, PublishTypes DEF ProcessEvent
  <2>2. UNCHANGED delivered \/ \E w \in Workers, d \in Events \ {e} : ProcessEvent(w, d)
    BY TableEffects DEF Next, PoolNext, ManagerStep, WorkerStep, Start, Stop, GoesStale,
       CheckWorkerHealth, MonitorExits, StopReturns, GetNextBatch, MarkEventsAsProcessing,
       MarkEventsAsProcessingErrs, MarkEventsAsPublished, MarkEventsAsFailed, LoopExits,
       Crash, vars, tableVars
  <2> QED BY <2>1, <2>2
<1>2. CASE ManagerStep
  <2>1. todo' = todo /\ batch' = batch
    BY <1>2 DEF ManagerStep, Start, Stop, GoesStale, CheckWorkerHealth, MonitorExits, StopReturns
  <2>2. \A w \in Workers : pc'[w] = "fetched" => pc[w] = "fetched"
    BY <1>2 DEF ManagerStep, Start, Stop, GoesStale, CheckWorkerHealth, MonitorExits, StopReturns
  <2>3. Shrinks
    BY <2>1, <2>2 DEF Publishers, Candidates
  <2> QED BY <1>1, <2>3
<1>3. ASSUME NEW w \in Workers, WorkerStep(w)
      PROVE  /\ Publishers(e)' \subseteq Publishers(e) \/ ~Retryable(e)'
             /\ \/ Candidates(e)' \subseteq Candidates(e)
                \/ rows' = rows /\ committed' = committed /\ Retryable(e)
  <2>1. CASE GetNextBatch(w)
    <3>1. PICK L \in SUBSET Locked(w) :
             batch' = [batch EXCEPT ![w] = Oldest(Eligible \ L, BatchSize)]
      BY <2>1 DEF GetNextBatch
    <3>2. /\ todo' = todo /\ pc' = [pc EXCEPT ![w] = "fetched"]
          /\ rows' = rows /\ committed' = committed
      BY <2>1 DEF GetNextBatch, tableVars
    <3>3. Publishers(e)' \subseteq Publishers(e)
      BY <3>2 DEF Publishers
    <3>4. CASE e \in Eligible
      <4>1. rows[e].retry_count \in Nat /\ MaxRetries \in Nat \ {0}
        BY MaxRetriesAssumption DEF TableTypeOK, Row
      <4>2. Retryable(e)
        BY <3>4, <4>1 DEF Eligible, RowsOK, FailedSchedule, Retryable
      <4> QED BY <3>2, <3>3, <4>2
    <3>5. CASE e \notin Eligible
      <4>1. Candidates(e)' \subseteq Candidates(e)
        BY <3>1, <3>2, <3>5 DEF Oldest, Candidates, Publishers
      <4> QED BY <3>3, <4>1
    <3> QED BY <3>4, <3>5
  <2>2. CASE MarkEventsAsProcessing(w)
    <3>1. Candidates(e)' \subseteq Candidates(e)
      BY <2>2 DEF MarkEventsAsProcessing, Candidates, Publishers
    <3>2. CASE e \in batch[w]
      <4>1. rows'[e].status \notin {"pending", "failed"}
        BY <2>2, <3>2 DEF MarkEventsAsProcessing, Succeeds, MarkedProcessing, TableTypeOK, Row
      <4> QED BY <3>1, <4>1 DEF Retryable
    <3>3. CASE e \notin batch[w]
      <4>1. Publishers(e)' \subseteq Publishers(e)
        BY <2>2, <3>3 DEF MarkEventsAsProcessing, Publishers
      <4> QED BY <3>1, <4>1
    <3> QED BY <3>2, <3>3
  <2>3. CASE MarkEventsAsProcessingErrs(w)
    <3>1. Shrinks
      BY <2>3 DEF MarkEventsAsProcessingErrs, Candidates, Publishers
    <3> QED BY <3>1
  <2>4. ASSUME NEW d \in Events, ProcessEvent(w, d)
        PROVE  Shrinks
    BY <2>4 DEF ProcessEvent, Candidates, Publishers
  <2>5. CASE MarkEventsAsPublished(w) \/ MarkEventsAsFailed(w) \/ LoopExits(w)
    <3>1. Shrinks
      BY <2>5 DEF MarkEventsAsPublished, MarkEventsAsFailed, LoopExits, Candidates, Publishers
    <3> QED BY <3>1
  <2> QED BY <1>3, <2>1, <2>2, <2>3, <2>4, <2>5 DEF WorkerStep
<1>4. CASE Crash
  <2>1. Shrinks
    BY <1>4 DEF Crash, WorkersLost, NoBatch, Candidates, Publishers
  <2> QED BY <1>1, <2>1
<1>5. CASE UNCHANGED poolVars
  <2>1. Shrinks
    BY <1>5 DEF poolVars, Candidates, Publishers
  <2> QED BY <1>1, <2>1
<1> QED BY <1>1, <1>2, <1>3, <1>4, <1>5 DEF Next, PoolNext, vars

\* No step breaks DeliveriesOK: a delivery uses up the worker's try of the round, and a
\* round is opened only after a failure was counted.
LEMMA DeliveriesPreserved ==
    ASSUME TypeOK, BatchOK, ManagerOK, RowsOK, FailedSchedule, DeliveriesOK, [Next]_vars
    PROVE  DeliveriesOK'
<1> USE DEF TypeOK, PoolTypeOK
<1>1. SUFFICES ASSUME NEW e \in Events
               PROVE  IF e \in committed'
                      THEN delivered'[e] + Cardinality(Outstanding(e)')
                              <= Cardinality(Workers) * Rounds(e)'
                      ELSE delivered'[e] = 0
  BY DEF DeliveriesOK
<1> DEFINE n  == Cardinality(Workers)
           d  == delivered[e]
           r  == rows[e].retry_count
           p  == Cardinality(Publishers(e))
           c  == Cardinality(Candidates(e))
           p1 == Cardinality(Publishers(e)')
           c1 == Cardinality(Candidates(e)')
<1>2. /\ n \in Nat /\ p \in Nat /\ c \in Nat /\ p1 \in Nat /\ c1 \in Nat
      /\ p <= c /\ c <= n /\ p1 <= c1 /\ c1 <= n
  <2>1. /\ Candidates(e) \in SUBSET Workers /\ Publishers(e) \in SUBSET Candidates(e)
        /\ Candidates(e)' \in SUBSET Workers /\ Publishers(e)' \in SUBSET (Candidates(e)')
    BY DEF Candidates, Publishers
  <2> QED BY <2>1, WorkerCounts
<1>3. d \in Nat /\ r \in Nat /\ MaxRetries \in Nat \ {0}
  BY MaxRetriesAssumption, BoundsAssumption DEF TableTypeOK, Row
<1>4. /\ n * r \in Nat /\ n * MaxRetries \in Nat
      /\ n * (r + 1) = n * r + n
      /\ r < MaxRetries => n * (r + 1) <= n * MaxRetries
  BY <1>3, RoundSizes
<1>5. CASE \E w \in Workers : ProcessEvent(w, e)
  <2>1. PICK w \in Workers : ProcessEvent(w, e)
    BY <1>5
  <2>2. /\ w \in Publishers(e) /\ w \in Candidates(e)
        /\ Publishers(e)' = Publishers(e) \ {w}
        /\ Candidates(e)' = Candidates(e) \ {w}
    BY <2>1 DEF ProcessEvent, Oldest, Publishers, Candidates
  <2>3. p1 = p - 1 /\ c1 = c - 1
    <3>1. Candidates(e) \in SUBSET Workers /\ Publishers(e) \in SUBSET Workers
      BY DEF Candidates, Publishers
    <3> QED BY <2>2, <3>1, WorkerCounts
  <2>4. delivered'[e] \in Nat /\ delivered'[e] <= d + 1
    BY <1>3, <2>1, BoundsAssumption
       DEF ProcessEvent, PublishOk, PublishErr, HandOver, TableTypeOK
  <2>5. rows' = rows /\ committed' = committed /\ e \in committed
    BY <2>1 DEF ProcessEvent, Oldest, BatchOK
  <2>6. /\ Outstanding(e) = IF Retryable(e) THEN Publishers(e) ELSE Candidates(e)
        /\ Outstanding(e)' = IF Retryable(e) THEN Publishers(e)' ELSE Candidates(e)'
        /\ Rounds(e)' = Rounds(e) /\ Rounds(e) \in Nat
    BY <1>3, <2>5 DEF Outstanding, Retryable, Rounds
  <2>7. d + Cardinality(Outstanding(e)) <= n * Rounds(e) /\ n * Rounds(e) \in Nat
    BY <2>5, <2>6, RoundSizes DEF DeliveriesOK
  <2> HIDE DEF n, d, r, p, c, p1, c1
  <2>8. Cardinality(Outstanding(e)') = Cardinality(Outstanding(e)) - 1
    BY <2>3, <2>6 DEF p, c, p1, c1
  <2>9. Cardinality(Outstanding(e)) \in Nat
    BY <1>2, <2>6 DEF p, c
  <2>10. delivered'[e] + Cardinality(Outstanding(e)') <= n * Rounds(e)
    BY <1>3, <2>4, <2>7, <2>8, <2>9
  <2> QED BY <2>5, <2>6, <2>10 DEF n
<1>6. CASE ~\E w \in Workers : ProcessEvent(w, e)
  <2>1. /\ delivered'[e] = d
        /\ Publishers(e)' \subseteq Publishers(e) \/ ~Retryable(e)'
        /\ \/ Candidates(e)' \subseteq Candidates(e)
           \/ rows' = rows /\ committed' = committed /\ Retryable(e)
    BY <1>6, OutstandingSteps
  <2>2. p1 <= p \/ ~Retryable(e)'
    <3>1. Publishers(e) \in SUBSET Workers
      BY DEF Publishers
    <3> QED BY <2>1, <3>1, WorkerCounts
  <2>3. c1 <= c \/ (rows' = rows /\ committed' = committed /\ Retryable(e))
    <3>1. Candidates(e) \in SUBSET Workers
      BY DEF Candidates, Publishers
    <3> QED BY <2>1, <3>1, WorkerCounts
  <2>4. RowStep(e)
    BY RowSteps
  <2>5. e \in committed =>
          /\ Retryable(e) => d + p <= n * r
          /\ ~Retryable(e) /\ rows[e].status = "processing" /\ r < MaxRetries =>
                d + c <= n * (r + 1)
          /\ ~Retryable(e) /\ ~(rows[e].status = "processing" /\ r < MaxRetries) =>
                d + c <= n * MaxRetries
    BY DEF DeliveriesOK, Outstanding, Rounds
  <2>6. e \notin committed => d = 0 /\ Publishers(e)' = {} /\ rows[e].status = "absent"
    <3>1. e \notin committed => d = 0 /\ rows[e].status = "absent" /\ ~Retryable(e)
      BY DEF DeliveriesOK, RowsOK, Retryable, TableTypeOK, Row, Statuses
    <3>2. e \notin committed => Candidates(e) = {}
      BY DEF BatchOK, Candidates, Publishers
    <3>3. e \notin committed => Candidates(e)' = {}
      BY <2>1, <3>1, <3>2
    <3> QED BY <3>1, <3>3 DEF Candidates
  <2>7. e \notin committed => p1 = 0
    BY <2>6, FS_EmptySet
  <2>8. CASE e \notin committed'
    BY <2>1, <2>4, <2>6, <2>8 DEF RowStep, Committed
  <2>9. CASE e \in committed' /\ e \notin committed
    <3>1. rows'[e].status = "pending" /\ rows'[e].retry_count = 0
      BY <2>4, <2>9 DEF RowStep, Committed
    <3>2. Outstanding(e)' = Publishers(e)' /\ Rounds(e)' = 0
      BY <1>3, <3>1 DEF Outstanding, Rounds, Retryable
    <3> QED BY <1>2, <2>1, <2>6, <2>7, <2>9, <3>2
  <2>10. CASE e \in committed' /\ e \in committed
    <3> DEFINE s == rows[e].status  s1 == rows'[e].status  r1 == rows'[e].retry_count
    <3>1. /\ Retryable(e) <=> s \in {"pending", "failed"} /\ r < MaxRetries
          /\ Retryable(e)' <=> s1 \in {"pending", "failed"} /\ r1 < MaxRetries
      BY DEF Retryable
    <3>2. \/ s1 = s /\ r1 = r
          \/ s = "published" /\ s1 = "absent"
          \/ s \in {"pending", "failed"} /\ s1 = "processing" /\ r1 = r
          \/ s = "processing" /\ s1 = "published"
          \/ s = "processing" /\ s1 = "failed" /\ r1 = r + 1
      BY <2>4, <2>10 DEF RowStep, RowMove, CountKept, Committed
    <3>3. c1 <= c \/ (s1 = s /\ r1 = r /\ Retryable(e))
      BY <2>3
    <3>4. /\ Retryable(e)' => Outstanding(e)' = Publishers(e)' /\ Rounds(e)' = r1
          /\ ~Retryable(e)' => Outstanding(e)' = Candidates(e)'
          /\ ~Retryable(e)' /\ s1 = "processing" /\ r1 < MaxRetries => Rounds(e)' = r1 + 1
          /\ ~Retryable(e)' /\ ~(s1 = "processing" /\ r1 < MaxRetries) =>
                Rounds(e)' = MaxRetries
      BY DEF Outstanding, Rounds
    <3> HIDE DEF n, d, r, p, c, p1, c1, s, s1, r1
    <3>5. CASE Retryable(e)'
      <4>1. d + p1 <= n * r1
        BY <1>2, <1>3, <1>4, <2>2, <2>5, <2>10, <3>1, <3>2, <3>5 DEF s, r
      <4> QED BY <2>1, <2>10, <3>4, <3>5, <4>1 DEF n, p1
    <3>6. CASE ~Retryable(e)' /\ s1 = "processing" /\ r1 < MaxRetries
      <4>1. d + c1 <= n * (r1 + 1)
        BY <1>2, <1>3, <1>4, <2>5, <2>10, <3>1, <3>2, <3>3, <3>6 DEF s, r
      <4> QED BY <2>1, <2>10, <3>4, <3>6, <4>1 DEF n, c1
    <3>7. CASE ~Retryable(e)' /\ ~(s1 = "processing" /\ r1 < MaxRetries)
      <4>1. d + c1 <= n * MaxRetries
        BY <1>2, <1>3, <1>4, <2>5, <2>10, <3>1, <3>2, <3>3, <3>7 DEF s, r
      <4> QED BY <2>1, <2>10, <3>4, <3>7, <4>1 DEF n, c1
    <3> QED BY <3>5, <3>6, <3>7
  <2> QED BY <2>8, <2>9, <2>10
<1> QED BY <1>5, <1>6

(***************************************************************************)
(* The invariant, and the properties it implies.                            *)
(***************************************************************************)
\* The initial state satisfies every part of the inductive invariant.
LEMMA InvariantInitially == Init => IInv
<1> SUFFICES ASSUME Init
             PROVE  IInv
  OBVIOUS
<1> USE DEF Init, TableInit, PoolInit, NoBatch
<1>1. TypeOK
  BY TypeInitially
<1>2. \A e \in Events : rows[e].status = "absent" /\ rows[e].retry_count = 0
  BY DEF NoRow
<1>3. BatchOK /\ ManagerOK
  BY DEF BatchOK, ManagerOK
<1>4. RowsOK /\ FailedSchedule /\ ProcessingIsOwned
  BY <1>2 DEF RowsOK, FailedSchedule, ProcessingIsOwned
<1>5. DeliveredOK
  BY DEF DeliveredOK, PublishedWasDelivered, Settled
<1>6. BudgetOK
  BY <1>2, MaxRetriesAssumption DEF BudgetOK
<1>7. DeliveriesOK
  BY DEF DeliveriesOK
<1> QED BY <1>1, <1>3, <1>4, <1>5, <1>6, <1>7 DEF IInv

\* Every step preserves every part of the inductive invariant.
LEMMA InvariantStep == IInv /\ [Next]_vars => IInv'
BY TypeStep, BatchPreserved, ManagerPreserved, RowsPreserved, DeliveredPreserved,
   SchedulePreserved, BudgetPreserved, DeliveriesPreserved, OwnedPreserved DEF IInv

\* IInv holds in every reachable state: the properties below are parts of it.
THEOREM Invariance == Spec => []IInv
BY InvariantInitially, InvariantStep, PTL DEF Spec

\* No row is recorded as published, or cleaned up, without a delivery: whatever the
\* number of workers, and through crashes, restarts and lost answers.
THEOREM PublishedWasDeliveredAlways == Spec => []PublishedWasDelivered
BY Invariance, PTL DEF IInv, DeliveredOK

\* A failed row has a retry scheduled exactly while it has retries left.
THEOREM FailedScheduleAlways == Spec => []FailedSchedule
BY Invariance, PTL DEF IInv

\* While nothing crashed and no call failed, no row is stranded in processing.
THEOREM ProcessingIsOwnedAlways == Spec => []ProcessingIsOwned
BY Invariance, PTL DEF IInv

\* max_retries is exceeded by less than one attempt per other worker.
THEOREM RetryBudgetAlways == Spec => []RetryBudget
<1>1. IInv => RetryBudget
  <2> SUFFICES ASSUME IInv, NEW e \in Events
               PROVE  rows[e].retry_count <= MaxRetries + Cardinality(Workers) - 1
    BY DEF RetryBudget
  <2>1. rows[e].retry_count \in Nat /\ MaxRetries \in Nat
    BY MaxRetriesAssumption DEF IInv, TypeOK, TableTypeOK, Row
  <2> QED BY <2>1, HolderCount DEF IInv, BudgetOK
<1> QED BY <1>1, Invariance, PTL
\* An entry is handed over at most MaxRetries times by each worker, whatever the workers
\* do with stale batches and whatever answers are lost.
THEOREM DeliveryBudgetAlways == Spec => []DeliveryBudget
<1>1. IInv => DeliveryBudget
  <2> SUFFICES ASSUME IInv, NEW e \in Events
               PROVE  delivered[e] <= MaxRetries * Cardinality(Workers)
    BY DEF DeliveryBudget
  <2> DEFINE n == Cardinality(Workers)
             o == Cardinality(Outstanding(e))
  <2>1. Candidates(e) \in SUBSET Workers /\ Publishers(e) \in SUBSET Workers
    BY DEF Candidates, Publishers
  <2>2. n \in Nat /\ o \in Nat
    BY <2>1, WorkerCounts DEF Outstanding
  <2>3. rows[e].retry_count \in Nat /\ MaxRetries \in Nat /\ delivered[e] \in Nat
    BY MaxRetriesAssumption, BoundsAssumption DEF IInv, TypeOK, TableTypeOK, Row
  <2>4. Rounds(e) \in Nat /\ Rounds(e) <= MaxRetries
    BY <2>3 DEF Rounds, Retryable
  <2>5. n * Rounds(e) <= n * MaxRetries /\ n * Rounds(e) \in Nat /\ n * MaxRetries \in Nat
    BY <2>3, <2>4, RoundSizes
  <2>6. delivered[e] + o <= n * Rounds(e) \/ delivered[e] = 0
    BY DEF IInv, DeliveriesOK
  <2> HIDE DEF n, o
  <2>7. delivered[e] <= n * MaxRetries
    BY <2>2, <2>3, <2>5, <2>6
  <2>8. n * MaxRetries = MaxRetries * n
    BY <2>2, <2>3
  <2> QED BY <2>7, <2>8 DEF n
<1> QED BY <1>1, Invariance, PTL

(***************************************************************************)
(* The worker pool and its table implement OutboxDelivery.  A step of the    *)
(* pool maps to the abstract step of the one statement it runs, or to a      *)
(* stutter.                                                                *)
(***************************************************************************)
\* Stages of all entries that a step leaves alone or moves between given stages.
Moves(from, to) == \A e \in Events : Stage(e)' = Stage(e) \/ (Stage(e) \in from /\ Stage(e)' = to)

Received == {e \in Events : delivered[e] > 0}

\* A change of stages from one set of stages to one stage is a Move of the abstract outbox.
LEMMA MoveStep ==
    ASSUME NEW from, NEW to, Moves(from, to)
    PROVE  Delivery!Move({e \in Events : Stage(e)' # Stage(e)}, from, to)
BY DEF Moves, Delivery!Move

\* The stage of an entry, case by case.
LEMMA StageCases ==
    ASSUME NEW e \in Events
    PROVE  /\ e \notin committed => Stage(e) = "none"
           /\ Settled(e) => Stage(e) = "settled"
           /\ e \in committed /\ ~Settled(e) /\ DeadLettered(e) => Stage(e) = "parked"
           /\ e \in committed /\ ~Settled(e) /\ ~DeadLettered(e) => Stage(e) = "owed"
BY DEF Stage, Settled

\* The same for the state after a step.
LEMMA StageCasesNext ==
    ASSUME NEW e \in Events
    PROVE  /\ e \notin committed' => Stage(e)' = "none"
           /\ Settled(e)' => Stage(e)' = "settled"
           /\ e \in committed' /\ ~Settled(e)' /\ DeadLettered(e)' => Stage(e)' = "parked"
           /\ e \in committed' /\ ~Settled(e)' /\ ~DeadLettered(e)' => Stage(e)' = "owed"
BY DEF Stage, Settled

\* An entry that the table does not change keeps its stage.
LEMMA StageKept ==
    ASSUME NEW e \in Events, rows'[e] = rows[e], e \in committed' <=> e \in committed
    PROVE  Stage(e)' = Stage(e)
BY DEF Stage, Settled, DeadLettered

\* Before any commit every entry is at stage none, as in the abstract outbox.
LEMMA InitialStages == Init => Delivery!Init
BY DEF Init, TableInit, Delivery!Init, Stage

\* Every step of the pool is a step of the abstract outbox or leaves it unchanged.
LEMMA StageStep ==
    ASSUME IInv, [Next]_vars
    PROVE  [Delivery!Next]_Delivery!vars
<1> USE DEF IInv
<1> DEFINE Moved == {e \in Events : Stage(e)' # Stage(e)}
<1>1. ASSUME UNCHANGED Received, Moves({}, "none")
      PROVE  UNCHANGED Delivery!vars
  BY <1>1 DEF Delivery!vars, Moves, Received
<1>2. CASE RowsAlone
  <2>1. Moves({}, "none")
    BY <1>2, StageKept DEF RowsAlone, Moves
  <2>2. ASSUME NEW w \in Workers, NEW e \in Events, ProcessEvent(w, e)
        PROVE  [Delivery!Next]_Delivery!vars
    <3>1. e \in committed
      BY <2>2 DEF ProcessEvent, Oldest, BatchOK
    <3>2. Stage(e) # "none"
      BY <3>1, StageCases DEF Settled
    <3>3. Received' = Received \cup {e} \/ Received' = Received
      BY <2>2, PublishTypes DEF ProcessEvent, PublishOk, PublishErr, HandOver, Received, TypeOK,
         TableTypeOK
    <3>4. CASE Received' = Received \cup {e}
      BY <2>1, <3>2, <3>4 DEF Delivery!Next, Delivery!Receive, Moves, Received
    <3> QED BY <1>1, <2>1, <3>3, <3>4
  <2>3. UNCHANGED delivered \/ \E w \in Workers, e \in Events : ProcessEvent(w, e)
    BY TableEffects DEF Next, PoolNext, ManagerStep, WorkerStep, Start, Stop, GoesStale,
       CheckWorkerHealth, MonitorExits, StopReturns, GetNextBatch, MarkEventsAsProcessing,
       MarkEventsAsProcessingErrs, MarkEventsAsPublished, MarkEventsAsFailed, LoopExits,
       Crash, vars, tableVars
  <2> QED BY <1>1, <2>1, <2>2, <2>3 DEF Received
<1>3. CASE TableNext
  <2>1. UNCHANGED Received
    BY <1>3, TableEffects DEF Received
  <2>2. ASSUME NEW S \in SUBSET Events, ExecuteWithOutbox(S)
        PROVE  Delivery!Commit(Moved)
    <3>1. Moves({"none"}, "owed")
      BY <2>2, StageCases, StageCasesNext, StageKept
         DEF ExecuteWithOutbox, Insert, Moves, NoRow, Settled, DeadLettered
    <3> QED BY <2>1, <3>1, MoveStep DEF Delivery!Commit, Received
  <2>3. ASSUME NEW S \in SUBSET Events, CleanupProcessedEvents(S)
        PROVE  Moves({}, "none")
    BY <2>3, StageCases, StageCasesNext, StageKept
       DEF CleanupProcessedEvents, Deleted, Moves, NoRow, Settled, RowsOK
  <2>4. ASSUME NEW d \in Events, RetryTimeReached(d)
        PROVE  Moves({}, "none")
    <3>1. \A e \in Events \ {d} : rows'[e] = rows[e]
      BY <2>4 DEF RetryTimeReached, TypeOK, TableTypeOK
    <3>2. /\ rows'[d].status = rows[d].status
          /\ rows[d].next_retry_at = "later" /\ rows'[d].next_retry_at = "due"
      BY <2>4 DEF RetryTimeReached, TypeOK, TableTypeOK, Row
    <3>3. committed' = committed
      BY <2>4 DEF RetryTimeReached
    <3>4. Stage(d)' = Stage(d)
      BY <3>2, <3>3 DEF Stage, Settled, DeadLettered
    <3> QED BY <3>1, <3>3, <3>4, StageKept DEF Moves
  <2>5. ASSUME NEW S \in SUBSET Events, ExecuteWithOutbox(S)
        PROVE  Delivery!Next
    BY <2>2, <2>5 DEF Delivery!Next
  <2> QED BY <1>1, <1>3, <2>1, <2>3, <2>4, <2>5 DEF TableNext
<1>4. ASSUME NEW w \in Workers, MarkEventsAsProcessing(w) \/ MarkEventsAsProcessingErrs(w)
      PROVE  Delivery!Next
  <2>1. \A e \in Events :
           \/ rows'[e] = rows[e]
           \/ /\ rows[e].status \in {"pending", "failed"}
              /\ rows'[e] = [rows[e] EXCEPT !.status = "processing"]
    BY <1>4, MarkEffects DEF MarkEventsAsProcessing, MarkEventsAsProcessingErrs, TypeOK, PoolTypeOK
  <2>2. UNCHANGED <<committed, delivered>>
    BY <1>4 DEF MarkEventsAsProcessing, MarkEventsAsProcessingErrs
  <2>3. \A e \in Events :
           \/ rows'[e] = rows[e]
           \/ /\ rows[e].status \in {"pending", "failed"} /\ rows'[e].status = "processing"
              /\ e \in committed
    BY <2>1 DEF TypeOK, TableTypeOK, Row, RowsOK
  <2>4. Moves({"parked"}, "owed")
    BY <2>2, <2>3, StageCases, StageCasesNext, StageKept DEF Moves, Settled, DeadLettered
  <2>5. Delivery!Revive(Moved)
    BY <2>2, <2>4, MoveStep DEF Delivery!Revive
  <2> QED BY <2>5 DEF Delivery!Next
<1>5. ASSUME NEW w \in Workers, MarkEventsAsPublished(w)
      PROVE  Delivery!Next
  <2>1. \A e \in Events :
           \/ rows'[e] = rows[e]
           \/ /\ e \in okIDs[w] /\ rows[e].status = "processing"
              /\ rows'[e] = [rows[e] EXCEPT !.status = "published",
                               !.published_at = "set", !.error_message = "null"]
    BY <1>5, MarkEffects DEF MarkEventsAsPublished, TypeOK, PoolTypeOK
  <2>2. UNCHANGED <<committed, delivered>>
    BY <1>5 DEF MarkEventsAsPublished
  <2>3. \A e \in Events :
           \/ rows'[e] = rows[e]
           \/ /\ rows[e].status = "processing" /\ rows'[e].status = "published"
              /\ e \in committed /\ delivered[e] > 0
    BY <2>1 DEF TypeOK, TableTypeOK, Row, RowsOK, DeliveredOK
  <2>4. Moves({"owed", "parked"}, "settled")
    BY <2>2, <2>3, StageCases, StageCasesNext, StageKept DEF Moves, Settled, DeadLettered
  <2>5. \A e \in Moved : delivered[e] > 0
    BY <2>2, <2>3, StageKept
  <2>6. Delivery!Settle(Moved)
    BY <2>2, <2>4, <2>5, MoveStep DEF Delivery!Settle
  <2> QED BY <2>6 DEF Delivery!Next
<1>6. ASSUME NEW w \in Workers, MarkEventsAsFailed(w)
      PROVE  Delivery!Next
  <2>1. \A e \in Events :
           \/ rows'[e] = rows[e]
           \/ /\ rows[e].status = "processing"
              /\ rows'[e] = [rows[e] EXCEPT !.status = "failed", !.retry_count = @ + 1,
                               !.next_retry_at = NextRetryAt(rows[e].retry_count),
                               !.error_message = "text"]
    BY <1>6, MarkEffects DEF MarkEventsAsFailed, TypeOK, PoolTypeOK
  <2>2. UNCHANGED <<committed, delivered>>
    BY <1>6 DEF MarkEventsAsFailed
  <2>3. \A e \in Events :
           \/ rows'[e] = rows[e]
           \/ /\ rows[e].status = "processing" /\ rows'[e].status = "failed"
              /\ e \in committed
    <3>1. \A e \in Events : rows[e] \in Row /\ NextRetryAt(rows[e].retry_count) \in {"null", "later"}
      BY DEF TypeOK, TableTypeOK, NextRetryAt
    <3> QED BY <2>1, <3>1 DEF Row, RowsOK
  <2>4. Moves({"owed"}, "parked")
    BY <2>2, <2>3, StageCases, StageCasesNext, StageKept DEF Moves, Settled, DeadLettered
  <2>5. Delivery!Park(Moved)
    BY <2>2, <2>4, MoveStep DEF Delivery!Park
  <2> QED BY <2>5 DEF Delivery!Next
<1> QED BY <1>2, <1>3, <1>4, <1>5, <1>6, TableSteps

\* The pool keeps the promise of the abstract outbox: an entry is settled only after
\* the downstream system received it, for good, and none is lost.
THEOREM DeliveryImplemented == Spec => ImplementsDelivery
BY InitialStages, StageStep, Invariance, PTL DEF Spec, ImplementsDelivery, Delivery!Spec

(***************************************************************************)
(* The steps of the service.                                               *)
(***************************************************************************)
\* A step is the pool's or the table's, with the outbox standing still, being started or
\* being stopped; or one of the base outbox's goroutines'; or the end of the process.
LEMMA ServiceSteps ==
    ASSUME [ServiceNext]_serviceVars
    PROVE  \/ /\ [Next]_vars
              /\ \/ UNCHANGED baseVars
                 \/ /\ UNCHANGED <<vars, entries, entry, seen>>
                    /\ StartOutbox \/ StopOutbox \/ StopOutboxReturns
           \/ (\E b \in BaseWorkers : BaseStep(b)) /\ UNCHANGED poolVars
           \/ /\ WorkersLost /\ OutboxLost /\ UNCHANGED <<rows, committed, delivered>>
              /\ faults < MaxFaults /\ faults' = faults + 1
<1>1. CASE StartsOutbox \/ StopsOutbox \/ StopEnds
  BY <1>1 DEF StartsOutbox, StopsOutbox, StopEnds, StartOutbox, StopOutbox, StopOutboxReturns, vars
<1>2. CASE StartsManager \/ StopsManager
  BY <1>2 DEF StartsManager, StopsManager, Next, PoolNext, ManagerStep
<1>3. CASE ServiceCrash
  BY <1>3 DEF ServiceCrash
<1>4. CASE PoolRuns
  BY <1>4 DEF PoolRuns, Next, PoolNext, ManagerStep
<1>5. CASE BaseRuns
  BY <1>5 DEF BaseRuns
<1>6. CASE TableNext /\ UNCHANGED <<service, poolVars, baseVars>>
  BY <1>6 DEF Next
<1>7. CASE UNCHANGED serviceVars
  BY <1>7 DEF serviceVars, vars
<1> QED BY <1>1, <1>2, <1>3, <1>4, <1>5, <1>6, <1>7 DEF ServiceNext

(***************************************************************************)
(* Type correctness.                                                       *)
(***************************************************************************)
\* The base outbox's UPDATEs give a well-typed table.
LEMMA UpdateTypes ==
    ASSUME TableTypeOK, NEW e \in Events, NEW s \in Statuses, NEW k \in Nat
    PROVE  /\ StatusUpdated(e, s) \in [Events -> Row]
           /\ UpdatedForRetry(e, k) \in [Events -> Row]
<1>1. \A d \in Events : rows[d] \in Row
  BY DEF TableTypeOK
<1>2. StatusUpdated(e, s) \in [Events -> Row]
  BY <1>1 DEF StatusUpdated, Row
<1>3. UpdatedForRetry(e, k) \in [Events -> Row]
  BY <1>1 DEF UpdatedForRetry, Row, Statuses
<1> QED BY <1>2, <1>3

\* What handlePublishFailure writes is well typed, and touches the one row only.
LEMMA FailureTypes ==
    ASSUME TableTypeOK, BaseTypeOK, NEW b \in BaseWorkers, NEW e \in Events
    PROVE  FailureRows(b, e) \in [Events -> Row]
<1>1. seen[b][e] \in Nat /\ "failed" \in Statuses
  BY DEF BaseTypeOK, Statuses
<1> QED BY <1>1, UpdateTypes DEF FailureRows

\* A goroutine that has read nothing, or nothing yet.
LEMMA NothingReadTypes ==
    /\ NothingRead \in [BaseWorkers -> [Events -> Nat]]
    /\ NoEntries \in [BaseWorkers -> SUBSET Events]
BY DEF NothingRead, NoEntries

\* No step of a goroutine of the base outbox breaks the types.
LEMMA BaseTypeStep ==
    ASSUME TableTypeOK, BaseTypeOK, NEW b \in BaseWorkers, BaseStep(b)
    PROVE  TableTypeOK' /\ BaseTypeOK'
<1>1. CASE GetPendingEntries(b)
  <2> DEFINE pending == Oldest(Eligible, BatchSize)
  <2>1. pending \in SUBSET Events
    BY FetchedEntries DEF Eligible
  <2>2. [e \in Events |-> IF e \in pending THEN rows[e].retry_count ELSE 0] \in [Events -> Nat]
    BY DEF TableTypeOK, Row
  <2> HIDE DEF pending
  <2>3. /\ entries' = [entries EXCEPT ![b] = pending]
        /\ seen' = [seen EXCEPT ![b] =
                       [e \in Events |-> IF e \in pending THEN rows[e].retry_count ELSE 0]]
        /\ bpc' = [bpc EXCEPT ![b] = "looping"]
        /\ UNCHANGED <<outbox, entry, tableVars>>
    BY <1>1 DEF GetPendingEntries, pending
  <2> QED BY <2>1, <2>2, <2>3 DEF BaseTypeOK, TableTypeOK, tableVars
<1>2. ASSUME NEW e \in Events, ProcessEntry(b, e)
      PROVE  TableTypeOK' /\ BaseTypeOK'
  <2>1. StatusUpdated(e, "processing") \in [Events -> Row]
    BY UpdateTypes DEF Statuses
  <2>2. rows' \in [Events -> Row] /\ faults' \in 0 .. MaxFaults
    BY <1>2, <2>1, CallTypes DEF ProcessEntry, UpdateSucceeds, UpdateErrs
  <2>3. UNCHANGED <<outbox, seen, committed, delivered>>
    BY <1>2 DEF ProcessEntry
  <2>4. /\ bpc' \in [BaseWorkers -> {"off", "idle", "looping", "publishing", "published", "failed"}]
        /\ entries' \in [BaseWorkers -> SUBSET Events]
        /\ entry' \in [BaseWorkers -> SUBSET Events]
    <3>1. entries' \in [BaseWorkers -> SUBSET Events] /\ entry' \in [BaseWorkers -> SUBSET Events]
      BY <1>2 DEF ProcessEntry, BaseTypeOK
    <3>2. bpc' \in [BaseWorkers -> {"off", "idle", "looping", "publishing", "published", "failed"}]
      BY <1>2 DEF ProcessEntry, BaseTypeOK
    <3> QED BY <3>1, <3>2
  <2> QED BY <2>2, <2>3, <2>4 DEF BaseTypeOK, TableTypeOK
<1>3. ASSUME NEW e \in Events, PublishEntry(b, e)
      PROVE  TableTypeOK' /\ BaseTypeOK'
  <2>1. delivered' \in [Events -> 0 .. MaxDeliveries]
    BY <1>3, PublishTypes DEF PublishEntry
  <2>2. seen' \in [BaseWorkers -> [Events -> Nat]]
    <3>1. seen[b] \in [Events -> Nat] /\ seen[b][e] + 1 \in Nat
      BY DEF BaseTypeOK
    <3>2. [seen[b] EXCEPT ![e] = @ + 1] \in [Events -> Nat]
      BY <3>1
    <3>3. \/ seen' = seen
          \/ seen' = [seen EXCEPT ![b] = [seen[b] EXCEPT ![e] = @ + 1]]
      BY <1>3 DEF PublishEntry
    <3> QED BY <3>2, <3>3 DEF BaseTypeOK
  <2> QED BY <1>3, <2>1, <2>2 DEF PublishEntry, BaseTypeOK, TableTypeOK
<1>4. ASSUME NEW e \in Events, UpdateEntryPublished(b, e)
      PROVE  TableTypeOK' /\ BaseTypeOK'
  <2>1. StatusUpdated(e, "published") \in [Events -> Row]
    BY UpdateTypes DEF Statuses
  <2>2. rows' \in [Events -> Row] /\ faults' \in 0 .. MaxFaults
    BY <1>4, <2>1, CallTypes DEF UpdateEntryPublished
  <2> QED BY <1>4, <2>2 DEF UpdateEntryPublished, BaseTypeOK, TableTypeOK
<1>5. ASSUME NEW e \in Events, HandlePublishFailure(b, e)
      PROVE  TableTypeOK' /\ BaseTypeOK'
  <2>1. rows' \in [Events -> Row] /\ faults' \in 0 .. MaxFaults
    BY <1>5, FailureTypes, CallTypes DEF HandlePublishFailure
  <2> QED BY <1>5, <2>1 DEF HandlePublishFailure, BaseTypeOK, TableTypeOK
<1>6. CASE BatchEnds(b)
  BY <1>6 DEF BatchEnds, BaseTypeOK, TableTypeOK, tableVars
<1>7. CASE OutboxLoopExits(b)
  BY <1>7 DEF OutboxLoopExits, BaseTypeOK, TableTypeOK, tableVars
<1> QED BY <1>1, <1>2, <1>3, <1>4, <1>5, <1>6, <1>7 DEF BaseStep

\* No step of the service breaks its types.
LEMMA ServiceTypeStep == ServiceTypeOK /\ [ServiceNext]_serviceVars => ServiceTypeOK'
<1> SUFFICES ASSUME ServiceTypeOK, [ServiceNext]_serviceVars
             PROVE  ServiceTypeOK'
  OBVIOUS
<1> USE DEF ServiceTypeOK
<1>1. service' \in {"down", "starting", "up", "stopping", "draining"}
  BY DEF ServiceNext, StartsOutbox, StartsManager, StopsManager, StopsOutbox, StopEnds,
     ServiceCrash, PoolRuns, BaseRuns, serviceVars
<1>2. CASE [Next]_vars /\ UNCHANGED baseVars
  BY <1>1, <1>2, TypeStep DEF baseVars, BaseTypeOK
<1>3. CASE /\ UNCHANGED <<vars, entries, entry, seen>>
           /\ StartOutbox \/ StopOutbox \/ StopOutboxReturns
  <2>1. TypeOK'
    BY <1>3, TypeStep
  <2>2. BaseTypeOK'
    BY <1>3 DEF StartOutbox, StopOutbox, StopOutboxReturns, BaseTypeOK
  <2> QED BY <1>1, <2>1, <2>2
<1>4. CASE (\E b \in BaseWorkers : BaseStep(b)) /\ UNCHANGED poolVars
  <2>1. TableTypeOK' /\ BaseTypeOK'
    BY <1>4, BaseTypeStep DEF TypeOK
  <2>2. PoolTypeOK'
    BY <1>4 DEF TypeOK, PoolTypeOK, poolVars
  <2> QED BY <1>1, <2>1, <2>2 DEF TypeOK
<1>5. CASE /\ WorkersLost /\ OutboxLost /\ UNCHANGED <<rows, committed, delivered>>
           /\ faults < MaxFaults /\ faults' = faults + 1
  <2>1. TableTypeOK'
    BY <1>5, BoundsAssumption DEF TypeOK, TableTypeOK
  <2>2. PoolTypeOK'
    BY <1>5, EmptyBatches DEF WorkersLost, PoolTypeOK
  <2>3. BaseTypeOK'
    BY <1>5, NothingReadTypes DEF OutboxLost, BaseTypeOK
  <2> QED BY <1>1, <2>1, <2>2, <2>3 DEF TypeOK
<1> QED BY <1>2, <1>3, <1>4, <1>5, ServiceSteps

\* The stopped service is well typed.
LEMMA ServiceTypeInitially == ServiceInit => ServiceTypeOK
<1> SUFFICES ASSUME ServiceInit
             PROVE  ServiceTypeOK
  OBVIOUS
<1>1. TypeOK
  BY TypeInitially DEF ServiceInit, Init
<1>2. BaseTypeOK
  BY NothingReadTypes DEF ServiceInit, BaseInit, BaseTypeOK
<1> QED BY <1>1, <1>2 DEF ServiceInit, ServiceTypeOK

\* The table, the pool and the base outbox stay well typed when they share one process
\* and one table, whatever retry counts the base outbox writes back from memory.
THEOREM ServiceTypeCorrect == ServiceSpec => []ServiceTypeOK
BY ServiceTypeInitially, ServiceTypeStep, PTL DEF ServiceSpec

----------------------------------------------------------------------------
(***************************************************************************)
(* The inductive invariant.                                                *)
(***************************************************************************)

\* A goroutine holds an entry exactly from the UPDATE that marks it processing to the
\* one that records its outcome, and never two; none outlives its process.
EntryOK ==
    /\ outbox = "down" => \A b \in BaseWorkers : bpc[b] = "off"
    /\ \A b \in BaseWorkers :
          /\ bpc[b] \in {"off", "idle", "looping"} => entry[b] = {}
          /\ \A d, e \in entry[b] : d = e

\* What a goroutine is about to record as published was handed over.
EntryDelivered ==
    \A b \in BaseWorkers : bpc[b] = "published" => \A e \in entry[b] : delivered[e] > 0

ServiceIInv ==
    /\ ServiceTypeOK
    /\ BatchOK /\ ManagerOK /\ RowsOK /\ DeliveredOK
    /\ EntryOK
    /\ EntryDelivered
    /\ ServiceProcessingIsOwned

\* What a step of the base outbox does to the table: it deletes no row and makes none, it
\* takes none back to pending, and it records as published only the entry it holds.
LEMMA BaseEffects ==
    ASSUME ServiceTypeOK, NEW b \in BaseWorkers, BaseStep(b)
    PROVE  /\ committed' = committed
           /\ \A e \in Events :
                 /\ rows'[e].status = "absent" <=> rows[e].status = "absent"
                 /\ rows'[e].status = "pending" => rows'[e] = rows[e]
                 /\ rows'[e].status = "published" =>
                       rows[e].status = "published" \/ (bpc[b] = "published" /\ e \in entry[b])
                 /\ delivered[e] > 0 => delivered'[e] > 0
<1> USE DEF ServiceTypeOK, TypeOK, TableTypeOK
<1>1. ASSUME NEW R \in [Events -> Row], Succeeds(R) \/ Errs(R) \/ Refused
      PROVE  rows' = rows \/ rows' = R
  BY <1>1 DEF Succeeds, Errs, Refused
<1>2. ASSUME NEW d \in Events, NEW s \in Statuses, NEW k \in Nat
      PROVE  \A e \in Events :
                /\ \/ StatusUpdated(d, s)[e] = rows[e]
                   \/ e = d /\ rows[e].status # "absent" /\ StatusUpdated(d, s)[e].status = s
                /\ \/ UpdatedForRetry(d, k)[e] = rows[e]
                   \/ e = d /\ rows[e].status # "absent" /\ UpdatedForRetry(d, k)[e].status = "failed"
  BY DEF StatusUpdated, UpdatedForRetry, Row
<1>3. CASE GetPendingEntries(b) \/ BatchEnds(b) \/ OutboxLoopExits(b)
  BY <1>3 DEF GetPendingEntries, BatchEnds, OutboxLoopExits, tableVars
<1>4. ASSUME NEW d \in Events, PublishEntry(b, d)
      PROVE  /\ rows' = rows /\ committed' = committed
             /\ \A e \in Events : delivered[e] > 0 => delivered'[e] > 0
  BY <1>4, PublishTypes DEF PublishEntry
<1>5. ASSUME NEW d \in Events,
             ProcessEntry(b, d) \/ UpdateEntryPublished(b, d) \/ HandlePublishFailure(b, d)
      PROVE  /\ committed' = committed /\ delivered' = delivered
             /\ \A e \in Events :
                   \/ rows'[e] = rows[e]
                   \/ /\ rows[e].status # "absent"
                      /\ \/ rows'[e].status \in {"processing", "failed"}
                         \/ /\ rows'[e].status = "published"
                            /\ bpc[b] = "published" /\ e \in entry[b]
  <2>1. committed' = committed /\ delivered' = delivered
    BY <1>5 DEF ProcessEntry, UpdateEntryPublished, HandlePublishFailure
  <2>2. {"processing", "published", "failed"} \subseteq Statuses
    BY DEF Statuses
  <2>3. CASE ProcessEntry(b, d)
    <3>1. rows' = rows \/ rows' = StatusUpdated(d, "processing")
      BY <1>1, <2>2, <2>3, UpdateTypes DEF ProcessEntry, UpdateSucceeds, UpdateErrs
    <3> QED BY <1>2, <2>1, <2>2, <3>1
  <2>4. CASE UpdateEntryPublished(b, d)
    <3>1. rows' = rows \/ rows' = StatusUpdated(d, "published")
      BY <1>1, <2>2, <2>4, UpdateTypes DEF UpdateEntryPublished
    <3>2. bpc[b] = "published" /\ d \in entry[b]
      BY <2>4 DEF UpdateEntryPublished
    <3> QED BY <1>2, <2>1, <2>2, <3>1, <3>2
  <2>5. CASE HandlePublishFailure(b, d)
    <3>1. rows' = rows \/ rows' = FailureRows(b, d)
      BY <1>1, <2>5, FailureTypes DEF HandlePublishFailure
    <3>2. seen[b][d] \in Nat
      BY DEF BaseTypeOK
    <3> QED BY <1>2, <2>1, <2>2, <3>1, <3>2 DEF FailureRows
  <2> QED BY <1>5, <2>3, <2>4, <2>5
<1> QED BY <1>3, <1>4, <1>5 DEF BaseStep

\* Where the entry of a goroutine is, and what a step leaves of the other goroutines'.
LEMMA BaseBookkeeping ==
    ASSUME ServiceTypeOK, EntryOK, EntryDelivered, NEW b \in BaseWorkers, BaseStep(b)
    PROVE  EntryOK' /\ EntryDelivered'
<1> USE DEF ServiceTypeOK, BaseTypeOK, EntryOK, EntryDelivered
<1>1. \A e \in Events : delivered[e] > 0 => delivered'[e] > 0
  BY BaseEffects
<1>2. bpc[b] # "off" /\ outbox' = outbox
  BY DEF BaseStep, GetPendingEntries, ProcessEntry, PublishEntry, UpdateEntryPublished,
     HandlePublishFailure, BatchEnds, OutboxLoopExits
<1>3. \A a \in BaseWorkers \ {b} : bpc'[a] = bpc[a] /\ entry'[a] = entry[a]
  BY DEF BaseStep, GetPendingEntries, ProcessEntry, PublishEntry, UpdateEntryPublished,
     HandlePublishFailure, BatchEnds, OutboxLoopExits
<1>4. /\ bpc'[b] \in {"off", "idle", "looping"} => entry'[b] = {}
      /\ \A d, e \in entry'[b] : d = e
      /\ bpc'[b] = "published" => \A e \in entry'[b] : delivered'[e] > 0
  <2>1. CASE GetPendingEntries(b) \/ BatchEnds(b) \/ OutboxLoopExits(b)
    BY <2>1 DEF GetPendingEntries, BatchEnds, OutboxLoopExits
  <2>2. ASSUME NEW d \in Events, ProcessEntry(b, d)
        PROVE  \/ bpc'[b] = bpc[b] /\ entry'[b] = entry[b] /\ bpc[b] = "looping"
               \/ bpc'[b] = "publishing" /\ entry'[b] = {d}
    BY <2>2 DEF ProcessEntry
  <2>3. ASSUME NEW d \in Events, PublishEntry(b, d)
        PROVE  /\ entry' = entry /\ d \in entry[b]
               /\ bpc'[b] = "failed" \/ (bpc'[b] = "published" /\ delivered'[d] > 0)
    BY <2>3, PublishTypes DEF PublishEntry, TypeOK
  <2>4. ASSUME NEW d \in Events, UpdateEntryPublished(b, d) \/ HandlePublishFailure(b, d)
        PROVE  bpc'[b] = "looping" /\ entry'[b] = {}
    BY <2>4 DEF UpdateEntryPublished, HandlePublishFailure
  <2> QED BY <2>1, <2>2, <2>3, <2>4 DEF BaseStep
<1> QED BY <1>1, <1>2, <1>3, <1>4

\* A row that a step of the base outbox leaves in processing without a fault is the one
\* it has just taken up, or it was in processing and is in the same hands.
LEMMA BaseOwnedStep ==
    ASSUME ServiceTypeOK, EntryOK, NEW b \in BaseWorkers, BaseStep(b),
           faults' = 0, NEW e \in Events, rows'[e].status = "processing"
    PROVE  \/ \E a \in BaseWorkers : e \in entry'[a]
           \/ /\ faults = 0 /\ rows[e].status = "processing"
              /\ ~\E a \in BaseWorkers : e \in entry[a]
<1> USE DEF ServiceTypeOK, TypeOK, TableTypeOK, BaseTypeOK
<1>1. faults \in Nat
  BY BoundsAssumption
<1>2. ASSUME faults' = faults, rows'[e] = rows[e], \A a \in BaseWorkers : entry[a] \subseteq entry'[a]
      PROVE  \/ \E a \in BaseWorkers : e \in entry'[a]
             \/ /\ faults = 0 /\ rows[e].status = "processing"
                /\ ~\E a \in BaseWorkers : e \in entry[a]
  BY <1>2
<1>3. CASE GetPendingEntries(b) \/ BatchEnds(b) \/ OutboxLoopExits(b)
  BY <1>2, <1>3 DEF GetPendingEntries, BatchEnds, OutboxLoopExits, tableVars
<1>4. ASSUME NEW d \in Events, PublishEntry(b, d)
      PROVE  faults' = faults /\ rows' = rows /\ entry' = entry
  BY <1>4 DEF PublishEntry
<1>5. ASSUME NEW d \in Events, ProcessEntry(b, d)
      PROVE  \/ \E a \in BaseWorkers : e \in entry'[a]
             \/ /\ faults' = faults /\ rows'[e] = rows[e]
                /\ \A a \in BaseWorkers : entry[a] \subseteq entry'[a]
  <2>1. CASE UpdateErrs(d, "processing") /\ UNCHANGED <<bpc, entry>>
    <3>1. rows' = rows /\ faults' = faults
      BY <1>1, <2>1 DEF UpdateErrs, Errs, Refused
    <3> QED BY <2>1, <3>1
  <2>2. CASE UpdateSucceeds(d, "processing") /\ entry' = [entry EXCEPT ![b] = {d}]
    <3>1. faults' = faults /\ (e = d \/ rows'[e] = rows[e])
      BY <2>2 DEF UpdateSucceeds, Succeeds, StatusUpdated
    <3>2. entry[b] = {}
      BY <1>5 DEF ProcessEntry, EntryOK
    <3> QED BY <2>2, <3>1, <3>2
  <2> QED BY <1>5, <2>1, <2>2 DEF ProcessEntry
<1>6. ASSUME NEW d \in Events, UpdateEntryPublished(b, d) \/ HandlePublishFailure(b, d)
      PROVE  /\ faults' = faults /\ rows'[e] = rows[e] /\ e # d
             /\ \A a \in BaseWorkers : e \in entry[a] => e \in entry'[a]
  <2>1. entry[b] = {d} /\ entry' = [entry EXCEPT ![b] = {}]
    BY <1>6 DEF UpdateEntryPublished, HandlePublishFailure, EntryOK
  <2>2. CASE UpdateEntryPublished(b, d)
    <3>1. rows' = StatusUpdated(d, "published") /\ faults' = faults
      BY <1>1, <2>2 DEF UpdateEntryPublished, Succeeds, Errs
    <3>2. e # d /\ rows'[e] = rows[e]
      BY <3>1 DEF StatusUpdated, Row
    <3> QED BY <2>1, <3>1, <3>2
  <2>3. CASE HandlePublishFailure(b, d)
    <3>1. rows' = FailureRows(b, d) /\ faults' = faults
      BY <1>1, <2>3 DEF HandlePublishFailure, Succeeds, Errs
    <3>2. e # d /\ rows'[e] = rows[e]
      BY <3>1 DEF FailureRows, StatusUpdated, UpdatedForRetry, Row
    <3> QED BY <2>1, <3>1, <3>2
  <2> QED BY <1>6, <2>2, <2>3
<1> QED BY <1>2, <1>3, <1>4, <1>5, <1>6 DEF BaseStep

(***************************************************************************)
(* The invariant is preserved.                                             *)
(***************************************************************************)
\* A step of the base outbox leaves the pool's part of the invariant intact: it changes
\* the status of rows the pool works on, but nothing the pool relies on.
LEMMA BasePreserves ==
    ASSUME ServiceIInv, ServiceTypeOK', NEW b \in BaseWorkers, BaseStep(b), UNCHANGED poolVars
    PROVE  ServiceIInv'
<1> USE DEF ServiceIInv
<1>1. BatchOK' /\ ManagerOK'
  BY BaseEffects DEF poolVars, BatchOK, ManagerOK
<1>2. RowsOK'
  BY BaseEffects DEF RowsOK
<1>3. DeliveredOK'
  <2>1. \A w \in Workers : \A e \in okIDs'[w] : delivered'[e] > 0
    BY BaseEffects DEF poolVars, DeliveredOK, ServiceTypeOK, TypeOK, PoolTypeOK
  <2>2. PublishedWasDelivered'
    <3> SUFFICES ASSUME NEW e \in Events, Settled(e)'
                 PROVE  delivered'[e] > 0
      BY DEF PublishedWasDelivered
    <3>1. Settled(e) \/ (bpc[b] = "published" /\ e \in entry[b])
      BY BaseEffects DEF Settled
    <3>2. delivered[e] > 0
      BY <3>1 DEF DeliveredOK, PublishedWasDelivered, EntryDelivered
    <3> QED BY <3>2, BaseEffects
  <2> QED BY <2>1, <2>2 DEF DeliveredOK
<1>4. EntryOK' /\ EntryDelivered'
  BY BaseBookkeeping
<1>5. ServiceProcessingIsOwned'
  <2> SUFFICES ASSUME faults' = 0, NEW e \in Events, rows'[e].status = "processing"
               PROVE  \/ \E w \in Workers : e \in todo'[w] \cup okIDs'[w] \cup failedIDs'[w]
                      \/ \E a \in BaseWorkers : e \in entry'[a]
    BY DEF ServiceProcessingIsOwned
  <2> QED BY BaseOwnedStep DEF ServiceProcessingIsOwned, poolVars
<1> QED BY <1>1, <1>2, <1>3, <1>4, <1>5

\* A step of the pool or of the table leaves the base outbox's part intact.
LEMMA PoolPreserves ==
    ASSUME ServiceIInv, ServiceTypeOK', [Next]_vars,
           \/ UNCHANGED baseVars
           \/ /\ UNCHANGED <<vars, entries, entry, seen>>
              /\ StartOutbox \/ StopOutbox \/ StopOutboxReturns
    PROVE  ServiceIInv'
<1> USE DEF ServiceIInv
<1>1. BatchOK' /\ ManagerOK' /\ RowsOK' /\ DeliveredOK'
  BY BatchPreserved, ManagerPreserved, RowsPreserved, DeliveredPreserved DEF ServiceTypeOK
<1>2. entry' = entry
  BY DEF baseVars
<1>3. EntryOK'
  BY DEF EntryOK, baseVars, StartOutbox, StopOutbox, StopOutboxReturns,
     ServiceTypeOK, BaseTypeOK
<1>4. EntryDelivered'
  <2>1. \A b \in BaseWorkers : bpc'[b] = "published" => bpc[b] = "published"
    BY DEF baseVars, StartOutbox, StopOutbox, StopOutboxReturns
  <2>2. \A e \in Events : delivered[e] > 0 => delivered'[e] > 0
    BY DeliveriesGrow DEF ServiceTypeOK
  <2> QED BY <1>2, <2>1, <2>2 DEF EntryDelivered, ServiceTypeOK, BaseTypeOK
<1>5. ServiceProcessingIsOwned'
  <2> SUFFICES ASSUME faults' = 0, NEW e \in Events, rows'[e].status = "processing"
               PROVE  \/ \E w \in Workers : Recorder(e, w)'
                      \/ \E b \in BaseWorkers : e \in entry'[b]
    BY DEF ServiceProcessingIsOwned, Recorder
  <2>1. /\ faults = 0
        /\ \/ \E w \in Workers : Recorder(e, w)'
           \/ rows[e].status = "processing" /\ ~\E w \in Workers : Recorder(e, w)
    BY OwnedStep DEF ServiceTypeOK
  <2> QED BY <1>2, <2>1 DEF ServiceProcessingIsOwned, Recorder
<1> QED BY <1>1, <1>3, <1>4, <1>5

\* What the end of the process leaves is the table: nobody holds an entry any more.
LEMMA LossPreserves ==
    ASSUME ServiceIInv, ServiceTypeOK', WorkersLost, OutboxLost,
           UNCHANGED <<rows, committed, delivered>>, faults' = faults + 1
    PROVE  ServiceIInv'
<1> USE DEF ServiceIInv
<1>1. BatchOK' /\ ManagerOK'
  BY DEF WorkersLost, NoBatch, BatchOK, ManagerOK
<1>2. RowsOK' /\ DeliveredOK'
  BY DEF WorkersLost, NoBatch, RowsOK, DeliveredOK, PublishedWasDelivered, Settled
<1>3. EntryOK' /\ EntryDelivered'
  BY DEF OutboxLost, NoEntries, EntryOK, EntryDelivered
<1>4. ServiceProcessingIsOwned'
  <2>1. faults' # 0
    BY BoundsAssumption DEF ServiceTypeOK, TypeOK, TableTypeOK
  <2> QED BY <2>1 DEF ServiceProcessingIsOwned
<1> QED BY <1>1, <1>2, <1>3, <1>4

\* Every step of the service preserves the inductive invariant.
LEMMA ServiceInvariantStep == ServiceIInv /\ [ServiceNext]_serviceVars => ServiceIInv'
<1> SUFFICES ASSUME ServiceIInv, [ServiceNext]_serviceVars
             PROVE  ServiceIInv'
  OBVIOUS
<1>1. ServiceTypeOK'
  BY ServiceTypeStep DEF ServiceIInv
<1> QED BY <1>1, ServiceSteps, PoolPreserves, BasePreserves, LossPreserves

\* The stopped service, with an empty table, satisfies it.
LEMMA ServiceInvariantInitially == ServiceInit => ServiceIInv
<1> SUFFICES ASSUME ServiceInit
             PROVE  ServiceIInv
  OBVIOUS
<1>1. IInv
  BY InvariantInitially DEF ServiceInit, Init
<1>2. ServiceTypeOK
  BY ServiceTypeInitially
<1>3. EntryOK /\ EntryDelivered
  BY DEF ServiceInit, BaseInit, NoEntries, EntryOK, EntryDelivered
<1>4. ServiceProcessingIsOwned
  BY <1>1 DEF IInv, ProcessingIsOwned, ServiceProcessingIsOwned
<1> QED BY <1>1, <1>2, <1>3, <1>4 DEF IInv, ServiceIInv

\* The inductive invariant of the service holds in every reachable state.
THEOREM ServiceInvariance == ServiceSpec => []ServiceIInv
BY ServiceInvariantInitially, ServiceInvariantStep, PTL DEF ServiceSpec

\* A row is recorded as published, or cleaned up, only after a delivery, also where the
\* base outbox overwrites the status of rows the pool has in its hands and the reverse.
THEOREM ServicePublishedWasDelivered == ServiceSpec => []PublishedWasDelivered
BY ServiceInvariance, PTL DEF ServiceIInv, DeliveredOK

\* Without a crash or a failed call no row is stranded in processing: one kind of worker
\* may take it from the other, but the last to mark it still writes its outcome.
THEOREM ServiceProcessingIsOwnedAlways == ServiceSpec => []ServiceProcessingIsOwned
BY ServiceInvariance, PTL DEF ServiceIInv
=============================================================================
