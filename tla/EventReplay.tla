----------------------------- MODULE EventReplay -----------------------------
(***************************************************************************)
(* The replay engine of pkg/eventreplay and its snapshot table.  Several   *)
(* replays may run at once: they share the handlers, the counters and the  *)
(* snapshots, and each start resets the projections the handlers build:    *)
(* alone says that no other replay began since this one did.               *)
(***************************************************************************)
EXTENDS Integers, FiniteSets, Sequences, SequencesExt

CONSTANTS Replays,          \* calls of ReplayEvents
          ReplayRequests,   \* what they may ask for
          ReplayedIds,      \* aggregates in the event store
          StoredFirst,      \* the events the store holds at first
          LogLength,        \* how many it holds at most
          EngineWorkers, EngineBatch,   \* WorkerCount and BatchSize of the engine
          MaxReplayFaults   \* failing handlers and removed snapshots

ASSUME ReplayAssumption ==
    EngineWorkers \in Nat /\ EngineBatch \in Nat /\ LogLength \in Nat /\ MaxReplayFaults \in Nat

VARIABLES rpLog, rpProcessed, rpSnaps, rpSaved, rpRuns, rpMetrics, rpEngine, rpBudget
rpVars == <<rpLog, rpProcessed, rpSnaps, rpSaved, rpRuns, rpMetrics, rpEngine, rpBudget>>

ReplayedVersions == 1..LogLength
Recorded == [id : ReplayedIds, version : ReplayedVersions]
TypeOf(e) == IF e.version = 1 THEN "created" ELSE "updated"

(* from, to: bounds on the version, 0 where the request leaves them out. *)
ReplayRequest ==
    [by : {"id", "type", "custom"}, id : ReplayedIds, type : {"created", "updated", ""},
     from : 0..LogLength, to : 0..LogLength,
     strategy : {"sequential", "parallel", "batch", "streaming", "unknown"},
     useSnapshots : BOOLEAN, createSnapshot : BOOLEAN, dryRun : BOOLEAN, workers : Int, batch : Int]

(* What integration_example.go asks for. *)
ReplayUserEvents(id, version) ==
    [by |-> "id", id |-> id, type |-> "", from |-> version, to |-> 0, strategy |-> "sequential",
     useSnapshots |-> TRUE, createSnapshot |-> TRUE, dryRun |-> FALSE, workers |-> 0, batch |-> 50]
RebuildProjections(any) ==
    [by |-> "custom", id |-> any, type |-> "", from |-> 0, to |-> 0, strategy |-> "parallel",
     useSnapshots |-> FALSE, createSnapshot |-> TRUE, dryRun |-> FALSE, workers |-> 8, batch |-> 200]

validateRequest(q) == /\ ~(q.to > 0 /\ q.from > q.to)
                      /\ q.workers >= 0 /\ q.batch >= 0

eventMatchesFilters(q, e) == /\ q.type # "" => TypeOf(e) = q.type
                             /\ e.version >= q.from
                             /\ q.to > 0 => e.version <= q.to

(* Only a request for one aggregate or for one type in a period reads the  *)
(* whole history; any other reads the events nobody has processed yet.     *)
getEventsForReplay(q) ==
    LET read(e) == CASE q.by = "id"   -> e.id = q.id
                     [] q.by = "type" -> TypeOf(e) = q.type
                     [] OTHER         -> e \notin rpProcessed IN
    SelectSeq(rpLog, LAMBDA e : read(e) /\ eventMatchesFilters(q, e))

Groups(events) == [a \in {events[i].id : i \in DOMAIN events} |-> SelectSeq(events, LAMBDA e : e.id = a)]
Effective(own, engines) == IF own = 0 THEN engines ELSE own

-----------------------------------------------------------------------------
(* Snapshots: at most one for an aggregate, here in the order of           *)
(* created_at.                                                             *)

Snapshot == [id : ReplayedIds, version : ReplayedVersions]
LoadSnapshot(a) == LET mine == {i \in DOMAIN rpSnaps : rpSnaps[i].id = a} IN
                   IF mine = {} THEN 0 ELSE rpSnaps[CHOOSE i \in mine : TRUE].version

\* Mutant: an older snapshot replaces a newer one.
SaveSnapshotAlways(a, v) == Append(SelectSeq(rpSnaps, LAMBDA s : s.id # a), [id |-> a, version |-> v])
\* ON CONFLICT ... WHERE version < EXCLUDED.version.
SaveSnapshot(a, v) ==
    IF LoadSnapshot(a) >= v THEN rpSnaps
    ELSE Append(SelectSeq(rpSnaps, LAMBDA s : s.id # a), [id |-> a, version |-> v])

(* Where replayAggregateEvents begins: at the first event the snapshot     *)
(* does not cover, and at the very first one when it covers them all.      *)
StartIndex(q, events) ==
    LET later == {i \in DOMAIN events : events[i].version > LoadSnapshot(events[1].id)} IN
    IF ~q.useSnapshots \/ later = {} THEN 1 ELSE CHOOSE i \in later : \A j \in later : i <= j

-----------------------------------------------------------------------------
(* A run: what it selected, the groups nobody has taken, the part each     *)
(* worker (or the one loop of the other strategies) still has to handle,   *)
(* what it handled, and what failed.                                       *)

Idle0 == [pc |-> "idle", request |-> CHOOSE q \in ReplayRequests : TRUE, selected |-> <<>>,
          groups |-> {}, work |-> <<>>, handled |-> <<>>, failed |-> {}, skipped |-> {}, alone |-> TRUE]

RpInit == /\ rpLog = StoredFirst /\ rpProcessed = {} /\ rpSnaps = <<>>
          /\ rpSaved = [a \in ReplayedIds |-> {}]
          /\ rpRuns = [r \in Replays |-> Idle0]
          /\ rpMetrics = [owner |-> "nobody", processed |-> 0, failed |-> 0]
          /\ rpEngine = "up"
          /\ rpBudget = 0

(* The store, outside this engine: an event is added, or processed. *)
Recorded1(a) == [id |-> a, version |-> 1 + Cardinality({i \in DOMAIN rpLog : rpLog[i].id = a})]
AddEvent(a) ==
    /\ Len(rpLog) < LogLength /\ rpLog' = Append(rpLog, Recorded1(a))
    /\ UNCHANGED <<rpProcessed, rpSnaps, rpSaved, rpRuns, rpMetrics, rpEngine, rpBudget>>
ProcessStored ==
    /\ \E i \in DOMAIN rpLog : /\ \A j \in 1..(i - 1) : rpLog[j] \in rpProcessed
                               /\ rpLog[i] \notin rpProcessed
                               /\ rpProcessed' = rpProcessed \union {rpLog[i]}
    /\ UNCHANGED <<rpLog, rpSnaps, rpSaved, rpRuns, rpMetrics, rpEngine, rpBudget>>

(* ReplayEvents: new counters first, even for a request that is refused;   *)
(* then the events; then every handler is told, which resets projections,  *)
(* those another replay is filling included.                               *)
Busy(r) == rpRuns[r].pc = "running"
Selected(q, events) ==
    [request |-> q, selected |-> events, handled |-> <<>>, failed |-> {}, skipped |-> {},
     alone |-> \A r \in Replays : ~Busy(r),
     groups |-> IF q.strategy = "parallel" THEN ToSet(events) ELSE {},
     work |-> IF q.strategy = "parallel" THEN [w \in 1..Effective(q.workers, EngineWorkers) |-> <<>>]
              ELSE <<events>>,
     pc |-> CASE q.strategy = "unknown" -> "failed"
              [] q.strategy = "batch" /\ Effective(q.batch, EngineBatch) = 0 -> "spinning"
              [] OTHER -> "running"]
OnReplayStart == [o \in Replays |-> [rpRuns[o] EXCEPT !.alone = FALSE]]
ReplayEvents(r, q) ==
    LET others == OnReplayStart
        events == getEventsForReplay(q) IN
    /\ rpRuns[r].pc = "idle" /\ rpEngine = "up"
    /\ rpMetrics' = [owner |-> r, processed |-> 0, failed |-> 0]
    /\ IF ~validateRequest(q) THEN rpRuns' = [others EXCEPT ![r].pc = "refused"]
       ELSE IF events = <<>> THEN rpRuns' = [others EXCEPT ![r].pc = "completed", ![r].request = q]
       ELSE rpRuns' = [others EXCEPT ![r] = Selected(q, events)]
    /\ UNCHANGED <<rpLog, rpProcessed, rpSnaps, rpSaved, rpEngine, rpBudget>>

Counts(q)     == q.strategy \in {"sequential", "streaming"}
KeepsGoing(q) == Counts(q)

(* replayParallel: a free worker takes the events of an aggregate.  groups *)
(* holds the events nobody has taken.                                      *)
TakeGroup(r, w) ==
    LET run == rpRuns[r] IN
    /\ Busy(r) /\ run.request.strategy = "parallel" /\ w \in DOMAIN run.work /\ run.work[w] = <<>>
    /\ \E e \in run.groups :
        LET events == Groups(run.selected)[e.id]
            start  == StartIndex(run.request, events) IN
        rpRuns' = [rpRuns EXCEPT ![r].groups = {x \in @ : x.id # e.id},
                                 ![r].work[w] = SubSeq(events, start, Len(events)),
                                 ![r].skipped = @ \union ToSet(SubSeq(events, 1, start - 1))]
    /\ UNCHANGED <<rpLog, rpProcessed, rpSnaps, rpSaved, rpMetrics, rpEngine, rpBudget>>

(* processEvent: a dry run only validates; otherwise the handlers get it.  *)
(* After the last event of its aggregate a parallel worker may save a      *)
(* snapshot; the other strategies ignore both snapshot settings.           *)
LastOfGroup(r, w) == rpRuns[r].request.strategy = "parallel" /\ Len(rpRuns[r].work[w]) = 1
processEvent(r, w) ==
    LET run == rpRuns[r]  e == Head(run.work[w]) IN
    /\ Busy(r) /\ w \in DOMAIN run.work /\ run.work[w] # <<>>
    /\ rpRuns' = [rpRuns EXCEPT ![r].work[w] = Tail(@), ![r].handled = Append(@, e)]
    /\ rpMetrics' = IF Counts(run.request) THEN [rpMetrics EXCEPT !.processed = @ + 1] ELSE rpMetrics
    /\ IF LastOfGroup(r, w) /\ run.request.createSnapshot
       THEN /\ rpSnaps' = SaveSnapshot(e.id, e.version)
            /\ rpSaved' = [rpSaved EXCEPT ![e.id] = @ \union {e.version}]
       ELSE UNCHANGED <<rpSnaps, rpSaved>>
    /\ UNCHANGED <<rpLog, rpProcessed, rpEngine, rpBudget>>

(* A handler fails: a sequential replay counts it and goes on unless the   *)
(* error is critical, streaming always goes on, a batch stops, a worker    *)
(* gives up its aggregate and takes the next one.                          *)
ReplayHandlerFails(r, w, critical) ==
    LET run == rpRuns[r]  e == Head(run.work[w]) IN
    /\ Busy(r) /\ w \in DOMAIN run.work /\ run.work[w] # <<>> /\ ~run.request.dryRun
    /\ rpBudget < MaxReplayFaults
    /\ rpBudget' = rpBudget + 1
    /\ rpMetrics' = IF Counts(run.request) THEN [rpMetrics EXCEPT !.failed = @ + 1] ELSE rpMetrics
    /\ LET failed == [rpRuns EXCEPT ![r].failed = @ \union {e}] IN
       rpRuns' = CASE run.request.strategy = "streaming" \/ (run.request.strategy = "sequential" /\ ~critical)
                        -> [failed EXCEPT ![r].work[w] = Tail(@)]
                   [] run.request.strategy = "parallel" -> [failed EXCEPT ![r].work[w] = <<>>]
                   [] OTHER -> [failed EXCEPT ![r].pc = "failed", ![r].work[w] = <<>>]
    /\ UNCHANGED <<rpLog, rpProcessed, rpSnaps, rpSaved, rpEngine>>

(* Every worker is done.  Without workers nothing was done, without error. *)
FinishReplay(r) ==
    LET run == rpRuns[r] IN
    /\ Busy(r) /\ \A w \in DOMAIN run.work : run.work[w] = <<>>
    /\ run.groups = {} \/ run.work = <<>>
    /\ rpRuns' = [rpRuns EXCEPT ![r].pc = IF ~KeepsGoing(run.request) /\ run.failed # {} THEN "failed" ELSE "completed"]
    /\ UNCHANGED <<rpLog, rpProcessed, rpSnaps, rpSaved, rpMetrics, rpEngine, rpBudget>>

(* Shutdown cancels: a streaming replay stops feeding its goroutine and    *)
(* reports the error; Shutdown waits for the workers of the others.        *)
Shutdown0 ==
    /\ rpEngine = "up" /\ rpEngine' = "stopping"
    /\ UNCHANGED <<rpLog, rpProcessed, rpSnaps, rpSaved, rpRuns, rpMetrics, rpBudget>>
StreamStops(r) ==
    /\ rpEngine # "up" /\ Busy(r) /\ rpRuns[r].request.strategy = "streaming"
    /\ rpRuns' = [rpRuns EXCEPT ![r].pc = "failed"]
    /\ UNCHANGED <<rpLog, rpProcessed, rpSnaps, rpSaved, rpMetrics, rpEngine, rpBudget>>
Waited(r) == rpRuns[r].request.strategy \in {"parallel", "streaming"}
ShutdownDone ==
    /\ rpEngine = "stopping" /\ \A r \in Replays : Busy(r) => ~Waited(r)
    /\ rpEngine' = "down"
    /\ UNCHANGED <<rpLog, rpProcessed, rpSnaps, rpSaved, rpRuns, rpMetrics, rpBudget>>

DeleteSnapshot(a) ==
    /\ rpBudget < MaxReplayFaults /\ LoadSnapshot(a) # 0
    /\ rpBudget' = rpBudget + 1
    /\ rpSnaps' = SelectSeq(rpSnaps, LAMBDA s : s.id # a)
    /\ rpSaved' = [rpSaved EXCEPT ![a] = {}]
    /\ UNCHANGED <<rpLog, rpProcessed, rpRuns, rpMetrics, rpEngine>>

(* Of the snapshots older than the cutoff the newest keepLatest of each    *)
(* type stay: the type's, not the aggregate's.                             *)
CleanupOldSnapshots(old, keepLatest) ==
    /\ rpBudget < MaxReplayFaults /\ old > keepLatest
    /\ rpBudget' = rpBudget + 1
    /\ rpSnaps' = SubSeq(rpSnaps, old - keepLatest + 1, Len(rpSnaps))
    /\ rpSaved' = [a \in ReplayedIds |-> IF \E i \in 1..(old - keepLatest) : rpSnaps[i].id = a THEN {} ELSE rpSaved[a]]
    /\ UNCHANGED <<rpLog, rpProcessed, rpRuns, rpMetrics, rpEngine>>

RpNext ==
    \/ \E a \in ReplayedIds : AddEvent(a) \/ DeleteSnapshot(a)
    \/ ProcessStored \/ Shutdown0 \/ ShutdownDone
    \/ \E old \in DOMAIN rpSnaps, k \in 0..1 : CleanupOldSnapshots(old, k)
    \/ \E r \in Replays :
        \/ \E q \in ReplayRequests : ReplayEvents(r, q)
        \/ \E w \in DOMAIN rpRuns[r].work :
              TakeGroup(r, w) \/ processEvent(r, w) \/ \E c \in BOOLEAN : ReplayHandlerFails(r, w, c)
        \/ FinishReplay(r) \/ StreamStops(r)

-----------------------------------------------------------------------------
(* Properties *)

(* The types of the replays, the snapshots and the counters. *)
RpTypeOK ==
    /\ rpLog \in Seq(Recorded) /\ rpProcessed \subseteq ToSet(rpLog)
    /\ rpSnaps \in Seq(Snapshot)
    /\ rpEngine \in {"up", "stopping", "down"} /\ rpMetrics.processed \in Nat
    /\ \A r \in Replays : /\ rpRuns[r].request \in ReplayRequest
                          /\ rpRuns[r].pc \in {"idle", "refused", "running", "spinning", "completed", "failed"}

(* One replay gives its handlers the events of one aggregate in the order  *)
(* of their versions, with any number of workers (replayParallel).         *)
VersionsInOrder ==
    \A r \in Replays : LET h == rpRuns[r].handled IN
        \A i, j \in DOMAIN h : i < j /\ h[i].id = h[j].id => h[i].version < h[j].version

(* A replay that reports completed has handled every event it selected, or *)
(* left it to a snapshot, or counted it as failed -- unless it had no      *)
(* worker at all.                                                          *)
CompletedIsAll ==
    \A r \in Replays : LET run == rpRuns[r] IN
        run.pc = "completed" /\ run.work # <<>>
            => /\ ToSet(run.selected) = ToSet(run.handled) \union run.skipped \union run.failed
               /\ run.failed # {} => KeepsGoing(run.request)

(* The snapshot of an aggregate is the newest saved since it was last      *)
(* deleted, in whatever order replays save theirs.                         *)
SnapshotsAreNewest ==
    \A a \in ReplayedIds : /\ \A v \in rpSaved[a] : v <= LoadSnapshot(a)
                           /\ LoadSnapshot(a) # 0 => LoadSnapshot(a) \in rpSaved[a]

(* The counters of a replay nobody else disturbed add up to its events. *)
CountsAddUp ==
    \A r \in Replays : LET run == rpRuns[r] IN
        run.pc = "completed" /\ run.alone /\ rpMetrics.owner = r /\ Counts(run.request)
            => rpMetrics.processed + rpMetrics.failed = Len(run.selected)

ReplaySafety == VersionsInOrder /\ CompletedIsAll /\ SnapshotsAreNewest /\ CountsAddUp
=============================================================================
