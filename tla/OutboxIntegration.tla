-------------------------- MODULE OutboxIntegration --------------------------
(***************************************************************************)
(* Who writes to the outbox, and who leads its workers.                      *)
(*                                                                         *)
(* The wrapper of pkg/outbox/repository_integration.go runs a business       *)
(* operation and the inserts of its events in one transaction: operations,   *)
(* batches, saved aggregates, the event store and steps of sagas.  A         *)
(* transaction holds one connection of the pool; an event store that takes   *)
(* no transaction of its caller's needs a second.                            *)
(*                                                                         *)
(* The election of pkg/outbox/workers.go, started by every pool: no setup    *)
(* gives a ProcessorID, so that all processes share the row "leader-".  (With *)
(* one, the INSERT finds the processor's own row under the id, and fails.)   *)
(***************************************************************************)
EXTENDS Integers, Sequences, FiniteSets

CONSTANTS
    Writers,
    WriterKinds,   \* of {"operation", "batch", "aggregate", "store", "saga"}
    Connections,   \* of the pool
    MaxWrites,     \* bound on the calls of a writer
    MaxWriteFaults \* bound on failed statements, lost answers and crashes

ASSUME IntegrationAssumption ==
    /\ IsFiniteSet(Writers) /\ WriterKinds \subseteq {"operation", "batch", "aggregate", "store", "saga"}
    /\ Connections \in Nat /\ MaxWrites \in Nat /\ MaxWriteFaults \in Nat

VARIABLES
    oiKind,        \* what each writer's calls are
    oiTakes,       \* the repository and the store behind can work in a caller's transaction: none here does
    oiCall,        \* the call under way, with what its transaction has written
    oiFree,        \* connections nobody holds
    oiWrites, oiFaults,
    oiRows,        \* operations of each writer that are committed
    oiOutbox,      \* how often each of a writer's events is in the outbox
    oiStored,      \* the event store, for one aggregate: the writer of each version
    oiBase,        \* the version a writer loaded, and expects
    oiUncommitted, \* writers whose aggregate has uncommitted events
    oiSaga,        \* the status of the saga's step
    oiCommits,     \* history: transactions of each writer that committed
    oiTorn         \* history: versions whose outbox transaction failed after the store's had committed

oiVars == <<oiKind, oiTakes, oiCall, oiFree, oiWrites, oiFaults, oiRows, oiOutbox, oiStored, oiBase,
            oiUncommitted, oiSaga, oiCommits, oiTorn>>
oiTables == <<oiRows, oiOutbox, oiStored, oiUncommitted, oiSaga, oiCommits>>
oiFixed == <<oiKind, oiTakes>>

PerCall == 2                    \* events of a call, operations of a batch
Operations(w) == IF oiKind[w] = "batch" THEN PerCall ELSE 1
NoWrite == [at |-> "idle", ran |-> 0, added |-> 0, locks |-> FALSE, nested |-> FALSE]
\* A store's events are known by their versions, the others by their order.
EventsBefore(w) == IF oiKind[w] = "store" THEN oiBase[w] ELSE 0
FirstEvents(w, n) == EventsBefore(w) + 1 .. EventsBefore(w) + n
EventsOf(w) == FirstEvents(w, PerCall)
Writing == {w \in Writers : oiCall[w].at # "idle"}
Goes(w, c) == oiCall' = [oiCall EXCEPT ![w] = c]
\* Only one transaction at a time has written the saga's row, or the aggregate's next versions.
LockedByOther(w) == \E v \in Writing \ {w} : oiKind[v] = oiKind[w] /\ oiCall[v].locks

OiInit ==
    /\ oiKind \in [Writers -> WriterKinds] /\ oiTakes \in BOOLEAN /\ oiSaga \in {"pending", "running"}
    /\ oiCall = [w \in Writers |-> NoWrite] /\ oiFree = Connections
    /\ oiWrites = [w \in Writers |-> 0] /\ oiFaults = 0
    /\ oiRows = [w \in Writers |-> 0] /\ oiStored = <<>> /\ oiBase = [w \in Writers |-> 0]
    /\ oiOutbox = [w \in Writers |-> [e \in 1 .. PerCall * (Cardinality(Writers) + 1) |-> 0]]
    /\ oiUncommitted = {w \in Writers : oiKind[w] = "aggregate"}
    /\ oiCommits = [w \in Writers |-> 0] /\ oiTorn = {}

\* The caller of the store decides its events on the version it loads.
LoadVersion(w) ==
    /\ oiKind[w] = "store" /\ oiCall[w].at = "idle"
    /\ oiBase[w] # Len(oiStored) /\ Len(oiStored) <= PerCall * (Cardinality(Writers) - 1)
    /\ oiBase' = [oiBase EXCEPT ![w] = Len(oiStored)]
    /\ UNCHANGED <<oiFixed, oiCall, oiFree, oiWrites, oiFaults, oiTables, oiTorn>>

BeginTx(w) ==
    /\ oiCall[w].at = "idle" /\ oiWrites[w] < MaxWrites /\ oiFree > 0
    /\ oiWrites' = [oiWrites EXCEPT ![w] = @ + 1] /\ oiFree' = oiFree - 1
    /\ Goes(w, [NoWrite EXCEPT !.at = "operate"])
    /\ UNCHANGED <<oiFixed, oiFaults, oiTables, oiBase, oiTorn>>

\* The call returns an error, and the deferred Rollback undoes what the transaction wrote - not
\* what the store committed in a transaction of its own.
Fails(w) ==
    /\ Goes(w, NoWrite) /\ oiFree' = oiFree + 1
    /\ oiTorn' = IF oiCall[w].nested THEN oiTorn \cup EventsOf(w) ELSE oiTorn
WriteFault == oiFaults < MaxWriteFaults /\ oiFaults' = oiFaults + 1

\* A statement before COMMIT fails, the context ends, or the process dies.
StatementFails(w) ==
    /\ oiCall[w].at # "idle" /\ WriteFault /\ Fails(w)
    /\ UNCHANGED <<oiFixed, oiWrites, oiTables, oiBase>>

\* One operation after the other; their events come after all of them.
RunOperation(w) ==
    /\ oiKind[w] \in {"operation", "batch"} /\ oiCall[w].at = "operate"
    /\ LET n == oiCall[w].ran + 1
       IN  Goes(w, [oiCall[w] EXCEPT !.ran = n, !.at = IF n < Operations(w) THEN "operate" ELSE "add"])
    /\ UNCHANGED <<oiFixed, oiFree, oiWrites, oiFaults, oiTables, oiBase, oiTorn>>

\* A repository that cannot take the transaction is an error.
SaveAggregateInTransaction(w) ==
    /\ oiKind[w] = "aggregate" /\ oiCall[w].at = "operate"
    /\ IF oiTakes THEN Goes(w, [oiCall[w] EXCEPT !.ran = 1, !.at = "add"]) /\ UNCHANGED <<oiFree, oiTorn>>
       ELSE Fails(w)
    /\ UNCHANGED <<oiFixed, oiWrites, oiFaults, oiTables, oiBase>>

\* A store that takes the transaction inserts in it; the versions' index makes others wait.
SaveEventsInTransaction(w) ==
    /\ oiKind[w] = "store" /\ oiTakes /\ oiCall[w].at = "operate" /\ ~LockedByOther(w)
    /\ IF oiBase[w] = Len(oiStored)
       THEN Goes(w, [oiCall[w] EXCEPT !.ran = 1, !.locks = TRUE, !.at = "add"]) /\ UNCHANGED <<oiFree, oiTorn>>
       ELSE Fails(w)
    /\ UNCHANGED <<oiFixed, oiWrites, oiFaults, oiTables, oiBase>>

StoreEvents(w) == oiStored' = oiStored \o [i \in 1 .. PerCall |-> w]

\* Any other store commits by itself, on a second connection, which it has given back when it
\* returns; its answer may be lost.
SaveEvents(w) ==
    /\ oiKind[w] = "store" /\ ~oiTakes /\ oiCall[w].at = "operate" /\ oiFree > 0
    /\ IF oiBase[w] # Len(oiStored) THEN Fails(w) /\ UNCHANGED <<oiStored, oiFaults>>
       ELSE /\ StoreEvents(w)
            /\ \/ /\ Goes(w, [oiCall[w] EXCEPT !.ran = 1, !.nested = TRUE, !.at = "add"])
                  /\ UNCHANGED <<oiFree, oiFaults, oiTorn>>
               \/ /\ WriteFault /\ Goes(w, NoWrite) /\ oiFree' = oiFree + 1
                  /\ oiTorn' = oiTorn \cup EventsOf(w)
    /\ UNCHANGED <<oiFixed, oiWrites, oiRows, oiOutbox, oiUncommitted, oiSaga, oiCommits, oiBase>>

\* WHERE status = 'running': a step in another status is updated by none of the statements, which is
\* no error, and is executed all the same.
MarkStepRunning(w) ==
    /\ oiKind[w] = "saga" /\ oiCall[w].at = "operate" /\ ~LockedByOther(w)
    /\ Goes(w, [oiCall[w] EXCEPT !.locks = oiSaga = "running", !.at = "step"])
    /\ UNCHANGED <<oiFixed, oiFree, oiWrites, oiFaults, oiTables, oiBase, oiTorn>>
\* A step that fails is marked, and its error rolls the mark back.
ExecuteSagaStep(w) ==
    /\ oiCall[w].at = "step"
    /\ \/ Goes(w, [oiCall[w] EXCEPT !.ran = 1, !.at = "add"]) /\ UNCHANGED <<oiFree, oiTorn>>
       \/ Fails(w)
    /\ UNCHANGED <<oiFixed, oiWrites, oiFaults, oiTables, oiBase>>

\* AddEventWithDeliveryTracking, event by event.
AddToOutbox(w) ==
    /\ oiCall[w].at = "add" /\ oiCall[w].added < PerCall
    /\ Goes(w, [oiCall[w] EXCEPT !.added = @ + 1])
    /\ UNCHANGED <<oiFixed, oiFree, oiWrites, oiFaults, oiTables, oiBase, oiTorn>>

\* The transaction is committed, whether the caller hears of it or not.
Applied(w) ==
    /\ oiCommits' = [oiCommits EXCEPT ![w] = @ + 1]
    /\ oiRows' = [oiRows EXCEPT ![w] = @ + oiCall[w].ran]
    /\ oiOutbox' = [oiOutbox EXCEPT ![w] = [e \in DOMAIN @ |->
                                             IF e \in FirstEvents(w, oiCall[w].added) THEN @[e] + 1 ELSE @[e]]]
    /\ oiSaga' = IF oiKind[w] = "saga" /\ oiCall[w].locks THEN "completed" ELSE oiSaga
    /\ IF oiKind[w] = "store" /\ oiCall[w].locks THEN StoreEvents(w) ELSE UNCHANGED oiStored
    /\ Goes(w, NoWrite) /\ oiFree' = oiFree + 1

CommitTransaction(w) ==
    /\ oiCall[w].at = "add" /\ oiCall[w].added = PerCall /\ Applied(w)
    /\ \/ UNCHANGED oiFaults /\ oiUncommitted' = oiUncommitted \ {w}
       \/ WriteFault /\ UNCHANGED oiUncommitted
    /\ UNCHANGED <<oiFixed, oiWrites, oiBase, oiTorn>>

OiNext == \E w \in Writers :
    \/ LoadVersion(w) \/ BeginTx(w) \/ StatementFails(w) \/ RunOperation(w) \/ SaveAggregateInTransaction(w)
    \/ SaveEventsInTransaction(w) \/ SaveEvents(w) \/ MarkStepRunning(w) \/ ExecuteSagaStep(w)
    \/ AddToOutbox(w) \/ CommitTransaction(w)
OiSpec == OiInit /\ [][OiNext]_oiVars

----------------------------------------------------------------------------

OiTypeOK ==
    /\ oiCall \in [Writers -> [at : {"idle", "operate", "step", "add"}, ran : 0 .. PerCall,
                               added : 0 .. PerCall, locks : BOOLEAN, nested : BOOLEAN]]
    /\ oiFree \in 0 .. Connections /\ oiSaga \in {"pending", "running", "completed"}

\* What a writer did and what it announced agree: every committed operation has each of its events in
\* the outbox as often as it was committed, a batch with all of its operations or none.
WrittenIsAnnounced ==
    \A w \in Writers : oiKind[w] # "store" =>
        /\ oiRows[w] = oiCommits[w] * Operations(w)
        /\ \A e \in 1 .. PerCall : oiOutbox[w][e] = oiCommits[w]
\* An event of the store is announced only if it is stored under its version by the same writer, and
\* once; it may be stored and not announced if a fault came between the two commits, and never is
\* if the store takes the caller's transaction.
AnnouncedIsStored ==
    \A w \in Writers : oiKind[w] = "store" => \A e \in DOMAIN oiOutbox[w] :
        /\ oiOutbox[w][e] <= 1
        /\ oiOutbox[w][e] = 1 => e <= Len(oiStored) /\ oiStored[e] = w
StoredIsAnnounced ==
    /\ \A e \in DOMAIN oiStored :
        LET w == oiStored[e]
        IN  oiOutbox[w][e] = 1 \/ e \in oiTorn \/ (oiCall[w].nested /\ e \in EventsOf(w))
    /\ oiTakes => oiTorn = {}
\* The aggregate keeps its events until they are in the outbox.
KeptUntilOut == \A w \in Writers : oiKind[w] = "aggregate" /\ w \notin oiUncommitted => oiCommits[w] > 0
\* A saga's step that was running is completed by the first commit, with its events.
SagaFollows ==
    LET done == \E w \in Writers : oiKind[w] = "saga" /\ oiCommits[w] > 0
    IN  /\ oiSaga = "completed" => done
        /\ oiSaga = "running" => ~done
\* Writers wait for each other's locks and for connections; each holds one until its call returns,
\* and all of them wait for ever only if each wants a second.
Waiting(w) ==
    \/ oiKind[w] = "store" /\ ~oiTakes /\ oiCall[w].at = "operate" /\ oiFree = 0
    \/ oiCall[w].at = "operate" /\ oiKind[w] \in {"store", "saga"} /\ LockedByOther(w)
StallIsNested ==
    /\ oiFree + Cardinality(Writing) = Connections
    /\ Writing # {} /\ (\A w \in Writing : Waiting(w)) =>
           oiFree = 0 /\ \A w \in Writing : oiKind[w] = "store" /\ ~oiTakes

\* The transactions of the wrapper keep data and outbox together.
IntegrationSafety ==
    WrittenIsAnnounced /\ AnnouncedIsStored /\ StoredIsAnnounced /\ KeptUntilOut /\ SagaFollows /\ StallIsNested

----------------------------------------------------------------------------
(* The election: a tick is renewInterval, half a minute.                    *)

CONSTANTS Electors, MaxLeaderTime, MaxElectorFaults
ASSUME ElectionAssumption == MaxLeaderTime \in Nat \ {0} /\ MaxElectorFaults \in Nat

VARIABLES
    leNow, leRow,     \* the clock; the row's heartbeat_at, or 0 without a row
    leUp, leDue,      \* electors that run; whose ticker has fired
    leLeads, leAsked, \* isLeader; when it was last given a value
    leUsurped,        \* history: an elector released a row that was not its own any more
    leFaults
leVars == <<leNow, leRow, leUp, leDue, leLeads, leAsked, leUsurped, leFaults>>

LeaseTicks == 2    \* INTERVAL '1 minute'

LeInit ==
    /\ leNow = 1 /\ leRow = 0 /\ leUp = Electors /\ leDue = {} /\ leLeads = {}
    /\ leAsked = [p \in Electors |-> 0] /\ leUsurped = FALSE /\ leFaults = 0

\* Tickers drop the ticks nobody waits for.
TickPasses ==
    /\ leNow < MaxLeaderTime /\ leNow' = leNow + 1 /\ leDue' = leUp
    /\ UNCHANGED <<leRow, leUp, leLeads, leAsked, leUsurped, leFaults>>

\* The row is inserted, or taken if its heartbeat is over a minute old - by its own leader too, which
\* no renewal within the minute finds a leader any more.
TryBecomeLeader(p) ==
    LET wins == leRow = 0 \/ leRow < leNow - LeaseTicks
    IN  /\ p \in leDue /\ leDue' = leDue \ {p}
        /\ leRow' = IF wins THEN leNow ELSE leRow
        /\ leLeads' = IF wins THEN leLeads \cup {p} ELSE leLeads \ {p}
        /\ leAsked' = [leAsked EXCEPT ![p] = leNow]
        /\ UNCHANGED <<leNow, leUp, leUsurped, leFaults>>
\* isLeader stays as it was when the database does not answer.
ElectionErrs(p) ==
    /\ p \in leDue /\ leDue' = leDue \ {p} /\ leFaults < MaxElectorFaults /\ leFaults' = leFaults + 1
    /\ UNCHANGED <<leNow, leRow, leUp, leLeads, leAsked, leUsurped>>

\* Run ends: a leader deletes the row, by an id that all share.
ReleaseLeadership(p) ==
    /\ p \in leUp /\ leUp' = leUp \ {p} /\ leDue' = leDue \ {p} /\ leLeads' = leLeads \ {p}
    /\ IF p \in leLeads
       THEN /\ leRow' = 0
            /\ leUsurped' = (leUsurped \/ (leRow # 0 /\ leRow # leAsked[p]))
       ELSE UNCHANGED <<leRow, leUsurped>>
    /\ UNCHANGED <<leNow, leAsked, leFaults>>
ElectorCrashes(p) ==
    /\ p \in leUp /\ leFaults < MaxElectorFaults /\ leFaults' = leFaults + 1
    /\ leUp' = leUp \ {p} /\ leDue' = leDue \ {p} /\ leLeads' = leLeads \ {p}
    /\ UNCHANGED <<leNow, leRow, leAsked, leUsurped>>
ElectorStarts(p) ==
    /\ p \notin leUp /\ leUp' = leUp \cup {p}
    /\ UNCHANGED <<leNow, leRow, leDue, leLeads, leAsked, leUsurped, leFaults>>

LeNext == TickPasses \/ \E p \in Electors :
    TryBecomeLeader(p) \/ ElectionErrs(p) \/ ReleaseLeadership(p) \/ ElectorCrashes(p) \/ ElectorStarts(p)
LeSpec == LeInit /\ [][LeNext]_leVars

----------------------------------------------------------------------------

LeTypeOK ==
    /\ leNow \in 1 .. MaxLeaderTime /\ leRow \in 0 .. MaxLeaderTime
    /\ leDue \subseteq leUp /\ leLeads \subseteq leUp /\ leAsked \in [Electors -> 0 .. MaxLeaderTime]

\* A leader that was confirmed within the lease has the row, with its own heartbeat; and two that both
\* take themselves for the leader were elected more than a lease apart - the older one could not renew.
LeaderHasRow ==
    ~leUsurped => \A p \in leLeads : leNow - leAsked[p] <= LeaseTicks => leRow = leAsked[p]
LeadersApart ==
    ~leUsurped => \A p, q \in leLeads :
        p = q \/ leAsked[p] > leAsked[q] + LeaseTicks \/ leAsked[q] > leAsked[p] + LeaseTicks

\* Nobody leads beside a leader whose lease runs.
ElectionSafety == LeaderHasRow /\ LeadersApart
=============================================================================
