----------------------------- MODULE EventStore -----------------------------
(***************************************************************************)
(* The event store: pkg/eventstore's SaveEvents on the domain_events table,  *)
(* and the aggregates in memory that pkg/repositories saves through it.      *)
(*                                                                         *)
(* SaveEvents runs a READ COMMITTED transaction: it compares the latest      *)
(* version with the expected one, inserts the events one by one, commits.    *)
(* Other transactions run between any two of these statements.  The check    *)
(* takes no lock; UNIQUE (aggregate_id, version) makes an insert wait for    *)
(* the transaction that has inserted the same version, and fail if that one  *)
(* commits.                                                                 *)
(***************************************************************************)
EXTENDS Integers

CONSTANTS
    Clients,        \* requests, each with one aggregate in memory at a time
    Aggregates,     \* ids that new aggregates may get
    NoAggregate,    \* no aggregate in memory
    Existing,       \* those whose stream is there at the start, with one event
    NewVersion,     \* version of an aggregate before its first event: 1 in the code
    MaxVersion,     \* bound on the version of an aggregate
    MaxBatch,       \* bound on its uncommitted events
    MaxFaults       \* bound on crashed clients and failed database calls

ASSUME NoAggregateAssumption == NoAggregate \notin Aggregates
ASSUME ExistingAssumption == Existing \subseteq Aggregates
ASSUME NewVersionAssumption == NewVersion \in Nat
ASSUME BoundsAssumption ==
    MaxVersion \in Nat \ {0} /\ MaxBatch \in Nat \ {0} /\ MaxFaults \in Nat

VARIABLES
    stored,     \* domain_events: per aggregate, the committed rows by version
    pc,         \* where a client stands
    agg,        \* the id of the aggregate it has in memory
    version,    \* that aggregate's version, uncommitted events included
    events,     \* how many uncommitted events it has
    done,       \* rows its open transaction has inserted
    faults      \* crashes and failed database calls so far

vars == <<stored, pc, agg, version, events, done, faults>>

\* The version below the uncommitted events, and the versions a transaction has inserted.
Base(c) == version[c] - events[c]
Inserted(c) == Base(c) + 1 .. Base(c) + done[c]

\* A row is known by who saved it, the version it was decided on, and the size of the save.
Row == [by : Clients, basis : Nat, size : Nat]
Rows(c) == [by |-> c, basis |-> Base(c), size |-> events[c]]

\* Types of the table and the clients.
TypeOK ==
    /\ stored = [a \in Aggregates |-> stored[a]]
    /\ \A a \in Aggregates : /\ DOMAIN stored[a] \subseteq 1 .. MaxVersion
                            /\ stored[a] \in [DOMAIN stored[a] -> Row]
    /\ pc \in [Clients -> {"idle", "memory", "inserting", "refused", "failed"}]
    /\ agg \in [Clients -> Aggregates \cup {NoAggregate}]
    /\ version \in [Clients -> 0 .. MaxVersion]
    /\ events \in [Clients -> 0 .. MaxBatch]
    /\ done \in [Clients -> 0 .. MaxBatch]
    /\ faults \in 0 .. MaxFaults

Init ==
    /\ \E c \in Clients :
          stored = [a \in Aggregates |->
                       IF a \in Existing THEN [v \in 1 .. 1 |-> [by |-> c, basis |-> 0, size |-> 1]]
                       ELSE [v \in 1 .. 0 |-> {}]]
    /\ pc = [c \in Clients |-> "idle"]
    /\ agg = [c \in Clients |-> NoAggregate]
    /\ version = [c \in Clients |-> 0]
    /\ events = [c \in Clients |-> 0]
    /\ done = [c \in Clients |-> 0]
    /\ faults = 0

----------------------------------------------------------------------------
(* The aggregate in memory.                                                *)

\* COALESCE(MAX(version), 0) over the committed rows.
LastVersion(a) ==
    IF DOMAIN stored[a] = {} THEN 0
    ELSE CHOOSE m \in DOMAIN stored[a] : \A v \in DOMAIN stored[a] : v <= m

Holds(c, a, ver, n) ==
    /\ pc' = [pc EXCEPT ![c] = "memory"]
    /\ agg' = [agg EXCEPT ![c] = a]
    /\ version' = [version EXCEPT ![c] = ver]
    /\ events' = [events EXCEPT ![c] = n]
    /\ UNCHANGED <<stored, done, faults>>

\* A new aggregate has a new id, and raises its first event at once.
NewAggregate(c, a) ==
    /\ pc[c] = "idle"
    /\ DOMAIN stored[a] = {} /\ \A d \in Clients : agg[d] # a
    /\ NewVersion < MaxVersion
    /\ Holds(c, a, NewVersion + 1, 1)

\* GetByID: one SELECT, then LoadFromHistory.
GetByID(c, a) ==
    /\ pc[c] = "idle"
    /\ DOMAIN stored[a] # {}
    /\ Holds(c, a, LastVersion(a), 0)

RaiseEvent(c) ==
    /\ pc[c] = "memory"
    /\ version[c] < MaxVersion /\ events[c] < MaxBatch
    /\ version' = [version EXCEPT ![c] = @ + 1]
    /\ events' = [events EXCEPT ![c] = @ + 1]
    /\ UNCHANGED <<stored, pc, agg, done, faults>>

Forgets(c) ==
    /\ pc' = [pc EXCEPT ![c] = "idle"]
    /\ agg' = [agg EXCEPT ![c] = NoAggregate]
    /\ version' = [version EXCEPT ![c] = 0]
    /\ events' = [events EXCEPT ![c] = 0]
    /\ done' = [done EXCEPT ![c] = 0]
    /\ UNCHANGED stored

\* The request ends, or tries the same Save again.
Drop(c) ==
    /\ pc[c] \in {"memory", "refused", "failed"}
    /\ Forgets(c) /\ UNCHANGED faults

Retry(c) ==
    /\ pc[c] \in {"refused", "failed"}
    /\ pc' = [pc EXCEPT ![c] = "memory"]
    /\ UNCHANGED <<stored, agg, version, events, done, faults>>

\* The client's process dies, and with it the open transaction.
ClientLost(c) ==
    /\ pc[c] # "idle"
    /\ faults < MaxFaults /\ faults' = faults + 1
    /\ Forgets(c)

----------------------------------------------------------------------------
(* Save and SaveEvents.                                                    *)

\* Mutant: the first uncommitted event's own version is expected.
ExpectedVersionOffByOne(c) == version[c] - events[c] + 1

\* What Save computes as expectedVersion.
ExpectedVersion(c) == version[c] - events[c]

\* Save with events: BEGIN and the optimistic check.
BeginSave(c) ==
    /\ pc[c] = "memory" /\ events[c] > 0
    /\ pc' = [pc EXCEPT ![c] =
                 IF LastVersion(agg[c]) = ExpectedVersion(c) THEN "inserting" ELSE "refused"]
    /\ UNCHANGED <<stored, agg, version, events, done, faults>>

\* Mutant: the unique index is missing, or its violation ignored.
TakenNever(c, v) == FALSE

Taken(c, v) == v \in DOMAIN stored[agg[c]]

\* An uncommitted row of the same key makes the INSERT wait.
Waits(c, v) == \E d \in Clients \ {c} : pc[d] = "inserting" /\ agg[d] = agg[c] /\ v \in Inserted(d)

\* Mutant: the loop runs once too often.
MoreEventsOffByOne(c) == done[c] <= events[c]

MoreEvents(c) == done[c] < events[c]

\* INSERT of the next event.
InsertEvent(c) ==
    LET v == Base(c) + done[c] + 1
    IN  /\ pc[c] = "inserting" /\ MoreEvents(c)
        /\ ~Taken(c, v) /\ ~Waits(c, v)
        /\ done' = [done EXCEPT ![c] = @ + 1]
        /\ UNCHANGED <<stored, pc, agg, version, events, faults>>

\* The deferred Rollback after an error: the uncommitted events stay in memory.
RollsBack(c, outcome) ==
    /\ pc' = [pc EXCEPT ![c] = outcome]
    /\ done' = [done EXCEPT ![c] = 0]
    /\ UNCHANGED <<agg, version, events>>

\* Mutant: the violation is not returned to the caller.
InsertRefusedNever(c) == FALSE /\ UNCHANGED vars

\* INSERT of the next event violates the unique constraint.
InsertRefused(c) ==
    /\ pc[c] = "inserting" /\ MoreEvents(c)
    /\ Taken(c, Base(c) + done[c] + 1)
    /\ RollsBack(c, "refused")
    /\ UNCHANGED <<stored, faults>>

\* The inserted rows become visible.
Committed(c) ==
    [stored EXCEPT ![agg[c]] =
        [v \in DOMAIN @ \cup Inserted(c) |-> IF v \in Inserted(c) THEN Rows(c) ELSE @[v]]]

\* COMMIT; Save clears the uncommitted events when SaveEvents returned nil.
Commit(c) ==
    /\ pc[c] = "inserting" /\ ~MoreEvents(c)
    /\ stored' = Committed(c)
    /\ pc' = [pc EXCEPT ![c] = "memory"]
    /\ events' = [events EXCEPT ![c] = 0]
    /\ done' = [done EXCEPT ![c] = 0]
    /\ UNCHANGED <<agg, version, faults>>

\* Mutant: the uncommitted events are cleared whatever SaveEvents returned.
CallFailsClears(c) ==
    /\ pc[c] = "inserting"
    /\ faults < MaxFaults /\ faults' = faults + 1
    /\ pc' = [pc EXCEPT ![c] = "failed"]
    /\ done' = [done EXCEPT ![c] = 0]
    /\ events' = [events EXCEPT ![c] = 0]
    /\ UNCHANGED <<stored, agg, version>>

\* Mutant: no transaction, the rows inserted before the failure stay.
CallFailsKeepsRows(c) ==
    /\ pc[c] = "inserting"
    /\ faults < MaxFaults /\ faults' = faults + 1
    /\ RollsBack(c, "failed")
    /\ stored' = Committed(c)

\* A statement fails, or the answer of COMMIT is lost after it took effect.
CallFails(c) ==
    /\ pc[c] = "inserting"
    /\ faults < MaxFaults /\ faults' = faults + 1
    /\ RollsBack(c, "failed")
    /\ \/ UNCHANGED stored
       \/ ~MoreEvents(c) /\ stored' = Committed(c)

SaveStep(c) == InsertEvent(c) \/ InsertRefused(c) \/ Commit(c)

ClientStep(c) ==
    \/ \E a \in Aggregates : NewAggregate(c, a) \/ GetByID(c, a)
    \/ RaiseEvent(c)
    \/ Drop(c)
    \/ Retry(c)
    \/ ClientLost(c)
    \/ BeginSave(c)
    \/ SaveStep(c)
    \/ CallFails(c)

Next == \E c \in Clients : ClientStep(c)

Spec == Init /\ [][Next]_vars

\* Fairness: a statement whose lock is free is executed.
FairSpec == Spec /\ \A c \in Clients : WF_vars(SaveStep(c))

----------------------------------------------------------------------------
(* Properties.                                                             *)

\* No lost update: the versions are 1, 2, ... without a hole, and all that lies
\* between the version an event was decided on and the event was saved with it.
NoLostUpdate ==
    \A a \in Aggregates :
        /\ DOMAIN stored[a] = 1 .. LastVersion(a)
        /\ \A v \in DOMAIN stored[a] :
              /\ stored[a][v].basis < v
              /\ \A u \in stored[a][v].basis + 1 .. v : stored[a][u] = stored[a][v]

\* A new aggregate counts from NewVersion, and an empty stream from 0: where the two differ,
\* the aggregate is never stored.
NeverStored(c) ==
    NewVersion # 0 /\ Base(c) = NewVersion /\ DOMAIN stored[agg[c]] = {}

\* A save is refused only if the log has grown past the version the aggregate in
\* memory was read at or last saved at, or is that of a new aggregate that does not start
\* where the store begins to count: no other conflict is spurious.
ConflictIsReal ==
    \A c \in Clients : pc[c] = "refused" => LastVersion(agg[c]) > Base(c) \/ NeverStored(c)

\* What an aggregate in memory takes for committed is in the table: it was loaded
\* from there, or Save returned nil for it. Only a new aggregate that cannot be stored
\* takes its starting version for committed.
MemoryIsStored ==
    \A c \in Clients :
        pc[c] # "idle" => 1 .. Base(c) \subseteq DOMAIN stored[agg[c]] \/ NeverStored(c)

\* Save persists an aggregate: nobody is refused whose aggregate nobody has stored.
FirstSavePasses ==
    \A c \in Clients : pc[c] = "refused" => DOMAIN stored[agg[c]] # {}

\* A save returns: two of them never wait for each other's rows.
SaveReturns == \A c \in Clients : pc[c] = "inserting" ~> pc[c] # "inserting"

\* A save is stored whole or not at all, and has seen all that precedes it, whatever
\* runs beside it and wherever it fails.
Log == INSTANCE EventLog WITH log <- stored

ImplementsLog == Log!Spec
=============================================================================
