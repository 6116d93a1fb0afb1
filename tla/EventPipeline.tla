--------------------------- MODULE EventPipeline ---------------------------
(***************************************************************************)
(* From the event store to the read model: the EventProcessor goroutines of  *)
(* pkg/eventprocessor, the in-memory bus of pkg/eventbus and the             *)
(* UserProjectionHandler of pkg/eventhandlers, for the events of one user.   *)
(*                                                                         *)
(* A processor fetches unprocessed events, publishes them one by one - the   *)
(* bus calls the handler synchronously, and its SQL statements run between   *)
(* those of other processors - and then marks the batch processed.  Events   *)
(* of other users only fill up batches: of this user's events a fetch may    *)
(* return fewer.  Saves are atomic appends, as EventStore implements them.   *)
(***************************************************************************)
EXTENDS Integers, Sequences, FiniteSets

CONSTANTS
    Processors,     \* running processors, one per service instance
    Kinds,          \* what may happen to the user once registered
    MaxEvents,      \* bound on the user's events
    BatchSize,      \* events a fetch returns at most
    Ties,           \* two events of one save may get the same occurred_at
    Replayers,      \* callers of ProcessEventsByType, beside the processors
    MaxFaults       \* bound on failed statements and crashed processors

ASSUME KindsAssumption == Kinds \subseteq {"activated", "deactivated", "role_changed", "updated"}
ASSUME BoundsAssumption ==
    MaxEvents \in Nat /\ BatchSize \in Nat \ {0} /\ MaxFaults \in Nat
    /\ Ties \in BOOLEAN

VARIABLES
    log,        \* the user's events: kind, and occurred_at as the database orders it
    processed,  \* events with processed = true
    row,        \* the user_projections row
    pc,         \* where a processor stands
    todo,       \* events of its batch it has not published
    batch,      \* successfulEventIDs
    marks,      \* it will mark the batch: a poll, not a replay
    reading,    \* a role change between its SELECT and its UPDATE, and what it read
    ahead,      \* history: events a replay took before a poll processed them
    handled,    \* history: events some handler call returned nil for
    erred,      \* history: events some handler call returned an error for
    faults      \* failed statements and crashes so far

Readers == Processors \cup Replayers
procVars == <<pc, todo, batch, marks, reading>>
vars == <<log, processed, row, procVars, ahead, handled, erred, faults>>

Versions == 1 .. Len(log)
Kind(v) == log[v].kind
StatusKinds == {"registered", "activated", "deactivated"}

\* The latest event that sets the status, and all events that set roles, up to v.
LastStatus(v) ==
    CHOOSE u \in 1 .. v : /\ Kind(u) \in StatusKinds
                          /\ \A t \in u + 1 .. v : Kind(t) \notin StatusKinds
RoleChanges(v) == {u \in 1 .. v : Kind(u) = "role_changed"}

(***************************************************************************)
(* A row is abstracted to the events its columns show: the event that wrote  *)
(* status and is_active, and the role changes in roles.  version is          *)
(* event_version, 0 while there is no row.                                  *)
(***************************************************************************)
NoRow == [version |-> 0, status |-> 0, roles |-> {}]
NotReading == [event |-> 0, roles |-> {}]

\* Types of the log, the row and the processors.
TypeOK ==
    /\ Len(log) <= MaxEvents
    /\ \A v \in Versions : log[v] \in [kind : Kinds \cup {"registered"}, at : 1 .. MaxEvents]
    /\ processed \subseteq Versions
    /\ row \in [version : 0 .. Len(log), status : 0 .. Len(log), roles : SUBSET Versions]
    /\ pc \in [Readers -> {"idle", "publishing", "changing_role"}]
    /\ \A p \in Readers : /\ todo[p] \subseteq Versions /\ batch[p] \subseteq Versions
                          /\ reading[p].event \in 0 .. Len(log)
                          /\ reading[p].roles \subseteq Versions
    /\ marks \in [Readers -> BOOLEAN]
    /\ ahead \subseteq Versions /\ handled \subseteq Versions /\ erred \subseteq Versions
    /\ faults \in 0 .. MaxFaults

Init ==
    /\ log = <<>>
    /\ processed = {}
    /\ row = NoRow
    /\ pc = [p \in Readers |-> "idle"]
    /\ todo = [p \in Readers |-> {}]
    /\ batch = [p \in Readers |-> {}]
    /\ marks = [p \in Readers |-> FALSE]
    /\ reading = [p \in Readers |-> NotReading]
    /\ ahead = {} /\ handled = {} /\ erred = {}
    /\ faults = 0

----------------------------------------------------------------------------
(* The writing side.                                                       *)

\* What the aggregate lets happen next: roles and profile of an active user only.
Allowed(l, k) ==
    LET statuses == {v \in 1 .. Len(l) : l[v].kind \in StatusKinds}
        status == l[CHOOSE v \in statuses : \A u \in statuses : u <= v].kind
    IN  IF l = <<>> THEN k = "registered"
        ELSE /\ k \in Kinds
             /\ IF k \in StatusKinds THEN k # status ELSE status = "activated"

Raised(l, k, tie) ==
    LET last == IF l = <<>> THEN 0 ELSE l[Len(l)].at
    IN  Append(l, [kind |-> k, at |-> IF tie THEN last ELSE last + 1])

\* A command raises one event or two and saves them.
Save ==
    /\ \E k \in Kinds \cup {"registered"} :
          /\ Allowed(log, k)
          /\ \/ log' = Raised(log, k, FALSE)
             \/ \E j \in Kinds, tie \in {FALSE, Ties} :
                   /\ Allowed(Raised(log, k, FALSE), j)
                   /\ log' = Raised(Raised(log, k, FALSE), j, tie)
    /\ Len(log') <= MaxEvents
    /\ UNCHANGED <<processed, row, procVars, ahead, handled, erred, faults>>

----------------------------------------------------------------------------
(* Fetching.                                                               *)

\* Those of S that ORDER BY occurred_at ASC may put first.
Earliest(S) == {v \in S : \A u \in S : log[v].at <= log[u].at}

Unprocessed == Versions \ processed

Begins(p, S, m) ==
    /\ pc[p] = "idle"
    /\ pc' = [pc EXCEPT ![p] = "publishing"]
    /\ todo' = [todo EXCEPT ![p] = S]
    /\ marks' = [marks EXCEPT ![p] = m]
    /\ ahead' = IF m THEN ahead ELSE ahead \cup (S \ processed)
    /\ UNCHANGED <<log, processed, row, batch, reading, handled, erred, faults>>

\* processBatch: GetUnprocessedEvents.
GetUnprocessedEvents(p) ==
    \E S \in SUBSET Unprocessed \ {{}} :
        /\ Cardinality(S) <= BatchSize
        /\ \A v \in S, u \in Unprocessed \ S : log[v].at <= log[u].at
        /\ Begins(p, S, TRUE)

\* ProcessEventsByType: all events of a type in a time range, processed or not.
ProcessEventsByType(p) ==
    \E k \in Kinds \cup {"registered"}, from, to \in 1 .. MaxEvents :
        LET S == {v \in Versions : Kind(v) = k /\ log[v].at \in from .. to}
        IN  S # {} /\ Begins(p, S, FALSE)

----------------------------------------------------------------------------
(* Publishing: UserProjectionHandler's statements.                          *)

\* Mutant: the bus returns the handler's error.
SucceedsForBusIfHandled(ok) == ok

\* InMemoryEventBus.Publish logs a handler's error and returns nil.
SucceedsForBus(ok) == TRUE

\* The handler call for v ends; processBatch goes on with the next event.
Published(p, v, ok) ==
    /\ todo' = [todo EXCEPT ![p] = @ \ {v}]
    /\ batch' = IF SucceedsForBus(ok) THEN [batch EXCEPT ![p] = @ \cup {v}] ELSE batch
    /\ UNCHANGED ahead
    /\ IF ok THEN handled' = handled \cup {v} /\ UNCHANGED erred
             ELSE erred' = erred \cup {v} /\ UNCHANGED handled

Publishes(p, v) == pc[p] = "publishing" /\ v \in Earliest(todo[p])

\* INSERT ... ON CONFLICT (id) DO UPDATE ... WHERE event_version is smaller.
HandleUserRegistered(p, v) ==
    /\ Publishes(p, v) /\ Kind(v) = "registered"
    /\ row' = IF row.version = 0
              THEN [version |-> v, status |-> v, roles |-> {}]
              ELSE IF row.version < v THEN [row EXCEPT !.version = v] ELSE row
    /\ Published(p, v, TRUE)
    /\ UNCHANGED <<log, processed, pc, marks, reading, faults>>

\* Mutant: event_version counts the updates.
StatusWrittenCounts(v) ==
    IF row.version > 0 THEN [row EXCEPT !.version = @ + 1, !.status = v] ELSE row

\* Mutant: the UPDATE does not compare versions.
StatusWrittenAnyVersion(v) ==
    IF row.version > 0 THEN [row EXCEPT !.version = v, !.status = v] ELSE row

\* An UPDATE that finds no row, or a newer one, changes nothing and is no error.
StatusWritten(v) ==
    IF row.version \in 1 .. v - 1 THEN [row EXCEPT !.version = v, !.status = v] ELSE row

HandleStatusChange(p, v) ==
    /\ Publishes(p, v) /\ Kind(v) \in {"activated", "deactivated"}
    /\ row' = StatusWritten(v)
    /\ Published(p, v, TRUE)
    /\ UNCHANGED <<log, processed, pc, marks, reading, faults>>

\* The SET list is built with %s of a slice: the statement does not parse.
HandleUserUpdated(p, v) ==
    /\ Publishes(p, v) /\ Kind(v) = "updated"
    /\ Published(p, v, FALSE)
    /\ UNCHANGED <<log, processed, row, pc, marks, reading, faults>>

\* SELECT roles: an error without a row.
GetRoles(p, v) ==
    /\ Publishes(p, v) /\ Kind(v) = "role_changed"
    /\ IF row.version = 0
       THEN Published(p, v, FALSE) /\ UNCHANGED <<pc, reading>>
       ELSE /\ pc' = [pc EXCEPT ![p] = "changing_role"]
            /\ reading' = [reading EXCEPT ![p] = [event |-> v, roles |-> row.roles]]
            /\ UNCHANGED <<todo, batch, ahead, handled, erred>>
    /\ UNCHANGED <<log, processed, row, marks, faults>>

\* Mutant: the UPDATE does not compare versions.
RolesWrittenAnyVersion(v, roles) == [row EXCEPT !.version = v, !.roles = roles]

RolesWritten(v, roles) ==
    IF row.version < v THEN [row EXCEPT !.version = v, !.roles = roles] ELSE row

UpdateRoles(p) ==
    LET v == reading[p].event
    IN  /\ pc[p] = "changing_role"
        /\ row' = RolesWritten(v, reading[p].roles \cup {v})
        /\ Published(p, v, TRUE)
        /\ pc' = [pc EXCEPT ![p] = "publishing"]
        /\ reading' = [reading EXCEPT ![p] = NotReading]
        /\ UNCHANGED <<log, processed, marks, faults>>

\* A statement of the handler fails.
HandlerFails(p, v) ==
    /\ \/ Publishes(p, v) /\ Kind(v) # "updated"
       \/ pc[p] = "changing_role" /\ v = reading[p].event
    /\ faults < MaxFaults /\ faults' = faults + 1
    /\ Published(p, v, FALSE)
    /\ pc' = [pc EXCEPT ![p] = "publishing"]
    /\ reading' = [reading EXCEPT ![p] = NotReading]
    /\ UNCHANGED <<log, processed, row, marks>>

----------------------------------------------------------------------------
(* Recording.                                                              *)

Ends(p) ==
    /\ pc' = [pc EXCEPT ![p] = "idle"]
    /\ todo' = [todo EXCEPT ![p] = {}]
    /\ batch' = [batch EXCEPT ![p] = {}]
    /\ marks' = [marks EXCEPT ![p] = FALSE]
    /\ reading' = [reading EXCEPT ![p] = NotReading]
    /\ UNCHANGED <<log, row, ahead, handled, erred>>

\* Mutant: the batch is marked before it is published.
MarksEarly(p) ==
    /\ pc[p] = "publishing"
    /\ processed' = IF marks[p] THEN processed \cup todo[p] \cup batch[p] ELSE processed
    /\ IF todo[p] = {} THEN Ends(p)
       ELSE UNCHANGED <<log, row, ahead, handled, erred, procVars>>
    /\ UNCHANGED faults

\* MarkEventsAsProcessed, or the end of a replay, which marks nothing.
MarkEventsAsProcessed(p) ==
    /\ pc[p] = "publishing" /\ todo[p] = {}
    /\ processed' = IF marks[p] THEN processed \cup batch[p] ELSE processed
    /\ Ends(p)
    /\ UNCHANGED faults

\* MarkEventsAsProcessed fails, or the process dies anywhere in the batch.
Interrupted(p) ==
    /\ pc[p] # "idle"
    /\ faults < MaxFaults /\ faults' = faults + 1
    /\ Ends(p)
    /\ UNCHANGED processed

Reads(p) ==
    \/ \E v \in Versions : \/ HandleUserRegistered(p, v)
                           \/ HandleStatusChange(p, v)
                           \/ HandleUserUpdated(p, v)
                           \/ GetRoles(p, v)
    \/ UpdateRoles(p)
    \/ MarkEventsAsProcessed(p)

Next ==
    \/ Save
    \/ \E p \in Processors : GetUnprocessedEvents(p)
    \/ \E p \in Replayers : ProcessEventsByType(p)
    \/ \E p \in Readers :
          \/ Reads(p)
          \/ \E v \in Versions : HandlerFails(p, v)
          \/ Interrupted(p)

Spec == Init /\ [][Next]_vars

\* Fairness: a started processor polls, and its calls return.
FairSpec == Spec /\ \A p \in Processors : WF_vars(GetUnprocessedEvents(p) \/ Reads(p))

----------------------------------------------------------------------------
(* Properties.                                                             *)

\* What the version guards cannot make good: a failed statement, two events with the
\* same occurred_at, a replay that publishes an event before the polls got to it.
NothingFailed == \A v \in erred : Kind(v) = "updated"
DistinctTimes == \A u, v \in Versions : log[u].at = log[v].at => u = v
ReplaysProcessedOnly == ahead = {}

\* Status and roles of the row are those of the user as of event_version, however the
\* statements of processors and replays interleave.
ProjectionAgrees ==
    NothingFailed /\ DistinctTimes /\ ReplaysProcessedOnly /\ row.version > 0 =>
        row.status = LastStatus(row.version) /\ row.roles = RoleChanges(row.version)

\* No event is marked processed before the row has caught up with it, whatever is
\* replayed meanwhile.
ProcessedIsReflected ==
    NothingFailed /\ DistinctTimes =>
        \A v \in processed : Kind(v) # "updated" => row.version >= v

\* Every stored event is processed in the end: one that cannot be handled does not
\* hold up those behind it.
EventuallyProcessed ==
    \A v \in 1 .. MaxEvents : [](v \in Versions => <>(v \in processed))

\* An event whose handling failed is kept for another try.
FailedIsRetried == processed \subseteq handled
============================================================================
