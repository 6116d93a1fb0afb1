------------------------ MODULE EventPipelineProofs ------------------------
(***************************************************************************)
(* Proofs about the event pipeline, for any numbers of processors, replays   *)
(* and events: types, and that the row of the read model agrees with the    *)
(* events marked processed, however the processors' statements interleave.  *)
(* And about the workflow orchestrator, which TLC explores beside it: its   *)
(* limit, and what a workflow's status says.                                *)
(***************************************************************************)
EXTENDS EventPipeline, WorkflowOrchestrator, FiniteSetTheorems, SequenceTheorems, TLAPS

(***************************************************************************)
(* The log.                                                                *)
(***************************************************************************)
Entry == [kind : Kinds \cup {"registered"}, at : Nat]

\* The user is registered by the first event and no other, and occurred_at never
\* decreases.
LogShape(l) ==
    /\ l \in Seq(Entry)
    /\ \A v \in 1 .. Len(l) : /\ l[v].kind \in Kinds \cup {"registered"}
                              /\ l[v].kind = "registered" <=> v = 1
                              /\ l[v].at \in 1 .. v
    /\ \A u, v \in 1 .. Len(l) : u <= v => l[u].at <= l[v].at

\* An event the aggregate allows keeps the log in shape.
LEMMA RaisedShape ==
    ASSUME NEW l, LogShape(l), NEW k \in Kinds \cup {"registered"}, Allowed(l, k),
           NEW tie \in BOOLEAN, l = <<>> => ~tie
    PROVE  /\ LogShape(Raised(l, k, tie))
           /\ Len(Raised(l, k, tie)) = Len(l) + 1
           /\ \A v \in 1 .. Len(l) : Raised(l, k, tie)[v] = l[v]
<1> DEFINE last == IF l = <<>> THEN 0 ELSE l[Len(l)].at
           x == [kind |-> k, at |-> IF tie THEN last ELSE last + 1]
           r == Append(l, x)
<1>1. l \in Seq(Entry) /\ Len(l) \in Nat
  BY DEF LogShape
<1>2. l # <<>> => Len(l) >= 1 /\ Len(l) \in 1 .. Len(l)
  BY <1>1
<1>3. l = <<>> => Len(l) = 0
  OBVIOUS
<1>4. last \in 0 .. Len(l) /\ (l # <<>> => last >= 1)
  BY <1>1, <1>2, <1>3 DEF LogShape
<1>5. k = "registered" <=> l = <<>>
  BY KindsAssumption DEF Allowed
<1>6. x.kind = k /\ x.at \in 1 .. Len(l) + 1 /\ x.at >= last /\ x \in Entry
  BY <1>1, <1>4 DEF Entry
<1>7. \A v \in 1 .. Len(l) : l[v].at <= last
  BY <1>1, <1>2, <1>3 DEF LogShape
<1> HIDE DEF x, last
<1>8. /\ r \in Seq(Entry) /\ Len(r) = Len(l) + 1
      /\ \A v \in 1 .. Len(l) : r[v] = l[v]
      /\ r[Len(l) + 1] = x
  BY <1>1, <1>6
<1>9. Raised(l, k, tie) = r
  BY DEF Raised, x, last
<1> HIDE DEF r
<1>10. \A v \in 1 .. Len(r) : /\ r[v].kind \in Kinds \cup {"registered"}
                              /\ r[v].kind = "registered" <=> v = 1
                              /\ r[v].at \in 1 .. v
  <2> SUFFICES ASSUME NEW v \in 1 .. Len(r)
               PROVE  /\ r[v].kind \in Kinds \cup {"registered"}
                      /\ r[v].kind = "registered" <=> v = 1
                      /\ r[v].at \in 1 .. v
    OBVIOUS
  <2>1. CASE v \in 1 .. Len(l)
    BY <1>8, <2>1 DEF LogShape
  <2>2. CASE v = Len(l) + 1
    BY <1>1, <1>2, <1>3, <1>5, <1>6, <1>8, <2>2
  <2> QED BY <1>1, <1>8, <2>1, <2>2
<1>11. \A u, v \in 1 .. Len(r) : u <= v => r[u].at <= r[v].at
  <2> SUFFICES ASSUME NEW u \in 1 .. Len(r), NEW v \in 1 .. Len(r), u <= v
               PROVE  r[u].at <= r[v].at
    OBVIOUS
  <2>1. CASE v \in 1 .. Len(l)
    <3>1. u \in 1 .. Len(l)
      BY <1>1, <2>1
    <3> QED BY <1>8, <2>1, <3>1 DEF LogShape
  <2>2. CASE v = Len(l) + 1 /\ u \in 1 .. Len(l)
    <3>1. l[u].at <= last /\ l[u].at \in Nat /\ last \in Nat
      BY <1>4, <1>7, <2>2 DEF LogShape
    <3> QED BY <1>6, <1>8, <2>2, <3>1
  <2>3. CASE v = Len(l) + 1 /\ u = v
    BY <1>6, <1>8, <2>3
  <2> QED BY <1>1, <1>8, <2>1, <2>2, <2>3
<1> QED BY <1>8, <1>9, <1>10, <1>11 DEF LogShape

\* A save appends: it keeps the shape and every event that was there.
LEMMA SaveAppends ==
    ASSUME LogShape(log), Save
    PROVE  /\ LogShape(log')
           /\ Len(log) \in Nat /\ Len(log') \in Nat
           /\ Len(log) <= Len(log') /\ Len(log') <= MaxEvents
           /\ \A v \in Versions : log'[v] = log[v]
<1>1. Len(log) \in Nat
  BY DEF LogShape
<1>2. PICK k \in Kinds \cup {"registered"} :
         /\ Allowed(log, k)
         /\ \/ log' = Raised(log, k, FALSE)
            \/ \E j \in Kinds, tie \in {FALSE, Ties} :
                  /\ Allowed(Raised(log, k, FALSE), j)
                  /\ log' = Raised(Raised(log, k, FALSE), j, tie)
  BY DEF Save
<1> DEFINE one == Raised(log, k, FALSE)
<1>3. /\ LogShape(one) /\ Len(one) = Len(log) + 1
      /\ \A v \in 1 .. Len(log) : one[v] = log[v]
  BY <1>2, RaisedShape
<1> HIDE DEF one
<1>4. Len(log') <= MaxEvents
  BY DEF Save
<1>5. CASE log' = one
  BY <1>1, <1>3, <1>4, <1>5 DEF Versions
<1>6. ASSUME NEW j \in Kinds, NEW tie \in {FALSE, Ties},
             Allowed(one, j), log' = Raised(one, j, tie)
      PROVE  /\ LogShape(log') /\ Len(log') = Len(log) + 2
             /\ \A v \in 1 .. Len(log) : log'[v] = log[v]
  <2>1. one # <<>> /\ tie \in BOOLEAN
    <3>1. Len(one) # 0
      BY <1>1, <1>3
    <3>2. Len(<<>>) = 0
      OBVIOUS
    <3>3. tie \in BOOLEAN
      BY BoundsAssumption
    <3> QED BY <3>1, <3>2, <3>3
  <2>2. /\ LogShape(log') /\ Len(log') = Len(one) + 1
        /\ \A v \in 1 .. Len(one) : log'[v] = one[v]
    BY <1>3, <1>6, <2>1, RaisedShape
  <2> QED BY <1>1, <1>3, <2>2
<1>7. \/ log' = one
      \/ \E j \in Kinds, tie \in {FALSE, Ties} : Allowed(one, j) /\ log' = Raised(one, j, tie)
  BY <1>2 DEF one
<1>8. CASE log' # one
  <2>1. /\ LogShape(log') /\ Len(log') = Len(log) + 2
        /\ \A v \in 1 .. Len(log) : log'[v] = log[v]
    BY <1>6, <1>7, <1>8
  <2> QED BY <1>1, <1>4, <2>1 DEF Versions
<1> QED BY <1>5, <1>8

(***************************************************************************)
(* Types, with the shape of the log and of the readers' bookkeeping, and     *)
(* where a reader stands: what it reads for a role change is the event it    *)
(* is publishing.                                                          *)
(***************************************************************************)
ReadersOK ==
    /\ todo \in [Readers -> SUBSET Nat]
    /\ batch \in [Readers -> SUBSET Nat]
    /\ reading \in [Readers -> [event : Nat, roles : SUBSET Nat]]
    /\ \A p \in Readers :
          /\ pc[p] = "idle" => todo[p] = {} /\ batch[p] = {}
          /\ pc[p] = "changing_role" =>
                reading[p].event \in Earliest(todo[p]) /\ Kind(reading[p].event) = "role_changed"

PipelineTypes == TypeOK /\ LogShape(log) /\ ReadersOK

(***************************************************************************)
(* The kinds of steps.  A handler call ends with Answers: the reader goes on *)
(* with its next event.                                                    *)
(***************************************************************************)
Answers(p, v, ok) ==
    /\ pc[p] # "idle" /\ v \in Earliest(todo[p])
    /\ Published(p, v, ok)
    /\ pc' = [pc EXCEPT ![p] = "publishing"]
    /\ reading' \in {reading, [reading EXCEPT ![p] = NotReading]}
    /\ UNCHANGED <<log, processed, marks>>

\* A handler call without an error leaves one of these rows.
HandledRow(p, v) ==
    \/ /\ Kind(v) = "registered"
       /\ row' = IF row.version = 0
                 THEN [version |-> v, status |-> v, roles |-> {}]
                 ELSE IF row.version < v THEN [row EXCEPT !.version = v] ELSE row
    \/ Kind(v) \in {"activated", "deactivated"} /\ row' = StatusWritten(v)
    \/ /\ Kind(v) = "role_changed" /\ pc[p] = "changing_role" /\ v = reading[p].event
       /\ row' = RolesWritten(v, reading[p].roles \cup {v})

Answer(p, v) ==
    /\ faults' \in 0 .. MaxFaults
    /\ \/ Answers(p, v, TRUE) /\ HandledRow(p, v)
       \/ Answers(p, v, FALSE) /\ row' = row

\* The SELECT of a role change that finds the row.
ReadsRoles(p, v) ==
    /\ pc[p] = "publishing" /\ v \in Earliest(todo[p])
    /\ Kind(v) = "role_changed" /\ row.version # 0
    /\ pc' = [pc EXCEPT ![p] = "changing_role"]
    /\ reading' = [reading EXCEPT ![p] = [event |-> v, roles |-> row.roles]]
    /\ UNCHANGED <<log, processed, row, todo, batch, marks, ahead, handled, erred, faults>>

\* A batch ends: marked, left as it is, or interrupted.
BatchEnds(p) ==
    /\ pc[p] # "idle"
    /\ \/ processed' = processed
       \/ marks[p] /\ todo[p] = {} /\ processed' = processed \cup batch[p]
    /\ faults' \in 0 .. MaxFaults
    /\ Ends(p)

\* Every step is a save, a fetch, or a step of a reader of one of these three kinds.
LEMMA PipelineSteps ==
    ASSUME PipelineTypes, [Next]_vars
    PROVE  \/ Save
           \/ \E p \in Readers, S \in SUBSET Versions, m \in BOOLEAN :
                 /\ Begins(p, S, m)
                 /\ m => /\ S \subseteq Unprocessed
                         /\ \A v \in S, u \in Unprocessed \ S : log[v].at <= log[u].at
           \/ \E p \in Readers, v \in Versions : Answer(p, v) \/ ReadsRoles(p, v)
           \/ \E p \in Readers : BatchEnds(p)
           \/ UNCHANGED vars
<1> USE DEF PipelineTypes
<1>1. ASSUME NEW p \in Processors, GetUnprocessedEvents(p)
      PROVE  \E S \in SUBSET Versions :
                /\ Begins(p, S, TRUE) /\ S \subseteq Unprocessed
                /\ \A v \in S, u \in Unprocessed \ S : log[v].at <= log[u].at
  BY <1>1 DEF GetUnprocessedEvents, Unprocessed
<1>2. ASSUME NEW p \in Replayers, ProcessEventsByType(p)
      PROVE  \E S \in SUBSET Versions : Begins(p, S, FALSE)
  BY <1>2 DEF ProcessEventsByType
<1>3. faults \in 0 .. MaxFaults /\ (faults < MaxFaults => faults + 1 \in 0 .. MaxFaults)
  BY BoundsAssumption DEF TypeOK
<1>4. ASSUME NEW p \in Readers, NEW v \in Versions,
             \/ HandleUserRegistered(p, v) \/ HandleStatusChange(p, v)
             \/ HandleUserUpdated(p, v) \/ GetRoles(p, v)
      PROVE  Answer(p, v) \/ ReadsRoles(p, v)
  <2>1. pc \in [Readers -> {"idle", "publishing", "changing_role"}]
    BY DEF TypeOK
  <2>2. pc[p] = "publishing" /\ v \in Earliest(todo[p])
    BY <1>4 DEF HandleUserRegistered, HandleStatusChange, HandleUserUpdated, GetRoles, Publishes
  <2>3. pc = [pc EXCEPT ![p] = "publishing"]
    BY <2>1, <2>2
  <2>4. CASE HandleUserRegistered(p, v)
    BY <1>3, <2>2, <2>3, <2>4 DEF HandleUserRegistered, Answer, Answers, HandledRow
  <2>5. CASE HandleStatusChange(p, v)
    BY <1>3, <2>2, <2>3, <2>5 DEF HandleStatusChange, Answer, Answers, HandledRow
  <2>6. CASE HandleUserUpdated(p, v)
    BY <1>3, <2>2, <2>3, <2>6 DEF HandleUserUpdated, Answer, Answers
  <2>7. CASE GetRoles(p, v) /\ row.version = 0
    BY <1>3, <2>2, <2>3, <2>7 DEF GetRoles, Publishes, Answer, Answers
  <2>8. CASE GetRoles(p, v) /\ row.version # 0
    BY <2>2, <2>8 DEF GetRoles, Publishes, ReadsRoles
  <2> QED BY <1>4, <2>4, <2>5, <2>6, <2>7, <2>8
<1>5. ASSUME NEW p \in Readers, UpdateRoles(p)
      PROVE  \E v \in Versions : Answer(p, v)
  <2> DEFINE v == reading[p].event
  <2>1. pc[p] = "changing_role" /\ v \in Earliest(todo[p]) /\ Kind(v) = "role_changed"
    BY <1>5 DEF UpdateRoles, ReadersOK
  <2>2. v \in Versions
    BY <2>1 DEF Earliest, TypeOK
  <2>3. Answers(p, v, TRUE) /\ HandledRow(p, v) /\ faults' = faults
    BY <1>5, <2>1 DEF UpdateRoles, Answers, HandledRow
  <2> QED BY <1>3, <2>2, <2>3 DEF Answer
<1>6. ASSUME NEW p \in Readers, NEW v \in Versions, HandlerFails(p, v)
      PROVE  Answer(p, v)
  <2>1. pc[p] # "idle" /\ v \in Earliest(todo[p])
    BY <1>6 DEF HandlerFails, Publishes, ReadersOK
  <2> QED BY <1>3, <1>6, <2>1 DEF HandlerFails, Answer, Answers
<1>7. ASSUME NEW p \in Readers, MarkEventsAsProcessed(p) \/ Interrupted(p)
      PROVE  BatchEnds(p)
  BY <1>3, <1>7 DEF MarkEventsAsProcessed, Interrupted, BatchEnds
<1> QED BY <1>1, <1>2, <1>4, <1>5, <1>6, <1>7 DEF Next, Reads, Readers
(***************************************************************************)
(* Type correctness.                                                       *)
(***************************************************************************)
\* A save keeps the types: what the readers know of are older events.
LEMMA SaveTypes ==
    ASSUME PipelineTypes, Save
    PROVE  PipelineTypes'
<1> USE DEF PipelineTypes
<1>1. /\ LogShape(log') /\ Len(log) \in Nat /\ Len(log') \in Nat
      /\ Len(log) <= Len(log') /\ Len(log') <= MaxEvents
      /\ \A v \in Versions : v \in Versions' /\ log'[v] = log[v]
  BY SaveAppends DEF Versions
<1>2. UNCHANGED <<processed, row, procVars, ahead, handled, erred, faults>>
  BY DEF Save
<1>3. \A v \in Versions' : log'[v] \in [kind : Kinds \cup {"registered"}, at : 1 .. MaxEvents]
  <2> SUFFICES ASSUME NEW v \in 1 .. Len(log')
               PROVE  log'[v] \in [kind : Kinds \cup {"registered"}, at : 1 .. MaxEvents]
    BY DEF Versions
  <2>1. log' \in Seq(Entry) /\ log'[v].at \in 1 .. v /\ log'[v].kind \in Kinds \cup {"registered"}
    BY <1>1 DEF LogShape
  <2>2. log'[v] \in Entry
    BY <1>1, <2>1
  <2>3. log'[v].at \in 1 .. MaxEvents
    BY <1>1, <2>1, BoundsAssumption
  <2> QED BY <2>1, <2>2, <2>3 DEF Entry
<1>4. TypeOK'
  <2>1. row' \in [version : 0 .. Len(log'), status : 0 .. Len(log'), roles : SUBSET (Versions')]
    <3>1. row \in [version : 0 .. Len(log), status : 0 .. Len(log), roles : SUBSET Versions]
      BY DEF TypeOK
    <3>2. 0 .. Len(log) \subseteq 0 .. Len(log') /\ SUBSET Versions \subseteq SUBSET (Versions')
      BY <1>1
    <3> QED BY <1>2, <3>1, <3>2
  <2>2. \A p \in Readers : /\ todo[p] \subseteq Versions' /\ batch[p] \subseteq Versions'
                           /\ reading[p].event \in 0 .. Len(log')
                           /\ reading[p].roles \subseteq Versions'
    BY <1>1 DEF TypeOK
  <2>3. /\ processed \subseteq Versions' /\ ahead \subseteq Versions'
        /\ handled \subseteq Versions' /\ erred \subseteq Versions'
    BY <1>1 DEF TypeOK
  <2> QED BY <1>1, <1>2, <1>3, <2>1, <2>2, <2>3 DEF TypeOK, procVars
<1>5. ReadersOK'
  <2> SUFFICES ASSUME NEW p \in Readers, pc[p] = "changing_role"
               PROVE  /\ reading[p].event \in Earliest(todo[p])'
                      /\ Kind(reading[p].event)' = "role_changed"
    BY <1>2 DEF ReadersOK, procVars
  <2>1. reading[p].event \in Earliest(todo[p]) /\ Kind(reading[p].event) = "role_changed"
    BY DEF ReadersOK
  <2>2. todo[p] \subseteq Versions
    BY DEF TypeOK
  <2> QED BY <1>1, <1>2, <2>1, <2>2 DEF Earliest, Kind, procVars
<1> QED BY <1>1, <1>4, <1>5

\* A handler call's answer keeps the types.
LEMMA AnswerTypes ==
    ASSUME PipelineTypes, NEW p \in Readers, NEW v \in Versions, Answer(p, v)
    PROVE  PipelineTypes'
<1> USE DEF PipelineTypes
<1>1. PICK ok \in BOOLEAN : Answers(p, v, ok) /\ (row' = row \/ (ok /\ HandledRow(p, v)))
  BY DEF Answer
<1>2. v \in 1 .. Len(log) /\ Len(log) \in Nat /\ log' = log
  BY <1>1 DEF Versions, LogShape, Answers
<1>3. row' \in [version : 0 .. Len(log), status : 0 .. Len(log), roles : SUBSET Versions]
  <2>1. row \in [version : 0 .. Len(log), status : 0 .. Len(log), roles : SUBSET Versions]
    BY DEF TypeOK
  <2>2. reading[p].roles \cup {v} \in SUBSET Versions /\ v \in 0 .. Len(log)
    BY <1>2 DEF TypeOK
  <2>3. [version |-> v, status |-> v, roles |-> {}]
           \in [version : 0 .. Len(log), status : 0 .. Len(log), roles : SUBSET Versions]
    BY <2>2
  <2>4. /\ [row EXCEPT !.version = v]
              \in [version : 0 .. Len(log), status : 0 .. Len(log), roles : SUBSET Versions]
        /\ [row EXCEPT !.version = v, !.status = v]
              \in [version : 0 .. Len(log), status : 0 .. Len(log), roles : SUBSET Versions]
        /\ [row EXCEPT !.version = v, !.roles = reading[p].roles \cup {v}]
              \in [version : 0 .. Len(log), status : 0 .. Len(log), roles : SUBSET Versions]
    BY <2>1, <2>2
  <2> QED BY <1>1, <2>1, <2>3, <2>4 DEF HandledRow, StatusWritten, RolesWritten
<1>4. /\ todo' = [todo EXCEPT ![p] = @ \ {v}]
      /\ batch' = [batch EXCEPT ![p] = @ \cup {v}]
      /\ ahead' = ahead
      /\ handled' \in {handled, handled \cup {v}} /\ erred' \in {erred, erred \cup {v}}
  BY <1>1 DEF Answers, Published, SucceedsForBus
<1>5. /\ pc' = [pc EXCEPT ![p] = "publishing"]
      /\ reading' \in {reading, [reading EXCEPT ![p] = NotReading]}
      /\ processed' = processed /\ marks' = marks /\ faults' \in 0 .. MaxFaults
  BY <1>1 DEF Answers, Answer
<1>6. \A q \in Readers : /\ todo'[q] \subseteq Versions /\ batch'[q] \subseteq Versions
                         /\ reading'[q].event \in 0 .. Len(log)
                         /\ reading'[q].roles \subseteq Versions
  BY <1>2, <1>4, <1>5 DEF TypeOK, ReadersOK, NotReading
<1>7. TypeOK'
  BY <1>2, <1>3, <1>4, <1>5, <1>6 DEF TypeOK, Versions, Kind
<1>8. ReadersOK'
  <2>1. NotReading \in [event : Nat, roles : SUBSET Nat]
    BY DEF NotReading
  <2>2. /\ todo' \in [Readers -> SUBSET Nat] /\ batch' \in [Readers -> SUBSET Nat]
        /\ reading' \in [Readers -> [event : Nat, roles : SUBSET Nat]]
    BY <1>2, <1>4, <1>5, <2>1 DEF ReadersOK
  <2>3. \A q \in Readers : pc'[q] # "publishing" =>
           q # p /\ pc'[q] = pc[q] /\ todo'[q] = todo[q] /\ batch'[q] = batch[q]
           /\ reading'[q] = reading[q]
    BY <1>4, <1>5 DEF TypeOK, ReadersOK
  <2>4. \A q \in Readers : pc'[q] = "changing_role" => pc'[q] # "publishing"
    OBVIOUS
  <2>5. \A q \in Readers : pc'[q] = "idle" => pc'[q] # "publishing"
    OBVIOUS
  <2> QED BY <1>2, <2>2, <2>3, <2>4, <2>5 DEF ReadersOK, Earliest, Kind
<1> QED BY <1>2, <1>7, <1>8

\* A fetch, a read of the roles and the end of a batch keep the types.
LEMMA ReaderTypes ==
    ASSUME PipelineTypes, NEW p \in Readers,
           \/ \E S \in SUBSET Versions, m \in BOOLEAN : Begins(p, S, m)
           \/ \E v \in Versions : ReadsRoles(p, v)
           \/ BatchEnds(p)
    PROVE  PipelineTypes'
<1> USE DEF PipelineTypes
<1>1. Len(log) \in Nat /\ Versions \subseteq Nat /\ Versions \subseteq 0 .. Len(log)
  BY DEF LogShape, Versions
<1>2. log' = log /\ Versions' = Versions
  BY DEF Begins, ReadsRoles, BatchEnds, Ends, Versions
<1>3. ASSUME NEW S \in SUBSET Versions, NEW m \in BOOLEAN, Begins(p, S, m)
      PROVE  TypeOK' /\ ReadersOK'
  <2>1. TypeOK'
    BY <1>2, <1>3 DEF Begins, TypeOK, ReadersOK, Kind
  <2>2. ReadersOK'
    BY <1>1, <1>2, <1>3 DEF Begins, TypeOK, ReadersOK, Earliest, Kind
  <2> QED BY <2>1, <2>2
<1>4. ASSUME NEW v \in Versions, ReadsRoles(p, v)
      PROVE  TypeOK' /\ ReadersOK'
  <2> DEFINE x == [event |-> v, roles |-> row.roles]
  <2>1. /\ x.event = v /\ x.roles = row.roles /\ row.roles \subseteq Versions
        /\ v \in 0 .. Len(log) /\ x \in [event : Nat, roles : SUBSET Nat]
    BY <1>1 DEF TypeOK
  <2> HIDE DEF x
  <2>2. /\ pc' = [pc EXCEPT ![p] = "changing_role"] /\ reading' = [reading EXCEPT ![p] = x]
        /\ UNCHANGED <<log, processed, row, todo, batch, marks, ahead, handled, erred, faults>>
        /\ v \in Earliest(todo[p]) /\ Kind(v) = "role_changed"
    BY <1>4 DEF ReadsRoles, x
  <2>3. TypeOK'
    BY <1>2, <2>1, <2>2 DEF TypeOK, ReadersOK, Kind
  <2>4. ReadersOK'
    BY <1>2, <2>1, <2>2 DEF TypeOK, ReadersOK, Earliest, Kind
  <2> QED BY <2>3, <2>4
<1>5. CASE BatchEnds(p)
  <2>1. /\ NotReading \in [event : Nat, roles : SUBSET Nat]
        /\ NotReading.event \in 0 .. Len(log) /\ NotReading.roles \subseteq Versions
    BY <1>1 DEF NotReading
  <2> HIDE DEF NotReading
  <2>2. processed' \subseteq Versions
    BY <1>5 DEF BatchEnds, TypeOK
  <2>3. TypeOK'
    BY <1>2, <1>5, <2>1, <2>2 DEF BatchEnds, Ends, TypeOK, ReadersOK, Kind
  <2>4. ReadersOK'
    BY <1>2, <1>5, <2>1 DEF BatchEnds, Ends, TypeOK, ReadersOK, Earliest, Kind
  <2> QED BY <1>2, <2>3, <2>4
<1> QED BY <1>2, <1>3, <1>4, <1>5

\* No step of the pipeline breaks the types.
LEMMA PipelineTypeStep == PipelineTypes /\ [Next]_vars => PipelineTypes'
<1> SUFFICES ASSUME PipelineTypes, [Next]_vars
             PROVE  PipelineTypes'
  OBVIOUS
<1>1. CASE UNCHANGED vars
  <2>1. UNCHANGED <<log, processed, row, pc, todo, batch, marks, reading, ahead, handled,
                    erred, faults>>
    BY <1>1 DEF vars, procVars
  <2>2. TypeOK' /\ LogShape(log')
    BY <2>1 DEF PipelineTypes, TypeOK, Versions, Kind
  <2>3. ReadersOK'
    BY <2>1 DEF PipelineTypes, ReadersOK, Earliest, Kind
  <2> QED BY <2>2, <2>3 DEF PipelineTypes
<1> QED BY <1>1, PipelineSteps, SaveTypes, AnswerTypes, ReaderTypes

\* The empty log and the idle readers are well typed.
LEMMA PipelineTypesInitially == Init => PipelineTypes
<1> SUFFICES ASSUME Init
             PROVE  PipelineTypes
  OBVIOUS
<1> USE DEF Init
<1>1. log = <<>> /\ Len(log) = 0 /\ log \in Seq(Entry) /\ 1 .. Len(log) = {} /\ Versions = {}
  BY DEF Versions
<1>2. LogShape(log)
  BY <1>1 DEF LogShape
<1>3. TypeOK
  BY <1>1, BoundsAssumption DEF TypeOK, NoRow, NotReading
<1>4. ReadersOK
  BY DEF ReadersOK, NotReading
<1> QED BY <1>2, <1>3, <1>4 DEF PipelineTypes

\* The read model's row, the marks and every reader's bookkeeping speak of stored events
\* only, for any number of processors, replays and saves.
THEOREM TypeCorrect == Spec => []TypeOK
<1>1. Spec => []PipelineTypes
  BY PipelineTypesInitially, PipelineTypeStep, PTL DEF Spec
<1> QED BY <1>1, PTL DEF PipelineTypes
----------------------------------------------------------------------------
(***************************************************************************)
(* The inductive invariant.                                                *)
(***************************************************************************)

\* No gaps: with distinct times the processed events come first, and so do they together
\* with what any one poll has fetched.
OrderOK ==
    DistinctTimes =>
        /\ \A v \in processed, u \in Versions : u < v => u \in processed
        /\ \A p \in Readers : marks[p] =>
              \A v \in todo[p] \cup batch[p], u \in Versions :
                  u < v => u \in processed \cup todo[p] \cup batch[p]

\* The row has caught up with the event, or no row ever shows it.
Reflects(v) == Kind(v) = "updated" \/ row.version >= v

\* It has with every processed event, and with every event a poll has published.
ReflectedOK ==
    NothingFailed /\ DistinctTimes =>
        /\ \A v \in processed : Reflects(v)
        /\ \A p \in Readers : marks[p] => \A v \in batch[p] : Reflects(v)

\* A replay that is ahead of no poll publishes processed events only.
ReplayOK ==
    ReplaysProcessedOnly => \A p \in Readers : ~marks[p] => todo[p] \subseteq processed

\* LastStatus without CHOOSE.
IsLastStatus(u, v) ==
    /\ u \in 1 .. v /\ Kind(u) \in StatusKinds
    /\ \A t \in u + 1 .. v : Kind(t) \notin StatusKinds

\* The row shows a prefix of the log; and the roles that a role change has read are those
\* before its event, unless a newer event has made its UPDATE void.
RowOK ==
    NothingFailed /\ DistinctTimes /\ ReplaysProcessedOnly =>
        /\ row.version > 0 =>
              IsLastStatus(row.status, row.version) /\ row.roles = RoleChanges(row.version)
        /\ \A p \in Readers : pc[p] = "changing_role" =>
              \/ row.version >= reading[p].event
              \/ reading[p].roles = RoleChanges(reading[p].event - 1)

PipelineIInv == PipelineTypes /\ OrderOK /\ ReflectedOK /\ ReplayOK /\ RowOK

(***************************************************************************)
(* Operators of the log.                                                   *)
(***************************************************************************)
\* The first event registers the user; the others are of the kinds that may follow.
LEMMA KindsOfEvents ==
    ASSUME LogShape(log), NEW v \in Versions
    PROVE  /\ v \in Nat /\ v >= 1 /\ 1 \in Versions
           /\ Kind(v) = "registered" <=> v = 1
           /\ Kind(v) \in {"registered", "activated", "deactivated", "role_changed", "updated"}
<1>1. Len(log) \in Nat
  BY DEF LogShape
<1>2. v \in Nat /\ v >= 1 /\ 1 \in Versions
  BY <1>1 DEF Versions
<1>3. Kind(v) \in Kinds \cup {"registered"} /\ (Kind(v) = "registered" <=> v = 1)
  BY DEF LogShape, Versions, Kind
<1> QED BY <1>2, <1>3, KindsAssumption

\* With distinct times, nothing fetched precedes the event that is published next.
LEMMA EarliestIsFirst ==
    ASSUME LogShape(log), DistinctTimes, NEW S \in SUBSET Versions, NEW v \in Earliest(S),
           NEW u \in Versions, u < v
    PROVE  u \notin S
<1>1. v \in Versions /\ Len(log) \in Nat
  BY DEF Earliest, LogShape
<1>2. log[u].at <= log[v].at /\ log[u].at \in Nat /\ log[v].at \in Nat
  BY <1>1 DEF LogShape, Versions
<1>3. ASSUME u \in S
      PROVE  FALSE
  <2>1. log[u].at = log[v].at
    BY <1>2, <1>3 DEF Earliest
  <2>2. u = v
    BY <1>1, <2>1 DEF DistinctTimes
  <2> QED BY <1>1, <2>2 DEF Versions
<1> QED BY <1>3

\* The event that set the status is unique, so it is the one LastStatus chooses.
LEMMA LastStatusUnique ==
    ASSUME NEW v \in Nat, NEW u, IsLastStatus(u, v)
    PROVE  LastStatus(v) = u
<1>1. \A t : IsLastStatus(t, v) => t = u
  BY DEF IsLastStatus
<1>2. LastStatus(v) = CHOOSE t \in 1 .. v : IsLastStatus(t, v)
  BY DEF LastStatus, IsLastStatus
<1>3. u \in 1 .. v
  BY DEF IsLastStatus
<1> QED BY <1>1, <1>2, <1>3

\* Updates of the profile change neither the status nor the roles.
LEMMA UpdatesShowNothing ==
    ASSUME NEW r \in Nat, NEW v \in Nat, r <= v, \A u \in r + 1 .. v : Kind(u) = "updated"
    PROVE  /\ RoleChanges(v) = RoleChanges(r)
           /\ \A u : IsLastStatus(u, r) => IsLastStatus(u, v)
BY DEF RoleChanges, IsLastStatus, StatusKinds

(***************************************************************************)
(* What the version guards rest on.                                        *)
(***************************************************************************)
\* When a poll's event is published, the row has caught up with all earlier ones; so it
\* has when a replay publishes an event that was processed.
LEMMA EarlierReflected ==
    ASSUME PipelineIInv, NothingFailed, DistinctTimes,
           NEW p \in Readers, NEW v \in Earliest(todo[p]), marks[p] \/ ReplaysProcessedOnly
    PROVE  \A u \in Versions : u < v => Reflects(u)
<1> USE DEF PipelineIInv, PipelineTypes
<1> SUFFICES ASSUME NEW u \in Versions, u < v
             PROVE  Reflects(u)
  OBVIOUS
<1>1. todo[p] \in SUBSET Versions /\ v \in todo[p]
  BY DEF TypeOK, Earliest
<1>2. u \notin todo[p]
  BY <1>1, EarliestIsFirst
<1>3. CASE marks[p]
  BY <1>1, <1>2, <1>3 DEF OrderOK, ReflectedOK
<1>4. CASE ~marks[p]
  BY <1>1, <1>4 DEF ReplayOK, OrderOK, ReflectedOK
<1> QED BY <1>3, <1>4

\* A call that ends without an error leaves the row caught up with the event, or there
\* is no row and then the event was no poll's.
LEMMA AnswerReflects ==
    ASSUME PipelineIInv, NEW p \in Readers, NEW v \in Versions, Answer(p, v)
    PROVE  /\ row.version \in Nat /\ row'.version \in Nat /\ row.version <= row'.version
           /\ NothingFailed' /\ DistinctTimes /\ marks[p] => Reflects(v)'
<1> USE DEF PipelineIInv, PipelineTypes
<1>1. v \in Nat /\ v >= 1 /\ 1 \in Versions /\ log' = log
  BY KindsOfEvents DEF Answer, Answers
<1>2. /\ row.version \in Nat
      /\ row \in [version : 0 .. Len(log), status : 0 .. Len(log), roles : SUBSET Versions]
  BY DEF TypeOK, LogShape
<1>3. CASE Answers(p, v, FALSE) /\ row' = row
  <2>1. NothingFailed' => Kind(v) = "updated"
    BY <1>1, <1>3 DEF Answers, Published, NothingFailed, Kind
  <2> QED BY <1>1, <1>2, <1>3, <2>1 DEF Reflects, Kind
<1>4. CASE Answers(p, v, TRUE) /\ HandledRow(p, v)
  <2>1. CASE Kind(v) \in {"activated", "deactivated"} /\ row' = StatusWritten(v)
    <3>1. \/ row.version = 0 /\ row' = row
          \/ row.version >= v /\ row' = row
          \/ row.version < v /\ row'.version = v
      BY <1>1, <1>2, <2>1 DEF StatusWritten
    <3>2. ASSUME NothingFailed', DistinctTimes, marks[p]
          PROVE  row.version >= 1
      <4>1. v # 1 /\ Kind(1) = "registered"
        BY <1>1, <2>1, KindsOfEvents
      <4>2. NothingFailed /\ v \in Earliest(todo[p])
        BY <1>1, <1>4, <3>2 DEF Answers, Published, NothingFailed, Kind
      <4>3. Reflects(1)
        BY <1>1, <3>2, <4>1, <4>2, EarlierReflected
      <4> QED BY <4>1, <4>3 DEF Reflects
    <3> QED BY <1>1, <1>2, <3>1, <3>2 DEF Reflects
  <2>2. CASE row' = IF row.version = 0
                    THEN [version |-> v, status |-> v, roles |-> {}]
                    ELSE IF row.version < v THEN [row EXCEPT !.version = v] ELSE row
    <3>1. row'.version \in Nat /\ row'.version >= v /\ row.version <= row'.version
      BY <1>1, <1>2, <2>2
    <3> QED BY <1>2, <3>1 DEF Reflects
  <2>3. CASE row' = RolesWritten(v, reading[p].roles \cup {v})
    <3>1. row'.version \in Nat /\ row'.version >= v /\ row.version <= row'.version
      BY <1>1, <1>2, <2>3 DEF RolesWritten
    <3> QED BY <1>2, <3>1 DEF Reflects
  <2> QED BY <1>4, <2>1, <2>2, <2>3 DEF HandledRow
<1> QED BY <1>3, <1>4 DEF Answer

(***************************************************************************)
(* Each kind of step preserves the invariant.                              *)
(***************************************************************************)
\* A save appends events that no reader knows of and the row does not show.
LEMMA SavePreserves ==
    ASSUME PipelineIInv, Save
    PROVE  PipelineIInv'
<1> USE DEF PipelineIInv, PipelineTypes
<1>1. /\ Len(log) \in Nat /\ Len(log') \in Nat /\ Len(log) <= Len(log')
      /\ \A v \in Versions : log'[v] = log[v]
      /\ Versions \subseteq Versions' /\ Versions = 1 .. Len(log)
  BY SaveAppends DEF Versions
<1>2. UNCHANGED <<processed, row, pc, todo, batch, marks, reading, ahead, erred>>
  BY DEF Save, procVars
<1>3. \A v \in Versions : Kind(v)' = Kind(v)
  BY <1>1 DEF Kind
<1>4. (DistinctTimes' => DistinctTimes) /\ (NothingFailed' => NothingFailed)
      /\ (ReplaysProcessedOnly' => ReplaysProcessedOnly)
  BY <1>1, <1>2, <1>3 DEF DistinctTimes, NothingFailed, ReplaysProcessedOnly, TypeOK
<1>5. \A v \in Versions, u \in Versions' : u < v => u \in Versions
  BY <1>1 DEF Versions
<1>6. PipelineTypes'
  BY SaveTypes
<1>7. OrderOK'
  <2>1. \A p \in Readers : todo[p] \cup batch[p] \subseteq Versions
    BY DEF TypeOK
  <2> QED BY <1>2, <1>4, <1>5, <2>1 DEF OrderOK, TypeOK
<1>8. ReflectedOK'
  BY <1>2, <1>3, <1>4 DEF ReflectedOK, Reflects, TypeOK
<1>9. ReplayOK'
  BY <1>2, <1>4 DEF ReplayOK
<1>10. RowOK'
  <2>1. \A v \in 0 .. Len(log) : \A u \in 1 .. v : Kind(u)' = Kind(u)
    BY <1>1, <1>3
  <2>2. \A v \in 0 .. Len(log) : /\ RoleChanges(v)' = RoleChanges(v)
                                 /\ \A u : IsLastStatus(u, v) => IsLastStatus(u, v)'
    BY <2>1 DEF RoleChanges, IsLastStatus
  <2>3. row.version \in 0 .. Len(log)
    BY DEF TypeOK
  <2>4. \A p \in Readers : pc[p] = "changing_role" => reading[p].event - 1 \in 0 .. Len(log)
    <3>1. \A p \in Readers : pc[p] = "changing_role" => reading[p].event \in Versions
      BY DEF ReadersOK, Earliest, TypeOK
    <3> QED BY <1>1, <3>1
  <2> QED BY <1>2, <1>4, <2>2, <2>3, <2>4 DEF RowOK
<1> QED BY <1>6, <1>7, <1>8, <1>9, <1>10

\* A fetch takes the oldest unprocessed events, and leaves no gap before them.
LEMMA BeginsPreserves ==
    ASSUME PipelineIInv, NEW p \in Readers, NEW S \in SUBSET Versions, NEW m \in BOOLEAN,
           Begins(p, S, m),
           m => /\ S \subseteq Unprocessed
                /\ \A v \in S, u \in Unprocessed \ S : log[v].at <= log[u].at
    PROVE  PipelineIInv'
<1> USE DEF PipelineIInv, PipelineTypes
<1>1. /\ pc[p] = "idle" /\ todo[p] = {} /\ batch[p] = {}
      /\ pc' = [pc EXCEPT ![p] = "publishing"]
      /\ todo' = [todo EXCEPT ![p] = S] /\ marks' = [marks EXCEPT ![p] = m]
      /\ UNCHANGED <<log, processed, row, batch, reading, erred>>
      /\ ahead' = IF m THEN ahead ELSE ahead \cup (S \ processed)
  BY DEF Begins, ReadersOK
<1>2. Versions' = Versions /\ \A v : Kind(v)' = Kind(v) /\ (Reflects(v)' <=> Reflects(v))
  BY <1>1 DEF Versions, Kind, Reflects
<1>3. (DistinctTimes' <=> DistinctTimes) /\ (NothingFailed' <=> NothingFailed)
      /\ (ReplaysProcessedOnly' => ReplaysProcessedOnly)
  BY <1>1 DEF DistinctTimes, NothingFailed, ReplaysProcessedOnly, Kind, Versions
<1>4. \A q \in Readers \ {p} : pc'[q] = pc[q] /\ todo'[q] = todo[q] /\ marks'[q] = marks[q]
  BY <1>1 DEF TypeOK, ReadersOK
<1>5. todo'[p] = S /\ marks'[p] = m /\ pc'[p] = "publishing"
  BY <1>1 DEF TypeOK, ReadersOK
<1>6. PipelineTypes'
  BY ReaderTypes
<1>7. OrderOK'
  <2>1. ASSUME DistinctTimes, m, NEW v \in S, NEW u \in Versions, u < v
        PROVE  u \in processed \cup S
    <3>1. ASSUME u \notin processed, u \notin S
          PROVE  FALSE
      <4>1. log[v].at <= log[u].at
        BY <2>1, <3>1 DEF Unprocessed
      <4>2. log[u].at <= log[v].at /\ log[u].at \in Nat /\ log[v].at \in Nat
        BY <2>1 DEF LogShape, Versions
      <4>3. u = v
        BY <2>1, <4>1, <4>2 DEF DistinctTimes
      <4> QED BY <2>1, <4>3 DEF Versions
    <3> QED BY <3>1
  <2> QED BY <1>1, <1>2, <1>3, <1>4, <1>5, <2>1 DEF OrderOK
<1>8. ReflectedOK'
  BY <1>1, <1>2, <1>3, <1>4 DEF ReflectedOK
<1>9. ReplayOK'
  BY <1>1, <1>3, <1>4, <1>5 DEF ReplayOK, ReplaysProcessedOnly
<1>10. RowOK'
  <2>1. \A v : /\ RoleChanges(v)' = RoleChanges(v)
               /\ \A u : IsLastStatus(u, v)' <=> IsLastStatus(u, v)
    BY <1>2 DEF RoleChanges, IsLastStatus
  <2> QED BY <1>1, <1>3, <1>4, <1>5, <2>1 DEF RowOK
<1> QED BY <1>6, <1>7, <1>8, <1>9, <1>10

\* The end of a batch marks what the row has caught up with.
LEMMA BatchEndsPreserves ==
    ASSUME PipelineIInv, NEW p \in Readers, BatchEnds(p)
    PROVE  PipelineIInv'
<1> USE DEF PipelineIInv, PipelineTypes
<1>1. /\ pc' = [pc EXCEPT ![p] = "idle"]
      /\ todo' = [todo EXCEPT ![p] = {}] /\ batch' = [batch EXCEPT ![p] = {}]
      /\ marks' = [marks EXCEPT ![p] = FALSE] /\ reading' = [reading EXCEPT ![p] = NotReading]
      /\ UNCHANGED <<log, row, ahead, erred>>
      /\ \/ processed' = processed
         \/ marks[p] /\ todo[p] = {} /\ processed' = processed \cup batch[p]
  BY DEF BatchEnds, Ends
<1>2. Versions' = Versions /\ \A v : Kind(v)' = Kind(v) /\ (Reflects(v)' <=> Reflects(v))
  BY <1>1 DEF Versions, Kind, Reflects
<1>3. (DistinctTimes' <=> DistinctTimes) /\ (NothingFailed' <=> NothingFailed)
      /\ (ReplaysProcessedOnly' <=> ReplaysProcessedOnly)
  BY <1>1 DEF DistinctTimes, NothingFailed, ReplaysProcessedOnly, Kind, Versions
<1>4. \A q \in Readers \ {p} : /\ pc'[q] = pc[q] /\ todo'[q] = todo[q] /\ batch'[q] = batch[q]
                               /\ marks'[q] = marks[q] /\ reading'[q] = reading[q]
  BY <1>1 DEF TypeOK, ReadersOK
<1>5. todo'[p] = {} /\ batch'[p] = {} /\ pc'[p] = "idle" /\ marks'[p] = FALSE
  BY <1>1 DEF TypeOK, ReadersOK
<1>6. PipelineTypes'
  BY ReaderTypes
<1>7. OrderOK'
  BY <1>1, <1>2, <1>3, <1>4, <1>5 DEF OrderOK
<1>8. ReflectedOK'
  BY <1>1, <1>2, <1>3, <1>4, <1>5 DEF ReflectedOK
<1>9. ReplayOK'
  BY <1>1, <1>3, <1>4, <1>5 DEF ReplayOK
<1>10. RowOK'
  <2>1. \A v : /\ RoleChanges(v)' = RoleChanges(v)
               /\ \A u : IsLastStatus(u, v)' <=> IsLastStatus(u, v)
    BY <1>2 DEF RoleChanges, IsLastStatus
  <2> QED BY <1>1, <1>3, <1>4, <1>5, <2>1 DEF RowOK
<1> QED BY <1>6, <1>7, <1>8, <1>9, <1>10

\* The roles a role change reads are those before its event, or its UPDATE will be void.
LEMMA ReadsRolesPreserves ==
    ASSUME PipelineIInv, NEW p \in Readers, NEW v \in Versions, ReadsRoles(p, v)
    PROVE  PipelineIInv'
<1> USE DEF PipelineIInv, PipelineTypes
<1>1. /\ v \in Earliest(todo[p]) /\ row.version # 0
      /\ pc' = [pc EXCEPT ![p] = "changing_role"]
      /\ reading' = [reading EXCEPT ![p] = [event |-> v, roles |-> row.roles]]
      /\ UNCHANGED <<log, processed, row, todo, batch, marks, ahead, erred>>
  BY DEF ReadsRoles
<1>2. Versions' = Versions /\ \A w : Kind(w)' = Kind(w) /\ (Reflects(w)' <=> Reflects(w))
  BY <1>1 DEF Versions, Kind, Reflects
<1>3. (DistinctTimes' <=> DistinctTimes) /\ (NothingFailed' <=> NothingFailed)
      /\ (ReplaysProcessedOnly' <=> ReplaysProcessedOnly)
  BY <1>1 DEF DistinctTimes, NothingFailed, ReplaysProcessedOnly, Kind, Versions
<1>4. \A q \in Readers \ {p} : pc'[q] = pc[q] /\ reading'[q] = reading[q]
  BY <1>1 DEF TypeOK, ReadersOK
<1>5. reading'[p].event = v /\ reading'[p].roles = row.roles
  BY <1>1 DEF TypeOK, ReadersOK
<1>6. PipelineTypes'
  BY ReaderTypes
<1>7. OrderOK' /\ ReflectedOK' /\ ReplayOK'
  BY <1>1, <1>2, <1>3 DEF OrderOK, ReflectedOK, ReplayOK
<1>8. RowOK'
  <2>1. \A w : /\ RoleChanges(w)' = RoleChanges(w)
               /\ \A u : IsLastStatus(u, w)' <=> IsLastStatus(u, w)
    BY <1>2 DEF RoleChanges, IsLastStatus
  <2>2. ASSUME NothingFailed, DistinctTimes, ReplaysProcessedOnly
        PROVE  row.version >= v \/ row.roles = RoleChanges(v - 1)
    <3>1. row.version \in Nat /\ Len(log) \in Nat /\ v \in Nat /\ v >= 1
      BY KindsOfEvents DEF TypeOK, LogShape
    <3>2. row.roles = RoleChanges(row.version)
      BY <1>1, <2>2, <3>1 DEF RowOK
    <3>3. CASE row.version < v
      <4>1. \A u \in row.version + 1 .. v - 1 : u \in Versions /\ u < v /\ ~(row.version >= u)
        BY <3>1 DEF Versions
      <4>2. \A u \in row.version + 1 .. v - 1 : Kind(u) = "updated"
        BY <1>1, <2>2, <4>1, EarlierReflected DEF Reflects
      <4>3. v - 1 \in Nat /\ row.version <= v - 1
        BY <3>1, <3>3
      <4> QED BY <3>1, <3>2, <4>2, <4>3, UpdatesShowNothing
    <3> QED BY <3>1, <3>3
  <2> QED BY <1>1, <1>3, <1>4, <1>5, <2>1, <2>2 DEF RowOK
<1> QED BY <1>6, <1>7, <1>8

\* What a handler call writes over a row it finds older than its event.
LEMMA AnswerRow ==
    ASSUME PipelineIInv, NEW p \in Readers, NEW v \in Versions, Answer(p, v),
           NothingFailed, DistinctTimes, ReplaysProcessedOnly, row'.version > 0
    PROVE  IsLastStatus(row'.status, row'.version) /\ row'.roles = RoleChanges(row'.version)
<1> USE DEF PipelineIInv, PipelineTypes
<1> DEFINE r == row.version
<1>1. /\ v \in Nat /\ v >= 1 /\ 1 \in Versions /\ Len(log) \in Nat /\ r \in Nat
      /\ row \in [version : 0 .. Len(log), status : 0 .. Len(log), roles : SUBSET Versions]
      /\ v \in Earliest(todo[p])
  <2>1. v \in Nat /\ v >= 1 /\ 1 \in Versions
    BY KindsOfEvents
  <2>2. Len(log) \in Nat
    BY DEF LogShape
  <2>3. row \in [version : 0 .. Len(log), status : 0 .. Len(log), roles : SUBSET Versions]
    BY DEF TypeOK
  <2>4. v \in Earliest(todo[p])
    BY DEF Answer, Answers
  <2> QED BY <2>1, <2>2, <2>3, <2>4
<1>2. r > 0 => IsLastStatus(row.status, r) /\ row.roles = RoleChanges(r)
  BY DEF RowOK
<1>3. \A u \in Versions : u < v => Kind(u) = "updated" \/ r >= u
  BY <1>1, EarlierReflected DEF Reflects
<1>4. r < v => \A u \in r + 1 .. v - 1 : Kind(u) = "updated"
  BY <1>1, <1>3 DEF Versions
<1>5. r < v => /\ RoleChanges(v - 1) = RoleChanges(r)
               /\ \A u : IsLastStatus(u, r) => IsLastStatus(u, v - 1)
  <2>1. r < v => v - 1 \in Nat /\ r <= v - 1
    BY <1>1
  <2> QED BY <1>1, <1>4, <2>1, UpdatesShowNothing
<1>6. Kind(v) # "registered" => r >= 1
  <2>1. Kind(v) # "registered" => v # 1
    BY KindsOfEvents
  <2>2. Kind(1) = "registered"
    BY <1>1, KindsOfEvents
  <2> QED BY <1>1, <1>3, <2>1, <2>2
<1>7. CASE row' = row
  BY <1>2, <1>7
<1>8. CASE Kind(v) = "registered" /\ row' # row /\ HandledRow(p, v)
  <2>1. v = 1
    BY <1>8, KindsOfEvents
  <2>2. row' = [version |-> v, status |-> v, roles |-> {}]
    BY <1>1, <1>8, <2>1 DEF HandledRow
  <2>3. IsLastStatus(1, 1) /\ RoleChanges(1) = {}
    BY <1>8, <2>1 DEF IsLastStatus, RoleChanges, StatusKinds
  <2> QED BY <2>1, <2>2, <2>3
<1>9. CASE Kind(v) \in {"activated", "deactivated"} /\ row' # row /\ HandledRow(p, v)
  <2>1. r < v /\ row' = [row EXCEPT !.version = v, !.status = v]
    BY <1>1, <1>9 DEF HandledRow, StatusWritten
  <2>2. row'.version = v /\ row'.status = v /\ row'.roles = row.roles
    BY <1>1, <2>1
  <2>3. IsLastStatus(v, v)
    BY <1>1, <1>9 DEF IsLastStatus, StatusKinds
  <2>4. RoleChanges(v) = RoleChanges(v - 1)
    BY <1>1, <1>9 DEF RoleChanges
  <2> QED BY <1>2, <1>5, <1>6, <1>9, <1>1, <2>1, <2>2, <2>3, <2>4
<1>10. CASE Kind(v) = "role_changed" /\ row' # row /\ HandledRow(p, v)
  <2>1. /\ r < v /\ pc[p] = "changing_role" /\ v = reading[p].event
        /\ row' = [row EXCEPT !.version = v, !.roles = reading[p].roles \cup {v}]
    BY <1>1, <1>10 DEF HandledRow, RolesWritten
  <2>2. row'.version = v /\ row'.status = row.status /\ row'.roles = reading[p].roles \cup {v}
    BY <1>1, <2>1
  <2>3. reading[p].roles = RoleChanges(v - 1)
    BY <1>1, <2>1 DEF RowOK
  <2>4. RoleChanges(v) = RoleChanges(v - 1) \cup {v}
    BY <1>1, <1>10 DEF RoleChanges
  <2>5. IsLastStatus(row.status, v - 1)
    BY <1>1, <1>2, <1>5, <1>6, <1>10, <2>1
  <2>6. IsLastStatus(row.status, v)
    BY <1>1, <1>10, <2>5 DEF IsLastStatus, StatusKinds
  <2> QED BY <2>2, <2>3, <2>4, <2>6
<1> QED BY <1>7, <1>8, <1>9, <1>10 DEF Answer, HandledRow

\* A handler call moves an event from todo to batch once the row has caught up with it.
LEMMA AnswerPreserves ==
    ASSUME PipelineIInv, NEW p \in Readers, NEW v \in Versions, Answer(p, v)
    PROVE  PipelineIInv'
<1> USE DEF PipelineIInv, PipelineTypes
<1>1. /\ v \in todo[p]
      /\ todo' = [todo EXCEPT ![p] = @ \ {v}] /\ batch' = [batch EXCEPT ![p] = @ \cup {v}]
      /\ erred \subseteq erred' /\ pc' = [pc EXCEPT ![p] = "publishing"]
      /\ reading' \in {reading, [reading EXCEPT ![p] = NotReading]}
      /\ UNCHANGED <<log, processed, marks, ahead>>
  BY DEF Answer, Answers, Published, SucceedsForBus, Earliest
<1>2. Versions' = Versions /\ \A w : Kind(w)' = Kind(w)
  BY <1>1 DEF Versions, Kind
<1>3. (DistinctTimes' <=> DistinctTimes) /\ (NothingFailed' => NothingFailed)
      /\ (ReplaysProcessedOnly' <=> ReplaysProcessedOnly)
  BY <1>1 DEF DistinctTimes, NothingFailed, ReplaysProcessedOnly, Kind, Versions
<1>4. \A q \in Readers \ {p} : /\ pc'[q] = pc[q] /\ todo'[q] = todo[q] /\ batch'[q] = batch[q]
                               /\ reading'[q] = reading[q]
  BY <1>1 DEF TypeOK, ReadersOK
<1>5. todo'[p] = todo[p] \ {v} /\ batch'[p] = batch[p] \cup {v} /\ pc'[p] = "publishing"
  BY <1>1 DEF TypeOK, ReadersOK
<1>6. /\ row.version \in Nat /\ row'.version \in Nat /\ row.version <= row'.version
      /\ NothingFailed' /\ DistinctTimes /\ marks[p] => Reflects(v)'
  BY AnswerReflects
<1>7. \A w \in Versions : Reflects(w) => Reflects(w)'
  BY <1>2, <1>6 DEF Reflects, Versions
<1>8. PipelineTypes'
  BY AnswerTypes
<1>9. OrderOK'
  BY <1>1, <1>2, <1>3, <1>4, <1>5 DEF OrderOK
<1>10. ReflectedOK'
  BY <1>1, <1>3, <1>4, <1>5, <1>6, <1>7 DEF ReflectedOK, TypeOK
<1>11. ReplayOK'
  BY <1>1, <1>3, <1>4, <1>5 DEF ReplayOK
<1>12. RowOK'
  <2>1. \A w : /\ RoleChanges(w)' = RoleChanges(w)
               /\ \A u : IsLastStatus(u, w)' <=> IsLastStatus(u, w)
    BY <1>2 DEF RoleChanges, IsLastStatus
  <2> SUFFICES ASSUME NothingFailed', DistinctTimes', ReplaysProcessedOnly'
               PROVE  (/\ row.version > 0 =>
                             /\ IsLastStatus(row.status, row.version)
                             /\ row.roles = RoleChanges(row.version)
                       /\ \A q \in Readers : pc[q] = "changing_role" =>
                             \/ row.version >= reading[q].event
                             \/ reading[q].roles = RoleChanges(reading[q].event - 1))'
    BY DEF RowOK
  <2>2. row'.version > 0 =>
           IsLastStatus(row'.status, row'.version) /\ row'.roles = RoleChanges(row'.version)
    BY <1>3, AnswerRow
  <2>3. ASSUME NEW q \in Readers, pc'[q] = "changing_role"
        PROVE  \/ row'.version >= reading[q].event
               \/ reading[q].roles = RoleChanges(reading[q].event - 1)
    <3>1. q # p /\ pc[q] = "changing_role"
      BY <1>4, <1>5, <2>3
    <3>2. reading[q].event \in Nat
      BY DEF ReadersOK
    <3> QED BY <1>3, <1>6, <3>1, <3>2 DEF RowOK
  <2>4. (row.version > 0 =>
            IsLastStatus(row.status, row.version) /\ row.roles = RoleChanges(row.version))'
    BY <1>2, <2>2 DEF IsLastStatus, RoleChanges
  <2> QED BY <1>4, <1>5, <2>1, <2>3, <2>4
<1> QED BY <1>8, <1>9, <1>10, <1>11, <1>12

(***************************************************************************)
(* The invariant, and the properties it implies.                            *)
(***************************************************************************)
\* Before the first save the invariant holds of an empty log and no row.
LEMMA PipelineInitially == Init => PipelineIInv
<1> SUFFICES ASSUME Init
             PROVE  PipelineIInv
  OBVIOUS
<1>1. PipelineTypes
  BY PipelineTypesInitially
<1>2. OrderOK /\ ReflectedOK /\ ReplayOK /\ RowOK
  BY DEF Init, OrderOK, ReflectedOK, ReplayOK, RowOK, NoRow
<1> QED BY <1>1, <1>2 DEF PipelineIInv

\* Every step preserves it.
LEMMA PipelineStep == PipelineIInv /\ [Next]_vars => PipelineIInv'
<1> SUFFICES ASSUME PipelineIInv, [Next]_vars
             PROVE  PipelineIInv'
  OBVIOUS
<1>1. CASE UNCHANGED vars
  <2>1. UNCHANGED <<log, processed, row, pc, todo, batch, marks, reading, ahead, handled,
                    erred, faults>>
    BY <1>1 DEF vars, procVars
  <2>2. PipelineTypes'
    BY PipelineTypeStep DEF PipelineIInv
  <2>3. OrderOK'
    BY <2>1 DEF PipelineIInv, OrderOK, DistinctTimes, Versions
  <2>4. ReflectedOK' /\ ReplayOK'
    BY <2>1 DEF PipelineIInv, ReflectedOK, ReplayOK, Reflects, NothingFailed, DistinctTimes,
       ReplaysProcessedOnly, Versions, Kind
  <2>5. RowOK'
    BY <2>1 DEF PipelineIInv, RowOK, IsLastStatus, RoleChanges, NothingFailed, DistinctTimes,
       ReplaysProcessedOnly, Versions, Kind
  <2> QED BY <2>2, <2>3, <2>4, <2>5 DEF PipelineIInv
<1>2. PipelineTypes
  BY DEF PipelineIInv
<1> QED BY <1>1, <1>2, PipelineSteps, SavePreserves, BeginsPreserves, AnswerPreserves,
        ReadsRolesPreserves, BatchEndsPreserves

\* The inductive invariant of the pipeline holds in every reachable state.
THEOREM PipelineInvariance == Spec => []PipelineIInv
BY PipelineInitially, PipelineStep, PTL DEF Spec

\* The row agrees with the user's events up to its event_version, for any number of
\* processors whose statements interleave: the version guards suffice while no statement
\* failed, no two events share a time and no replay ran ahead of the polls.
THEOREM ProjectionAgreesAlways == Spec => []ProjectionAgrees
<1>1. PipelineIInv => ProjectionAgrees
  <2> SUFFICES ASSUME PipelineIInv, NothingFailed, DistinctTimes, ReplaysProcessedOnly,
                      row.version > 0
               PROVE  row.status = LastStatus(row.version) /\ row.roles = RoleChanges(row.version)
    BY DEF ProjectionAgrees
  <2>1. row.version \in Nat
    BY DEF PipelineIInv, PipelineTypes, TypeOK, LogShape
  <2> QED BY <2>1, LastStatusUnique DEF PipelineIInv, RowOK
<1> QED BY <1>1, PipelineInvariance, PTL

\* No event is marked processed before the row has caught up with it, whichever of the
\* processors marked it and whatever is replayed meanwhile.
THEOREM ProcessedIsReflectedAlways == Spec => []ProcessedIsReflected
<1>1. PipelineIInv => ProcessedIsReflected
  BY DEF PipelineIInv, ReflectedOK, Reflects, ProcessedIsReflected
<1> QED BY <1>1, PipelineInvariance, PTL

(***************************************************************************)
(* The workflow orchestrator.                                              *)
(***************************************************************************)
ExecutionType == [flow : Flows, at : {"new", "running", "ended", "recorded", "gone"},
                  outcome : {None, "completed", "failed"}]
CheckedCallers == {c \in WorkflowCallers : woCaller[c].at = "checked"}

WoTypes == WoTypeOK /\ woExec \in Seq(ExecutionType) /\ Len(woExec) <= MaxExecutions
\* A request between Track and Launch has an execution of its own that nobody runs yet.
CallersOK ==
    \A c \in WorkflowCallers :
        /\ woCaller[c].at # "idle" => woCaller[c].flow \in Flows
        /\ woCaller[c].at = "tracked" =>
              woCaller[c].exec \in Executions /\ woExec[woCaller[c].exec].at = "new"
CallersApart ==
    \A c, d \in WorkflowCallers :
        woCaller[c].at = "tracked" /\ woCaller[d].at = "tracked" /\ woCaller[c].exec = woCaller[d].exec => c = d
OutcomesOK ==
    \A e \in Executions :
        /\ woExec[e].at \in {"new", "running"} => woExec[e].outcome = None
        /\ woExec[e].at \in {"ended", "recorded"} => woExec[e].outcome # None
CancelOK ==
    woCancel.at = "stopped" => woCancel.exec \in Executions /\ woManager[woCancel.exec] # "started"
WoIInv == WoTypes /\ CallersOK /\ CallersApart /\ OutcomesOK /\ CancelOK /\ LimitOvershoot /\ StatusIsEarned

\* A step leaves the requests that passed the check and the tracked executions as they are or drops
\* some, or lets one more request pass below the limit, or tracks the execution of one that passed.
LEMMA SlotsMove ==
    ASSUME WoTypes, [WoNext]_woVars
    PROVE  \/ woActive' \subseteq woActive /\ CheckedCallers' \subseteq CheckedCallers
           \/ woActive' = woActive /\ Cardinality(woActive) < MaxConcurrent
           \/ \E c \in CheckedCallers, e \in Nat :
                 woActive' = woActive \cup {e} /\ CheckedCallers' = CheckedCallers \ {c}
<1>1. woCaller \in [WorkflowCallers -> [at : {"idle", "checked", "tracked"}, flow : Flows \cup {None},
                                        exec : 0 .. MaxExecutions]]
  BY DEF WoTypes, WoTypeOK
<1>2. CASE woActive' = woActive /\ woCaller' = woCaller
  BY <1>2 DEF CheckedCallers
<1>3. ASSUME NEW w \in Flows, NEW c \in WorkflowCallers, CheckConcurrency(c, w)
      PROVE  woActive' = woActive /\ Cardinality(woActive) < MaxConcurrent
  BY <1>3 DEF CheckConcurrency
<1>4. ASSUME NEW c \in WorkflowCallers, Track(c)
      PROVE  \/ woActive' \subseteq woActive /\ CheckedCallers' \subseteq CheckedCallers
             \/ c \in CheckedCallers /\ CheckedCallers' = CheckedCallers \ {c}
                /\ woActive' = woActive \cup {Len(woExec) + 1}
  <2>1. c \in CheckedCallers
    BY <1>4 DEF Track, CheckedCallers
  <2>2. \/ /\ woActive' = woActive \cup {Len(woExec) + 1}
           /\ woCaller' = [woCaller EXCEPT ![c].at = "tracked", ![c].exec = Len(woExec) + 1]
        \/ woActive' = woActive /\ woCaller' = [woCaller EXCEPT ![c] = IdleCaller]
    BY <1>4 DEF Track
  <2>3. woCaller'[c].at # "checked" /\ \A d \in WorkflowCallers \ {c} : woCaller'[d] = woCaller[d]
    BY <1>1, <2>2 DEF IdleCaller
  <2>4. CheckedCallers' = CheckedCallers \ {c}
    BY <2>3 DEF CheckedCallers
  <2> QED BY <2>1, <2>2, <2>4
<1>5. ASSUME NEW c \in WorkflowCallers, Launch(c)
      PROVE  woActive' \subseteq woActive /\ CheckedCallers' \subseteq CheckedCallers
  <2>1. woActive' \subseteq woActive /\ woCaller' = [woCaller EXCEPT ![c] = IdleCaller]
    BY <1>5 DEF Launch
  <2> QED BY <1>1, <2>1 DEF CheckedCallers, IdleCaller
<1>6. CASE ProcessCrashes
  BY <1>6 DEF ProcessCrashes, CheckedCallers, IdleCaller
<1>7. ASSUME NEW e \in Executions, Cleanup(e)
      PROVE  woActive' \subseteq woActive /\ CheckedCallers' \subseteq CheckedCallers
  BY <1>7 DEF Cleanup, CheckedCallers
<1>8. ASSUME NEW e \in Executions,
             ExecutorReturns(e) \/ RecordOutcome(e) \/ RequestEnds(e) \/ StopExecution(e)
             \/ PauseWorkflow(e) \/ ResumeWorkflow(e)
      PROVE  woActive' = woActive /\ woCaller' = woCaller
  BY <1>8 DEF ExecutorReturns, RecordOutcome, RequestEnds, StopExecution, PauseWorkflow, ResumeWorkflow
<1>9. CASE RecordCancelled \/ (\E w \in Flows : CreateWorkflow(w)) \/ UNCHANGED woVars
  BY <1>2, <1>9 DEF RecordCancelled, CreateWorkflow, woVars
<1>10. Len(woExec) + 1 \in Nat
  BY DEF WoTypes
<1> QED BY <1>2, <1>3, <1>4, <1>5, <1>6, <1>7, <1>8, <1>9, <1>10 DEF WoNext, Proceed

\* The overshoot stays bounded: each tracked execution beyond the limit used up a request that had
\* passed the check.
LEMMA LimitStep ==
    ASSUME WoTypes, LimitOvershoot, [WoNext]_woVars
    PROVE  LimitOvershoot'
<1> DEFINE n == Cardinality(WorkflowCallers)
<1>1. /\ IsFiniteSet(woActive) /\ Cardinality(woActive) \in Nat
      /\ IsFiniteSet(CheckedCallers) /\ Cardinality(CheckedCallers) \in Nat
  <2>1. IsFiniteSet(1 .. Len(woExec)) /\ woActive \in SUBSET (1 .. Len(woExec))
    BY FS_Interval DEF WoTypes, WoTypeOK, Executions
  <2>2. CheckedCallers \in SUBSET WorkflowCallers
    BY DEF CheckedCallers
  <2> QED BY <2>1, <2>2, FS_Subset, FS_CardinalityType, OrchestratorAssumption
<1>2. /\ Cardinality(CheckedCallers') \in Nat /\ Cardinality(CheckedCallers') <= n /\ n \in Nat
  <2>1. CheckedCallers' \in SUBSET WorkflowCallers
    BY DEF CheckedCallers
  <2> QED BY <2>1, FS_Subset, FS_CardinalityType, OrchestratorAssumption
<1>3. Cardinality(woActive) + Cardinality(CheckedCallers) <= MaxConcurrent + n - 1
  BY DEF LimitOvershoot, CheckedCallers
<1>4. SUFFICES Cardinality(woActive') + Cardinality(CheckedCallers') <= MaxConcurrent + n - 1
  BY DEF LimitOvershoot, CheckedCallers
<1>5. CASE woActive' \subseteq woActive /\ CheckedCallers' \subseteq CheckedCallers
  <2>1. /\ Cardinality(woActive') <= Cardinality(woActive) /\ Cardinality(woActive') \in Nat
        /\ Cardinality(CheckedCallers') <= Cardinality(CheckedCallers)
    BY <1>1, <1>5, FS_Subset, FS_CardinalityType
  <2> QED BY <1>1, <1>2, <1>3, <2>1, OrchestratorAssumption
<1>6. CASE woActive' = woActive /\ Cardinality(woActive) < MaxConcurrent
  BY <1>1, <1>2, <1>6, OrchestratorAssumption
<1>7. ASSUME NEW c \in CheckedCallers, NEW e \in Nat,
             woActive' = woActive \cup {e}, CheckedCallers' = CheckedCallers \ {c}
      PROVE  Cardinality(woActive') + Cardinality(CheckedCallers') <= MaxConcurrent + n - 1
  <2>1. /\ Cardinality(woActive') \in Nat /\ Cardinality(woActive') <= Cardinality(woActive) + 1
        /\ Cardinality(CheckedCallers') = Cardinality(CheckedCallers) - 1
    <3>1. /\ IsFiniteSet(woActive')
          /\ Cardinality(woActive') = IF e \in woActive THEN Cardinality(woActive) ELSE Cardinality(woActive) + 1
      BY <1>1, <1>7, FS_AddElement
    <3>2. Cardinality(CheckedCallers') = Cardinality(CheckedCallers) - 1
      BY <1>1, <1>7, FS_RemoveElement
    <3>3. Cardinality(woActive') \in Nat
      BY <3>1, FS_CardinalityType
    <3> QED BY <1>1, <3>1, <3>2, <3>3
  <2> QED BY <1>1, <1>2, <1>3, <2>1, OrchestratorAssumption
<1> QED BY <1>5, <1>6, <1>7, SlotsMove

\* One execution is replaced.
LEMMA ExecutionSet ==
    ASSUME WoTypes, NEW e \in Executions, NEW x \in ExecutionType, woExec' = [woExec EXCEPT ![e] = x]
    PROVE  /\ woExec' \in Seq(ExecutionType) /\ Len(woExec') = Len(woExec) /\ Executions' = Executions
           /\ woExec'[e] = x /\ \A d \in Executions \ {e} : woExec'[d] = woExec[d]
<1>1. woExec \in Seq(ExecutionType) /\ e \in 1 .. Len(woExec)
  BY DEF WoTypes, Executions
<1> QED BY <1>1, ExceptSeq DEF Executions

GoesOn(e, at, outcome) ==
    \/ woExec' = [woExec EXCEPT ![e].at = at, ![e].outcome = outcome]
    \/ woExec' = [woExec EXCEPT ![e].at = at] /\ outcome = woExec[e].outcome
\* An execution goes on: the sequence keeps its length and the other executions.
LEMMA ExecutionGoesOn ==
    ASSUME WoTypes, NEW e \in Executions, NEW at \in {"new", "running", "ended", "recorded", "gone"},
           NEW outcome \in {None, "completed", "failed"}, GoesOn(e, at, outcome)
    PROVE  /\ woExec' \in Seq(ExecutionType) /\ Len(woExec') = Len(woExec) /\ Executions' = Executions
           /\ woExec'[e] = [flow |-> woExec[e].flow, at |-> at, outcome |-> outcome]
           /\ \A d \in Executions \ {e} : woExec'[d] = woExec[d]
<1> DEFINE x == [flow |-> woExec[e].flow, at |-> at, outcome |-> outcome]
<1>1. woExec \in Seq(ExecutionType) /\ e \in 1 .. Len(woExec) /\ Len(woExec) \in Nat
  BY DEF WoTypes, Executions
<1>2. woExec[e] \in ExecutionType /\ woExec \in [1 .. Len(woExec) -> ExecutionType]
  BY <1>1
<1>3. x \in ExecutionType
  BY <1>2 DEF ExecutionType
<1>4. woExec' = [woExec EXCEPT ![e] = x]
  BY <1>1, <1>2 DEF ExecutionType, GoesOn
<1> HIDE DEF x
<1>5. /\ woExec' \in Seq(ExecutionType) /\ Len(woExec') = Len(woExec) /\ Executions' = Executions
      /\ woExec'[e] = x /\ \A d \in Executions \ {e} : woExec'[d] = woExec[d]
  BY <1>3, <1>4, ExecutionSet
<1> QED BY <1>5 DEF x

\* A status is earned by an execution of the workflow.
Earned(w, status) ==
    /\ status \in {"completed", "failed"} =>
          \E e \in Executions : woExec[e].flow = w /\ woExec[e].outcome = status
    /\ status = "cancelled" =>
          \E e \in Executions : woExec[e].flow = w /\ woManager[e] # "started"
\* Executions that keep their workflows and outcomes keep every status earned.
LEMMA StaysEarned ==
    ASSUME StatusIsEarned, Executions \subseteq Executions',
           \A e \in Executions : /\ woExec'[e].flow = woExec[e].flow
                                 /\ woExec[e].outcome # None => woExec'[e].outcome = woExec[e].outcome
                                 /\ woManager[e] # "started" => woManager'[e] # "started",
           \A w \in Flows : woStatus'[w] = woStatus[w] \/ Earned(w, woStatus[w])'
    PROVE  StatusIsEarned'
<1> SUFFICES ASSUME NEW w \in Flows PROVE Earned(w, woStatus[w])'
  BY DEF StatusIsEarned, Earned
<1>1. CASE woStatus'[w] = woStatus[w]
  <2>1. Earned(w, woStatus[w])
    BY DEF StatusIsEarned, Earned
  <2> QED BY <1>1, <2>1 DEF Earned, None
<1> QED BY <1>1

\* The parts of the invariant that a step does not touch.
LEMMA ExecutionsStay ==
    ASSUME WoIInv, UNCHANGED <<woExec, woCaller>>
    PROVE  CallersOK' /\ CallersApart' /\ OutcomesOK'
BY DEF WoIInv, CallersOK, CallersApart, OutcomesOK, Executions

\* An execution that nobody launches any more goes on.
LEMMA ExecutionProceeds ==
    ASSUME WoIInv, NEW e \in Executions, NEW at \in {"ended", "recorded", "gone"},
           NEW outcome \in {None, "completed", "failed"},
           woExec[e].at # "new", GoesOn(e, at, outcome), at # "gone" => outcome # None, UNCHANGED woCaller
    PROVE  CallersOK' /\ CallersApart' /\ OutcomesOK'
<1>1. WoTypes
  BY DEF WoIInv
<1>2. /\ Executions' = Executions
      /\ woExec'[e] = [flow |-> woExec[e].flow, at |-> at, outcome |-> outcome]
      /\ \A d \in Executions \ {e} : woExec'[d] = woExec[d]
  <2>1. at \in {"new", "running", "ended", "recorded", "gone"}
    OBVIOUS
  <2> QED BY ONLY <1>1, <2>1, ExecutionGoesOn, GoesOn(e, at, outcome), e \in Executions,
                  outcome \in {None, "completed", "failed"}
<1>3. woExec'[e].at = at /\ woExec'[e].outcome = outcome
  BY <1>2
<1>4. CallersOK'
  BY <1>2 DEF WoIInv, CallersOK
<1>5. CallersApart'
  BY DEF WoIInv, CallersApart
<1>6. OutcomesOK'
  BY <1>2, <1>3 DEF WoIInv, OutcomesOK
<1> QED BY <1>4, <1>5, <1>6

\* The initial state satisfies the invariant.
LEMMA WoInitially == WoInit => WoIInv
<1> SUFFICES ASSUME WoInit PROVE WoIInv
  OBVIOUS
<1>1. Executions = {} /\ Len(woExec) = 0 /\ woExec \in Seq(ExecutionType)
  BY DEF WoInit, Executions
<1>2. WoTypes
  BY <1>1, OrchestratorAssumption DEF WoInit, WoTypes, WoTypeOK, IdleCaller, None
<1>3. CallersOK /\ CallersApart /\ OutcomesOK /\ CancelOK
  BY <1>1 DEF WoInit, CallersOK, CallersApart, OutcomesOK, CancelOK, IdleCaller
<1>4. LimitOvershoot
  <2>1. CheckedCallers = {} /\ woActive = {}
    BY DEF WoInit, CheckedCallers, IdleCaller
  <2>2. Cardinality(WorkflowCallers) \in Nat /\ Cardinality(WorkflowCallers) # 0
    BY OrchestratorAssumption, FS_EmptySet, FS_CardinalityType
  <2>3. 0 <= MaxConcurrent + Cardinality(WorkflowCallers) - 1
    BY <2>2, OrchestratorAssumption
  <2>4. Cardinality(CheckedCallers) = 0 /\ Cardinality(woActive) = 0
    BY <2>1, FS_EmptySet
  <2>5. Cardinality(woActive) + Cardinality(CheckedCallers) <= MaxConcurrent + Cardinality(WorkflowCallers) - 1
    BY <2>3, <2>4
  <2> QED BY <2>5 DEF LimitOvershoot, CheckedCallers
<1>5. StatusIsEarned
  BY DEF WoInit, StatusIsEarned, None
<1> QED BY <1>2, <1>3, <1>4, <1>5 DEF WoIInv

\* A request passes the check.
LEMMA CheckMoves ==
    ASSUME WoIInv, NEW w \in Flows, NEW c \in WorkflowCallers, CheckConcurrency(c, w), LimitOvershoot'
    PROVE  WoIInv'
<1>1. UNCHANGED <<woStatus, woExec, woActive, woLive, woManager, woCancel>>
  BY DEF CheckConcurrency
<1>2. woCaller' = [woCaller EXCEPT ![c] = [at |-> "checked", flow |-> w, exec |-> 0]]
  BY DEF CheckConcurrency
<1>3. WoTypes'
  BY <1>1, <1>2, OrchestratorAssumption DEF WoIInv, WoTypes, WoTypeOK, Executions
<1>4. /\ woCaller'[c].at = "checked" /\ woCaller'[c].flow = w
      /\ \A d \in WorkflowCallers \ {c} : woCaller'[d] = woCaller[d]
  BY <1>2 DEF WoIInv, WoTypes, WoTypeOK
<1>5. CallersOK' /\ CallersApart'
  BY <1>1, <1>4 DEF WoIInv, CallersOK, CallersApart, Executions
<1>6. OutcomesOK' /\ CancelOK' /\ StatusIsEarned'
  BY <1>1 DEF WoIInv, OutcomesOK, CancelOK, StatusIsEarned, Executions
<1> QED BY <1>3, <1>5, <1>6 DEF WoIInv

\* A request that passed is given an execution, or is turned away.
LEMMA TrackMoves ==
    ASSUME WoIInv, NEW c \in WorkflowCallers, Track(c), LimitOvershoot'
    PROVE  WoIInv'
<1> DEFINE e == Len(woExec) + 1
           x == [flow |-> woCaller[c].flow, at |-> "new", outcome |-> None]
<1>0. WoTypes /\ woExec \in Seq(ExecutionType) /\ Len(woExec) \in Nat /\ woCaller[c].flow \in Flows
  BY DEF WoIInv, WoTypes, CallersOK, Track
<1>1. UNCHANGED <<woStatus, woCancel>> /\ woCaller[c].at = "checked"
  BY DEF Track
<1>2. CASE /\ e <= MaxExecutions /\ woExec' = Append(woExec, x)
           /\ woActive' = woActive \cup {e} /\ woLive' = woLive \cup {e}
           /\ woManager' = [woManager EXCEPT ![e] = "started"]
           /\ woCaller' = [woCaller EXCEPT ![c].at = "tracked", ![c].exec = e]
  <2>1. x \in ExecutionType
    BY <1>0 DEF ExecutionType
  <2>2. /\ woExec' \in Seq(ExecutionType) /\ Len(woExec') = e /\ woExec'[e] = x
        /\ \A d \in Executions : woExec'[d] = woExec[d]
    <3> HIDE DEF x
    <3> QED BY <1>0, <1>2, <2>1 DEF Executions
  <2>3. Executions' = Executions \cup {e} /\ e \notin Executions /\ e \in 1 .. MaxExecutions
    BY <1>0, <1>2, <2>2, OrchestratorAssumption DEF Executions
  <2>4. /\ woCaller'[c].at = "tracked" /\ woCaller'[c].exec = e /\ woCaller'[c].flow = woCaller[c].flow
        /\ \A d \in WorkflowCallers \ {c} : woCaller'[d] = woCaller[d]
        /\ woCaller' \in [WorkflowCallers -> [at : {"idle", "checked", "tracked"}, flow : Flows \cup {None},
                                               exec : 0 .. MaxExecutions]]
    <3> HIDE DEF e
    <3>1. woCaller \in [WorkflowCallers -> [at : {"idle", "checked", "tracked"}, flow : Flows \cup {None},
                                           exec : 0 .. MaxExecutions]]
      BY <1>0 DEF WoTypes, WoTypeOK
    <3>2. e \in 0 .. MaxExecutions
      BY <2>3, OrchestratorAssumption
    <3>3. \A d \in WorkflowCallers : woCaller'[d] = IF d = c THEN [at |-> "tracked", flow |-> woCaller[c].flow, exec |-> e]
                                                   ELSE woCaller[d]
      <4>1. DOMAIN woCaller = WorkflowCallers /\ woCaller[c] \in [at : {"idle", "checked", "tracked"},
               flow : Flows \cup {None}, exec : 0 .. MaxExecutions]
        BY <3>1
      <4>2. woCaller'[c] = [woCaller[c] EXCEPT !.at = "tracked", !.exec = e]
        BY ONLY <1>2, <4>1
      <4>3. \A d \in WorkflowCallers : d # c => woCaller'[d] = woCaller[d]
        BY ONLY <1>2, <4>1
      <4> QED BY <4>1, <4>2, <4>3
    <3>4. woCaller' = [d \in WorkflowCallers |-> woCaller'[d]]
      BY ONLY <1>2, <3>1
    <3> QED BY <1>0, <3>1, <3>2, <3>3, <3>4
  <2>5. /\ woManager' \in [1 .. MaxExecutions -> {None, "started", "stopped", "paused", "resumed"}]
        /\ \A d \in Executions : woManager'[d] = woManager[d]
    BY <1>0, <1>2, <2>3, OrchestratorAssumption DEF WoTypes, WoTypeOK, Executions
  <2>6. WoTypes'
    <3>1. \A d \in Executions' : woExec'[d] \in ExecutionType
      BY <2>2 DEF Executions
    <3>2. woActive' \subseteq Executions' /\ woLive' \subseteq Executions'
      BY <1>0, <1>2, <2>3 DEF WoTypes, WoTypeOK
    <3>3. woStatus' \in [Flows -> {None, "pending", "completed", "failed", "cancelled"}]
          /\ woCancel' \in [exec : 0 .. MaxExecutions, at : {"idle", "stopped"}]
      BY <1>0, <1>1 DEF WoTypes, WoTypeOK
    <3> QED BY <1>2, <2>2, <2>4, <2>5, <3>1, <3>2, <3>3 DEF WoTypes, WoTypeOK, ExecutionType
  <2>7. woExec'[e].at = "new" /\ woExec'[e].outcome = None
    BY <2>2
  <2> HIDE DEF x, e
  <2>8. CallersOK' /\ CallersApart'
    <3>1. \A d \in WorkflowCallers : woCaller[d].at = "tracked" =>
             woCaller[d].exec \in Executions /\ woExec[woCaller[d].exec].at = "new"
      BY DEF WoIInv, CallersOK
    <3>2. CallersOK'
      BY <1>0, <2>2, <2>3, <2>4, <2>7, <3>1 DEF WoIInv, CallersOK
    <3>3. \A d \in WorkflowCallers \ {c} : woCaller'[d].at = "tracked" => woCaller'[d].exec # e
      BY <2>3, <2>4, <3>1
    <3> QED BY <2>4, <3>2, <3>3 DEF WoIInv, CallersApart
  <2>9. OutcomesOK' /\ CancelOK'
    BY <1>1, <2>2, <2>3, <2>5, <2>7 DEF WoIInv, OutcomesOK, CancelOK
  <2>10. StatusIsEarned'
    BY <1>1, <2>2, <2>3, <2>5, StaysEarned DEF WoIInv
  <2> QED BY <2>6, <2>8, <2>9, <2>10 DEF WoIInv
<1>3. CASE woCaller' = [woCaller EXCEPT ![c] = IdleCaller] /\ UNCHANGED <<woExec, woActive, woLive, woManager>>
  <2>1. /\ woCaller'[c].at = "idle" /\ \A d \in WorkflowCallers \ {c} : woCaller'[d] = woCaller[d]
        /\ woCaller' \in [WorkflowCallers -> [at : {"idle", "checked", "tracked"}, flow : Flows \cup {None},
                                               exec : 0 .. MaxExecutions]]
    BY <1>0, <1>3, OrchestratorAssumption DEF WoTypes, WoTypeOK, IdleCaller
  <2>2. WoTypes'
    BY <1>0, <1>1, <1>3, <2>1 DEF WoTypes, WoTypeOK, Executions
  <2>3. CallersOK' /\ CallersApart'
    BY <1>3, <2>1 DEF WoIInv, CallersOK, CallersApart, Executions
  <2>4. OutcomesOK' /\ CancelOK' /\ StatusIsEarned'
    BY <1>1, <1>3 DEF WoIInv, OutcomesOK, CancelOK, StatusIsEarned, Executions
  <2> QED BY <2>2, <2>3, <2>4 DEF WoIInv
<1> QED BY <1>2, <1>3 DEF Track

\* A tracked execution is launched, or dropped.
LEMMA LaunchMoves ==
    ASSUME WoIInv, NEW c \in WorkflowCallers, Launch(c), LimitOvershoot'
    PROVE  WoIInv'
<1> DEFINE e == woCaller[c].exec
<1>0. WoTypes /\ e \in Executions /\ woExec[e].at = "new" /\ woCaller[c].at = "tracked"
  BY DEF WoIInv, CallersOK, Launch
<1>1. UNCHANGED <<woStatus, woLive, woManager, woCancel>> /\ woActive' \subseteq woActive
  BY DEF Launch
<1>2. PICK at \in {"running", "gone"} : woExec' = [woExec EXCEPT ![e].at = at]
  BY DEF Launch
<1>3. woExec[e].outcome = None /\ woExec[e].outcome \in {None, "completed", "failed"}
  BY <1>0 DEF WoIInv, OutcomesOK
<1>4. /\ woExec' \in Seq(ExecutionType) /\ Len(woExec') = Len(woExec) /\ Executions' = Executions
      /\ woExec'[e] = [flow |-> woExec[e].flow, at |-> at, outcome |-> woExec[e].outcome]
      /\ \A d \in Executions \ {e} : woExec'[d] = woExec[d]
  <2> HIDE DEF e
  <2>1. at \in {"new", "running", "ended", "recorded", "gone"}
    OBVIOUS
  <2>2. GoesOn(e, at, woExec[e].outcome)
    BY <1>2 DEF GoesOn
  <2> QED BY ONLY <1>0, <2>1, <2>2, <1>3, ExecutionGoesOn
<1>5. /\ woCaller'[c].at = "idle" /\ \A d \in WorkflowCallers \ {c} : woCaller'[d] = woCaller[d]
      /\ woCaller' \in [WorkflowCallers -> [at : {"idle", "checked", "tracked"}, flow : Flows \cup {None},
                                             exec : 0 .. MaxExecutions]]
  BY <1>0, OrchestratorAssumption DEF WoTypes, WoTypeOK, Launch, IdleCaller
<1>6. WoTypes'
  <2>1. \A d \in Executions' : woExec'[d] \in ExecutionType
    BY <1>4 DEF Executions
  <2> QED BY <1>0, <1>1, <1>4, <1>5, <2>1 DEF WoTypes, WoTypeOK, ExecutionType
<1>7. woExec'[e].at = at /\ woExec'[e].outcome = None /\ woExec'[e].flow = woExec[e].flow
  BY <1>3, <1>4
<1>8. CallersOK'
  <2>1. \A d \in WorkflowCallers \ {c} : woCaller[d].at = "tracked" => woCaller[d].exec # e
    BY <1>0 DEF WoIInv, CallersApart
  <2>2. \A d \in WorkflowCallers :
           /\ woCaller[d].at # "idle" => woCaller[d].flow \in Flows
           /\ woCaller[d].at = "tracked" =>
                 woCaller[d].exec \in Executions /\ woExec[woCaller[d].exec].at = "new"
    BY DEF WoIInv, CallersOK
  <2> HIDE DEF e
  <2> QED BY ONLY <1>4, <1>5, <1>7, <2>1, <2>2 DEF CallersOK
<1>9. CallersApart' /\ OutcomesOK' /\ CancelOK'
  <2>1. CallersApart'
    BY <1>5 DEF WoIInv, CallersApart
  <2>2. OutcomesOK'
    BY <1>4, <1>7 DEF WoIInv, OutcomesOK
  <2> QED BY <1>1, <1>4, <2>1, <2>2 DEF WoIInv, CancelOK
<1>10. StatusIsEarned'
  <2>1. \A d \in Executions : /\ woExec'[d].flow = woExec[d].flow
                              /\ woExec[d].outcome # None => woExec'[d].outcome = woExec[d].outcome
                              /\ woManager[d] # "started" => woManager'[d] # "started"
    BY <1>1, <1>3, <1>4, <1>7
  <2>2. \A w \in Flows : woStatus'[w] = woStatus[w]
    BY <1>1
  <2> HIDE DEF e
  <2> QED BY <1>4, <2>1, <2>2, StaysEarned DEF WoIInv
<1> QED BY <1>6, <1>8, <1>9, <1>10 DEF WoIInv

\* The executions go on, or all of them go.
LEMMA ExecutionsMove ==
    ASSUME WoIInv, NEW e \in Executions, Proceed(e), LimitOvershoot'
    PROVE  WoIInv'
<1>0. WoTypes /\ woExec[e] \in ExecutionType
  BY DEF WoIInv, WoTypes, Executions
<1>1. UNCHANGED <<woCaller, woManager, woCancel>> /\ woActive' \subseteq woActive /\ woLive' \subseteq woLive
      /\ woExec[e].at # "new"
  BY DEF Proceed, ExecutorReturns, RecordOutcome, Cleanup
<1>2. PICK at \in {"ended", "recorded", "gone"}, outcome \in {None, "completed", "failed"} :
         /\ GoesOn(e, at, outcome)
         /\ at # "gone" => outcome # None
         /\ woExec[e].outcome # None => outcome = woExec[e].outcome
  <2>1. CASE ExecutorReturns(e)
    <3>1. woExec[e].outcome = None
      BY <2>1 DEF ExecutorReturns, WoIInv, OutcomesOK
    <3> QED BY <2>1, <3>1 DEF ExecutorReturns, None, GoesOn
  <2>2. CASE RecordOutcome(e)
    <3>1. woExec[e].outcome # None /\ woExec' = [woExec EXCEPT ![e].at = "recorded"]
      BY <2>2 DEF RecordOutcome, WoIInv, OutcomesOK
    <3> QED BY <1>0, <3>1 DEF ExecutionType, GoesOn
  <2>3. CASE Cleanup(e)
    BY <1>0, <2>3 DEF Cleanup, ExecutionType, GoesOn
  <2> QED BY <2>1, <2>2, <2>3 DEF Proceed
<1>3. /\ woExec' \in Seq(ExecutionType) /\ Len(woExec') = Len(woExec) /\ Executions' = Executions
      /\ woExec'[e] = [flow |-> woExec[e].flow, at |-> at, outcome |-> outcome]
      /\ \A d \in Executions \ {e} : woExec'[d] = woExec[d]
  BY ONLY <1>0, <1>2, ExecutionGoesOn, e \in Executions
<1>4. woExec'[e].flow = woExec[e].flow /\ woExec'[e].outcome = outcome
  BY <1>3
<1>5. CallersOK' /\ CallersApart' /\ OutcomesOK'
  BY <1>1, <1>2, ExecutionProceeds
<1>6. woStatus' = woStatus \/ (woExec[e].outcome # None /\ woStatus' = [woStatus EXCEPT ![woExec[e].flow] = woExec[e].outcome])
  BY DEF Proceed, ExecutorReturns, RecordOutcome, Cleanup, WoIInv, OutcomesOK
<1>7. woStatus' \in [Flows -> {None, "pending", "completed", "failed", "cancelled"}]
  BY <1>0, <1>6 DEF WoTypes, WoTypeOK, ExecutionType
<1>8. WoTypes'
  <2>1. \A d \in Executions' : woExec'[d] \in ExecutionType
    BY <1>3 DEF Executions
  <2> QED BY <1>0, <1>1, <1>3, <1>7, <2>1 DEF WoTypes, WoTypeOK, ExecutionType
<1>9. StatusIsEarned'
  <2>1. \A d \in Executions : /\ woExec'[d].flow = woExec[d].flow
                              /\ woExec[d].outcome # None => woExec'[d].outcome = woExec[d].outcome
                              /\ woManager[d] # "started" => woManager'[d] # "started"
    BY <1>1, <1>2, <1>3, <1>4
  <2>2. \A w \in Flows : woStatus'[w] = woStatus[w] \/ Earned(w, woStatus[w])'
    <3> SUFFICES ASSUME NEW w \in Flows, woStatus'[w] # woStatus[w] PROVE Earned(w, woStatus[w])'
      OBVIOUS
    <3>1. woExec[e].outcome # None /\ w = woExec[e].flow /\ woStatus'[w] = woExec[e].outcome
      BY <1>0, <1>6 DEF WoTypes, WoTypeOK
    <3>2. woExec'[e].flow = w /\ woExec'[e].outcome = woStatus'[w] /\ woStatus'[w] # "cancelled"
      BY <1>0, <2>1, <3>1 DEF ExecutionType, None
    <3> QED BY <1>3, <3>2 DEF Earned
  <2> QED BY <1>3, <2>1, <2>2, StaysEarned DEF WoIInv
<1> QED BY <1>1, <1>3, <1>5, <1>8, <1>9 DEF WoIInv, CancelOK

\* A context ends, or the manager is told to stop, pause or resume an execution.
LEMMA ManagerMoves ==
    ASSUME WoIInv, LimitOvershoot', NEW e \in Executions,
           RequestEnds(e) \/ StopExecution(e) \/ PauseWorkflow(e) \/ ResumeWorkflow(e)
    PROVE  WoIInv'
<1>0. /\ WoTypes /\ Executions' = Executions
      /\ e \in 1 .. MaxExecutions /\ Executions \subseteq 1 .. MaxExecutions
  BY OrchestratorAssumption
     DEF WoIInv, WoTypes, Executions, RequestEnds, StopExecution, PauseWorkflow, ResumeWorkflow
<1>1. UNCHANGED <<woStatus, woCaller, woExec, woActive>> /\ woLive' \subseteq woLive
  BY DEF RequestEnds, StopExecution, PauseWorkflow, ResumeWorkflow
<1>2. woManager' = woManager \/ \E m \in {"stopped", "paused", "resumed"} : woManager' = [woManager EXCEPT ![e] = m]
  BY DEF RequestEnds, StopExecution, PauseWorkflow, ResumeWorkflow
<1>3. /\ woManager' \in [1 .. MaxExecutions -> {None, "started", "stopped", "paused", "resumed"}]
      /\ \A d \in Executions : woManager[d] # "started" => woManager'[d] # "started"
  <2>1. woManager \in [1 .. MaxExecutions -> {None, "started", "stopped", "paused", "resumed"}]
    BY <1>0 DEF WoTypes, WoTypeOK
  <2>2. ASSUME NEW m \in {"stopped", "paused", "resumed"}, woManager' = [woManager EXCEPT ![e] = m]
        PROVE  /\ woManager' \in [1 .. MaxExecutions -> {None, "started", "stopped", "paused", "resumed"}]
               /\ \A d \in 1 .. MaxExecutions : woManager[d] # "started" => woManager'[d] # "started"
    BY <1>0, <2>1, <2>2
  <2> QED BY <1>0, <1>2, <2>1, <2>2
<1>4. woCancel' = woCancel
      \/ (woCancel' = [exec |-> e, at |-> "stopped"] /\ woManager' = [woManager EXCEPT ![e] = "stopped"])
  BY DEF RequestEnds, StopExecution, PauseWorkflow, ResumeWorkflow
<1>5. WoTypes'
  <2>1. woCancel' \in [exec : 0 .. MaxExecutions, at : {"idle", "stopped"}]
    BY <1>0, <1>4 DEF WoTypes, WoTypeOK
  <2> QED BY <1>0, <1>1, <1>3, <2>1 DEF WoTypes, WoTypeOK, Executions
<1>6. CancelOK'
  <2>1. CASE woCancel' = woCancel
    BY <1>0, <1>3, <2>1 DEF WoIInv, CancelOK
  <2>2. CASE woCancel' = [exec |-> e, at |-> "stopped"] /\ woManager' = [woManager EXCEPT ![e] = "stopped"]
    BY <1>0, <2>2 DEF CancelOK, WoTypes, WoTypeOK
  <2> QED BY <1>4, <2>1, <2>2
<1>7. StatusIsEarned'
  BY <1>0, <1>1, <1>3, StaysEarned DEF WoIInv
<1> QED BY <1>1, <1>5, <1>6, <1>7, ExecutionsStay DEF WoIInv

\* A workflow is created, or set to cancelled after the manager stopped an execution of it.
LEMMA StatusMoves ==
    ASSUME WoIInv, LimitOvershoot', RecordCancelled \/ \E w \in Flows : CreateWorkflow(w)
    PROVE  WoIInv'
<1>0. WoTypes
  BY DEF WoIInv
<1>1. UNCHANGED <<woCaller, woExec, woActive, woLive, woManager>> /\ Executions' = Executions
  BY DEF RecordCancelled, CreateWorkflow, Executions
<1>2. woCancel' \in {woCancel, [exec |-> 0, at |-> "idle"]}
  BY DEF RecordCancelled, CreateWorkflow
<1>3. CancelOK'
  BY <1>1, <1>2 DEF WoIInv, CancelOK
<1>4. \E w \in Flows, s \in {"pending", "cancelled"} :
         /\ woStatus' = woStatus \/ woStatus' = [woStatus EXCEPT ![w] = s]
         /\ s = "cancelled" => \E e \in Executions : woExec[e].flow = w /\ woManager[e] # "started"
  <2>1. CASE RecordCancelled
    <3>1. /\ woCancel.exec \in Executions /\ woManager[woCancel.exec] # "started"
          /\ woExec[woCancel.exec].flow \in Flows
      BY <1>0, <2>1 DEF RecordCancelled, WoIInv, CancelOK, WoTypes, WoTypeOK
    <3> QED BY <2>1, <3>1 DEF RecordCancelled
  <2>2. CASE \E w \in Flows : CreateWorkflow(w)
    BY <2>2 DEF CreateWorkflow
  <2> QED BY <2>1, <2>2
<1>5. WoTypes'
  <2>1. woStatus' \in [Flows -> {None, "pending", "completed", "failed", "cancelled"}]
    BY <1>0, <1>4 DEF WoTypes, WoTypeOK
  <2>2. woCancel' \in [exec : 0 .. MaxExecutions, at : {"idle", "stopped"}]
    BY <1>0, <1>2, OrchestratorAssumption DEF WoTypes, WoTypeOK
  <2> QED BY <1>0, <1>1, <2>1, <2>2 DEF WoTypes, WoTypeOK
<1>6. \A w \in Flows : woStatus'[w] = woStatus[w] \/ Earned(w, woStatus[w])'
  BY <1>0, <1>1, <1>4 DEF Earned, WoTypes, WoTypeOK
<1>7. StatusIsEarned'
  BY <1>1, <1>6, StaysEarned DEF WoIInv
<1> QED BY <1>1, <1>3, <1>5, <1>7, ExecutionsStay DEF WoIInv

\* The process ends: every execution is gone, and its outcome stays.
LEMMA CrashMoves ==
    ASSUME WoIInv, LimitOvershoot', ProcessCrashes
    PROVE  WoIInv'
<1>0. WoTypes /\ UNCHANGED <<woStatus, woManager>> /\ woActive' = {} /\ woLive' = {}
  BY DEF WoIInv, ProcessCrashes
<1>1. \A e \in Executions : woExec[e] \in ExecutionType
  BY <1>0 DEF WoTypes, Executions
<1>2. woExec' = [e \in 1 .. Len(woExec) |-> [woExec[e] EXCEPT !.at = "gone"]] /\ Len(woExec) \in Nat
  BY <1>0 DEF ProcessCrashes, Executions, WoTypes
<1>3. \A e \in 1 .. Len(woExec) : [woExec[e] EXCEPT !.at = "gone"] \in ExecutionType
  BY <1>1 DEF Executions, ExecutionType
<1>4. woExec' \in Seq(ExecutionType) /\ Len(woExec') = Len(woExec) /\ Executions' = Executions
  BY <1>2, <1>3 DEF Executions
<1>5. \A e \in Executions : /\ woExec'[e].flow = woExec[e].flow /\ woExec'[e].outcome = woExec[e].outcome
                            /\ woExec'[e].at = "gone"
  BY <1>1, <1>2 DEF Executions, ExecutionType
<1>6. woCaller' = [c \in WorkflowCallers |-> IdleCaller] /\ woCancel' = [exec |-> 0, at |-> "idle"]
  BY DEF ProcessCrashes
<1>7. WoTypes'
  <2>1. \A e \in Executions' : woExec'[e] \in ExecutionType
    BY <1>2, <1>3, <1>4 DEF Executions
  <2> QED BY <1>0, <1>4, <1>6, <2>1, OrchestratorAssumption DEF WoTypes, WoTypeOK, IdleCaller, ExecutionType
<1>8. CallersOK' /\ CallersApart' /\ OutcomesOK' /\ CancelOK'
  BY <1>4, <1>5, <1>6 DEF CallersOK, CallersApart, OutcomesOK, CancelOK, IdleCaller
<1>9. StatusIsEarned'
  BY <1>0, <1>4, <1>5, StaysEarned DEF WoIInv
<1> QED BY <1>7, <1>8, <1>9 DEF WoIInv

\* Every step preserves the invariant.
LEMMA WoStep == WoIInv /\ [WoNext]_woVars => WoIInv'
<1> SUFFICES ASSUME WoIInv, [WoNext]_woVars PROVE WoIInv'
  OBVIOUS
<1>1. LimitOvershoot'
  BY LimitStep DEF WoIInv
<1>2. CASE UNCHANGED woVars
  <2>1. UNCHANGED <<woStatus, woCaller, woExec, woActive, woLive, woManager, woCancel>>
    BY <1>2 DEF woVars
  <2>2. WoTypes'
    BY <2>1 DEF WoIInv, WoTypes, WoTypeOK, Executions
  <2>3. CancelOK' /\ StatusIsEarned'
    BY <2>1 DEF WoIInv, CancelOK, StatusIsEarned, Executions
  <2> QED BY <1>1, <2>1, <2>2, <2>3, ExecutionsStay DEF WoIInv
<1>3. CASE WoNext
  BY <1>1, <1>3, CheckMoves, TrackMoves, LaunchMoves, ExecutionsMove, ManagerMoves, StatusMoves, CrashMoves
     DEF WoNext
<1> QED BY <1>2, <1>3

\* The executions that are active never exceed the limit by more than the requests that can be
\* between its check and their tracking; and a workflow is completed, failed or cancelled only when
\* one of its executions ended so or was stopped: for any numbers of workflows, requests and
\* executions, and through crashes.
THEOREM OrchestratorKeepsItsWord == WoSpec => []OrchestratorSafety
<1>1. WoIInv => OrchestratorSafety
  BY DEF WoIInv, WoTypes, OrchestratorSafety
<1> QED BY <1>1, WoInitially, WoStep, PTL DEF WoSpec
=============================================================================
