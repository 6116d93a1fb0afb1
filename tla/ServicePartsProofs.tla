------------------------- MODULE ServicePartsProofs -------------------------
(***************************************************************************)
(* Proofs about parts of the services that stand on their own, for any        *)
(* number of events, uploads, workers, requests and versions: the deliveries  *)
(* of WebhookDelivery, the tasks and the progress of FileProcessing, the      *)
(* order, the detection, the lifecycle and the windows of Versioning, and the *)
(* copies of UserService, Caching and FrontendClient.                         *)
(***************************************************************************)
EXTENDS WebhookDelivery, FileProcessing, Versioning, UserService, Caching, FrontendClient, SequenceTheorems, FiniteSetTheorems, TLAPS

(***************************************************************************)
(* Webhook deliveries.                                                     *)
(***************************************************************************)
WorkPlaces == {"idle", "create", "send", "save ok", "save failure", "retry or bury", "bury", "abandon"}
CopyType == [row : Nat, n : Nat, event : Ids]
WorkType == [at : WorkPlaces, event : Ids \cup {0}, row : Nat, n : Nat, hook : HookCopies,
             todo : SUBSET CopyType]

WhTypes ==
    /\ whHook \in HookStatuses /\ whUrl \in BOOLEAN /\ whPanicked \in BOOLEAN /\ whSubs \subseteq Subscriptions
    /\ whSeen \subseteq Ids /\ whSent \subseteq Ids /\ whFaults \in 0 .. MaxWebhookFaults
    /\ whRows \in Seq(DeliveryAttempts) /\ whDead \in Seq(DeadLetters)
    /\ whReplay \in [Admins -> 0 .. Len(whDead)]
    /\ whWork \in [Workers -> WorkType]

\* What a copy says of its row.
CopyHolds(row, event) == row \in DOMAIN whRows /\ whRows[row].event = event
WorkOK(w) ==
    LET k == whWork[w]
    IN  /\ k.at = "create" => k.event \in Ids /\ k.n = 1 /\ k.row = 0 /\ k.todo = {}
        /\ k.at \notin {"idle", "create"} => CopyHolds(k.row, k.event) /\ k.n \in 1 .. MaxAttempts
        /\ \A c \in k.todo : CopyHolds(c.row, c.event) /\ c.n \in 1 .. MaxAttempts - 1
        /\ k.at = "save ok" => k.event \in whSent
        /\ k.at = "abandon" => \E d \in DOMAIN whDead : whDead[d].event = k.event
RowOK(r) ==
    /\ whRows[r].status = "retrying" => whRows[r].n < MaxAttempts
    /\ whRows[r].status = "delivered" => whRows[r].event \in whSent
    /\ whRows[r].status = "abandoned" => \E d \in DOMAIN whDead : whDead[d].event = whRows[r].event
    /\ whRows[r].status \in {"pending", "failed"} =>
          Held(r) \/ whFaults > 0 \/ whPanicked \/ whRows[r].replayed

WhIInv ==
    /\ WhTypes
    /\ \A w \in Workers : WorkOK(w)
    /\ \A r \in DOMAIN whRows : RowOK(r)

\* What no step undoes: rows stay with their events, what was sent was sent, dead letters stay, and a
\* panic has happened.
History ==
    /\ DOMAIN whRows \subseteq DOMAIN whRows' /\ \A r \in DOMAIN whRows : whRows'[r].event = whRows[r].event
    /\ whSent \subseteq whSent'
    /\ \A d \in DOMAIN whDead : d \in DOMAIN whDead' /\ whDead'[d].event = whDead[d].event
    /\ whPanicked => whPanicked'
    /\ whFaults > 0 => whFaults' > 0

\* A worker that a step leaves alone still holds what it held.
LEMMA WorkStays ==
    ASSUME History, NEW w \in Workers, WorkOK(w), whWork'[w] = whWork[w]
    PROVE  WorkOK(w)'
BY DEF History, WorkOK, CopyHolds

\* A row that a step leaves alone, with the same holder or an excuse for having none.
LEMMA RowStays ==
    ASSUME WhTypes, History, NEW r \in DOMAIN whRows, RowOK(r),
           whRows'[r].status = whRows[r].status, whRows'[r].n = whRows[r].n,
           whRows'[r].replayed = whRows[r].replayed,
           Held(r) => Held(r)' \/ whFaults' > 0 \/ whPanicked'
           \/ whRows[r].status \notin {"pending", "failed"}
    PROVE  RowOK(r)'
<1>1. whFaults \in Nat
  BY DEF WhTypes
<1> QED BY <1>1 DEF History, RowOK

\* What a worker does not hold, it does not drop.
LEMMA HeldStays ==
    ASSUME NEW w \in Workers, NEW r, \A v \in Workers \ {w} : whWork'[v] = whWork[v],
           \/ whWork[w].at = "idle"
           \/ whWork[w].row # r
           \/ whWork'[w].at # "idle" /\ whWork'[w].row = whWork[w].row,
           Held(r)
    PROVE  Held(r)'
BY DEF Held

\* A worker's state is replaced.
LEMMA WorkSet ==
    ASSUME WhTypes, NEW w \in Workers, NEW k \in WorkType, whWork' = [whWork EXCEPT ![w] = k]
    PROVE  /\ whWork' \in [Workers -> WorkType] /\ whWork'[w] = k
           /\ \A v \in Workers \ {w} : whWork'[v] = whWork[v]
BY DEF WhTypes

\* A worker stays at its row.
LEMMA GoesTo ==
    ASSUME WhTypes, NEW w \in Workers, NEW at \in WorkPlaces, Goto(w, at)
    PROVE  /\ whWork' \in [Workers -> WorkType]
           /\ whWork'[w].at = at /\ whWork'[w].event = whWork[w].event /\ whWork'[w].row = whWork[w].row
           /\ whWork'[w].n = whWork[w].n /\ whWork'[w].hook = whWork[w].hook /\ whWork'[w].todo = whWork[w].todo
           /\ \A v \in Workers \ {w} : whWork'[v] = whWork[v]
BY DEF WhTypes, Goto, WorkType

\* A worker takes up a copy of a row, with the rest of the batch still to do.
LEMMA RetryHolds ==
    ASSUME WhTypes, WebhookAssumption, NEW w \in Workers, NEW c \in CopyType, NEW hook \in HookCopies,
           NEW todo \in SUBSET CopyType,
           CopyHolds(c.row, c.event)', c.n \in 1 .. MaxAttempts - 1,
           \A d \in todo : CopyHolds(d.row, d.event)' /\ d.n \in 1 .. MaxAttempts - 1,
           whWork' = [whWork EXCEPT ![w] = Retry(c, hook, todo)]
    PROVE  /\ whWork' \in [Workers -> WorkType] /\ WorkOK(w)'
           /\ \A v \in Workers \ {w} : whWork'[v] = whWork[v]
<1>1. c.n + 1 \in 1 .. MaxAttempts
  BY WebhookAssumption
<1>2. Retry(c, hook, todo) \in WorkType
  <2>1. c.event \in Ids \cup {0} /\ c.row \in Nat /\ c.n + 1 \in Nat
    BY <1>1 DEF CopyType
  <2>2. "send" \in WorkPlaces
    BY DEF WorkPlaces
  <2> QED BY <2>1, <2>2 DEF WorkType, Retry
<1>3. /\ whWork' \in [Workers -> WorkType] /\ whWork'[w] = Retry(c, hook, todo)
      /\ \A v \in Workers \ {w} : whWork'[v] = whWork[v]
  BY <1>2, WorkSet
<1>4. /\ whWork'[w].at = "send" /\ whWork'[w].event = c.event /\ whWork'[w].row = c.row
      /\ whWork'[w].n = c.n + 1 /\ whWork'[w].hook = hook /\ whWork'[w].todo = todo
  BY <1>3 DEF Retry
<1>5. WorkOK(w)'
  BY <1>1, <1>4 DEF WorkOK
<1> QED BY <1>3, <1>5

\* A worker goes on to a row of its batch, or rests.
LEMMA GoesNext ==
    ASSUME WhTypes, WebhookAssumption, NEW w \in Workers, WorkOK(w), History, NextRow(w)
    PROVE  /\ whWork' \in [Workers -> WorkType] /\ WorkOK(w)'
           /\ \A v \in Workers \ {w} : whWork'[v] = whWork[v]
<1>1. whWork \in [Workers -> WorkType] /\ whWork[w].todo \subseteq CopyType /\ whWork[w].hook \in HookCopies
  BY DEF WhTypes, WorkType
<1>2. CASE whWork' = [whWork EXCEPT ![w] = IdleWorker]
  <2>1. IdleWorker \in WorkType
    BY DEF IdleWorker, WorkType, WorkPlaces, HookCopies
  <2>2. /\ whWork' \in [Workers -> WorkType] /\ whWork'[w] = IdleWorker
        /\ \A v \in Workers \ {w} : whWork'[v] = whWork[v]
    BY <1>2, <2>1, WorkSet
  <2>3. whWork'[w].at = "idle" /\ whWork'[w].todo = {} /\ whWork'[w].hook = "usable"
    BY <2>2 DEF IdleWorker
  <2> QED BY <2>2, <2>3 DEF WorkOK
<1>3. ASSUME NEW c \in whWork[w].todo, whWork' = [whWork EXCEPT ![w] = Retry(c, whWork[w].hook, whWork[w].todo \ {c})]
      PROVE  /\ whWork' \in [Workers -> WorkType] /\ WorkOK(w)'
             /\ \A v \in Workers \ {w} : whWork'[v] = whWork[v]
  <2>1. \A d \in whWork[w].todo : CopyHolds(d.row, d.event) /\ d.n \in 1 .. MaxAttempts - 1
    BY DEF WorkOK
  <2>2. \A d \in whWork[w].todo : CopyHolds(d.row, d.event)'
    BY <2>1 DEF CopyHolds, History
  <2>4. whWork[w].todo \ {c} \in SUBSET CopyType
    BY <1>1
  <2>5. c \in CopyType
    BY <1>1
  <2> QED BY <1>1, <1>3, <2>1, <2>2, <2>4, <2>5, RetryHolds
<1> QED BY <1>1, <1>2, <1>3 DEF NextRow

\* What an action of worker w has to show.
LEMMA WorkerKeeps ==
    ASSUME WhIInv, WhTypes', History, NEW w \in Workers, WorkOK(w)',
           \A v \in Workers \ {w} : whWork'[v] = whWork[v],
           \A r \in DOMAIN whRows' : RowOK(r)'
    PROVE  WhIInv'
<1>1. ASSUME NEW v \in Workers PROVE WorkOK(v)'
  <2>1. CASE v = w
    BY <2>1
  <2>2. CASE v # w
    BY <2>2, WorkStays DEF WhIInv
  <2> QED BY <2>1, <2>2
<1> QED BY <1>1 DEF WhIInv

\* The rows after a step that leaves them and keeps each one held, or has an excuse.
LEMMA RowsStay ==
    ASSUME WhIInv, History, UNCHANGED whRows,
           \A r \in DOMAIN whRows : whRows[r].status \in {"pending", "failed"} /\ Held(r) =>
                Held(r)' \/ whFaults' > 0 \/ whPanicked'
    PROVE  \A r \in DOMAIN whRows' : RowOK(r)'
<1> SUFFICES ASSUME NEW r \in DOMAIN whRows PROVE RowOK(r)'
  BY DEF WhIInv
<1>1. Held(r) => Held(r)' \/ whFaults' > 0 \/ whPanicked' \/ whRows[r].status \notin {"pending", "failed"}
  OBVIOUS
<1> QED BY <1>1, RowStays DEF WhIInv

\* A worker saves its copy, or the statement fails.
LEMMA CopySaved ==
    ASSUME WhIInv, WebhookAssumption, NEW w \in Workers, whWork[w].at \notin {"idle", "create"},
           NEW status \in {"delivered", "failed", "retrying", "abandoned"}, SaveCopy(w, status, FALSE),
           UNCHANGED <<whPanicked, whDead, whSent>>
    PROVE  /\ History /\ whRows' \in Seq(DeliveryAttempts) /\ whFaults' \in 0 .. MaxWebhookFaults
           /\ DOMAIN whRows' = DOMAIN whRows
           /\ \A r \in DOMAIN whRows : /\ whRows'[r].event = whRows[r].event
                                       /\ whRows'[r].replayed = whRows[r].replayed
                                       /\ r # whWork[w].row => whRows'[r] = whRows[r]
           /\ \/ whRows' = whRows /\ whFaults' > 0
              \/ whRows'[whWork[w].row].status = status /\ whRows'[whWork[w].row].n = whWork[w].n
<1> DEFINE r == whWork[w].row
<1>1. /\ r \in DOMAIN whRows /\ whRows[r].event = whWork[w].event /\ whWork[w].n \in 1 .. MaxAttempts
      /\ whRows \in Seq(DeliveryAttempts) /\ whFaults \in 0 .. MaxWebhookFaults
  BY DEF WhIInv, WhTypes, WorkOK, CopyHolds
<1>2. CASE UNCHANGED whRows /\ Fault
  BY <1>1, <1>2, WebhookAssumption DEF Fault, History
<1>3. CASE NoFault /\ whRows' = [whRows EXCEPT ![whWork[w].row].status = status, ![whWork[w].row].due = FALSE,
                                              ![whWork[w].row].n = whWork[w].n]
  <2>1. whRows[r] \in DeliveryAttempts
    BY <1>1
  <2> DEFINE saved == [whRows[r] EXCEPT !.status = status, !.due = FALSE, !.n = whWork[w].n]
  <2>2. saved \in DeliveryAttempts /\ saved.event = whRows[r].event /\ saved.replayed = whRows[r].replayed
        /\ saved.status = status /\ saved.n = whWork[w].n
    BY <1>1, <2>1 DEF DeliveryAttempts
  <2>3. whRows' = [whRows EXCEPT ![r] = saved]
    BY <1>1, <1>3
  <2> HIDE DEF saved, r
  <2>4. whRows' \in Seq(DeliveryAttempts) /\ DOMAIN whRows' = DOMAIN whRows /\ whRows'[r] = saved
        /\ \A x \in DOMAIN whRows : x # r => whRows'[x] = whRows[x]
    BY <1>1, <2>2, <2>3
  <2>5. History
    BY <1>1, <1>3, <2>2, <2>4 DEF History, NoFault
  <2> QED BY <1>1, <1>3, <2>2, <2>4, <2>5 DEF NoFault, r
<1> QED BY <1>2, <1>3 DEF SaveCopy

\* The rows after a worker's Save: its own is what the worker knew of it.
LEMMA RowsSaved ==
    ASSUME WhIInv, WebhookAssumption, NEW w \in Workers, whWork[w].at \notin {"idle", "create"},
           NEW status \in {"delivered", "failed", "retrying", "abandoned"}, SaveCopy(w, status, FALSE),
           UNCHANGED <<whPanicked, whDead, whSent>>,
           \A v \in Workers \ {w} : whWork'[v] = whWork[v],
           status = "retrying" => whWork[w].n < MaxAttempts,
           status = "delivered" => whWork[w].event \in whSent,
           status = "abandoned" => \E d \in DOMAIN whDead : whDead[d].event = whWork[w].event,
           status = "failed" => whWork'[w].at # "idle" /\ whWork'[w].row = whWork[w].row
    PROVE  \A r \in DOMAIN whRows' : RowOK(r)'
<1>1. /\ History /\ DOMAIN whRows' = DOMAIN whRows
      /\ \A r \in DOMAIN whRows : /\ whRows'[r].event = whRows[r].event
                                  /\ whRows'[r].replayed = whRows[r].replayed
                                  /\ r # whWork[w].row => whRows'[r] = whRows[r]
      /\ \/ whRows' = whRows /\ whFaults' > 0
         \/ whRows'[whWork[w].row].status = status /\ whRows'[whWork[w].row].n = whWork[w].n
  BY CopySaved
<1>2. whWork[w].row \in DOMAIN whRows /\ whRows[whWork[w].row].event = whWork[w].event
  BY DEF WhIInv, WorkOK, CopyHolds
<1> SUFFICES ASSUME NEW r \in DOMAIN whRows PROVE RowOK(r)'
  BY <1>1
<1>3. RowOK(r) /\ WhTypes
  BY DEF WhIInv
<1>4. CASE whRows' = whRows /\ whFaults' > 0
  BY <1>1, <1>3, <1>4, RowStays
<1>5. CASE r # whWork[w].row
  <2>1. Held(r) => Held(r)'
    BY <1>5, HeldStays
  <2> QED BY <1>1, <1>3, <1>5, <2>1, RowStays
<1>6. CASE r = whWork[w].row /\ whRows'[r].status = status /\ whRows'[r].n = whWork[w].n
  <2>1. whRows'[r].event = whWork[w].event
    BY <1>1, <1>2, <1>6
  <2>2. status = "failed" => Held(r)'
    BY <1>6 DEF Held
  <2> QED BY <1>6, <2>1, <2>2 DEF RowOK
<1> QED BY <1>1, <1>4, <1>5, <1>6

\* What the invariant says at once.
LEMMA Known ==
    ASSUME WhIInv, WebhookAssumption
    PROVE  /\ WhTypes /\ whFaults \in Nat /\ whFaults \in 0 .. MaxWebhookFaults /\ whSent \subseteq Ids /\ whSeen \subseteq Ids
           /\ whRows \in Seq(DeliveryAttempts) /\ whDead \in Seq(DeadLetters) /\ whWork \in [Workers -> WorkType]
           /\ \A r \in DOMAIN whRows : RowOK(r) /\ r \in Nat \ {0} /\ whRows[r].event \in Ids
                                       /\ whRows[r].n \in 1 .. MaxAttempts
           /\ \A w \in Workers : /\ WorkOK(w)
                                 /\ whWork[w].at \notin {"idle", "create"} =>
                                       /\ whWork[w].row \in DOMAIN whRows /\ whWork[w].event \in Ids
                                       /\ whRows[whWork[w].row].event = whWork[w].event
                                       /\ whWork[w].n \in 1 .. MaxAttempts
<1>1. /\ WhTypes /\ (\A r \in DOMAIN whRows : RowOK(r)) /\ \A w \in Workers : WorkOK(w)
  BY DEF WhIInv
<1>2. /\ whFaults \in 0 .. MaxWebhookFaults /\ whSent \subseteq Ids /\ whSeen \subseteq Ids
      /\ whRows \in Seq(DeliveryAttempts) /\ whDead \in Seq(DeadLetters) /\ whWork \in [Workers -> WorkType]
  BY <1>1 DEF WhTypes
<1>3. whFaults \in Nat
  BY <1>2, WebhookAssumption
<1>4. \A r \in DOMAIN whRows : whRows[r] \in DeliveryAttempts /\ r \in Nat \ {0}
  BY <1>2
<1>5. \A r \in DOMAIN whRows : whRows[r].event \in Ids /\ whRows[r].n \in 1 .. MaxAttempts
  BY <1>4 DEF DeliveryAttempts
<1>6. ASSUME NEW w \in Workers, whWork[w].at \notin {"idle", "create"}
      PROVE  /\ whWork[w].row \in DOMAIN whRows /\ whWork[w].event \in Ids
             /\ whRows[whWork[w].row].event = whWork[w].event /\ whWork[w].n \in 1 .. MaxAttempts
  BY <1>1, <1>5, <1>6 DEF WorkOK, CopyHolds
<1> QED BY <1>1, <1>2, <1>3, <1>4, <1>5, <1>6

\* A step that leaves rows, dead letters and webhook as they are.
LEMMA Quiet ==
    ASSUME whPanicked' = whPanicked, whRows' = whRows, whDead' = whDead, whSent \subseteq whSent', whFaults > 0 => whFaults' > 0
    PROVE  History
BY DEF History

\* A new row, pending and at its first attempt.
LEMMA RowAdded ==
    ASSUME WhTypes, WebhookAssumption, NEW event \in Ids, NEW replayed \in BOOLEAN,
           whRows' = NewAttempt(event, replayed)
    PROVE  /\ whRows' \in Seq(DeliveryAttempts) /\ Len(whRows) \in Nat
           /\ DOMAIN whRows' = DOMAIN whRows \cup {Len(whRows) + 1} /\ Len(whRows) + 1 \notin DOMAIN whRows
           /\ \A r \in DOMAIN whRows : whRows'[r] = whRows[r]
           /\ whRows'[Len(whRows) + 1].event = event /\ whRows'[Len(whRows) + 1].status = "pending"
           /\ whRows'[Len(whRows) + 1].replayed = replayed
<1> DEFINE new == [event |-> event, status |-> "pending", n |-> 1, due |-> FALSE, replayed |-> replayed]
<1>1. new \in DeliveryAttempts
  BY WebhookAssumption DEF DeliveryAttempts
<1>2. whRows \in Seq(DeliveryAttempts) /\ whRows' = Append(whRows, new)
  BY DEF WhTypes, NewAttempt
<1>3. new.event = event /\ new.status = "pending" /\ new.replayed = replayed
  OBVIOUS
<1> HIDE DEF new
<1> QED BY <1>1, <1>2, <1>3

\* An event is matched, and a worker is to deliver it.
LEMMA Dispatched ==
    ASSUME WhIInv, WebhookAssumption, NEW w \in Workers, NEW e \in Events, DispatchEvent(w, e)
    PROVE  WhIInv'
<1>1. History /\ WhTypes
  BY WebhookAssumption DEF WhIInv, WhTypes, History, DispatchEvent
<1>2. e.id \in Ids
  BY DEF Ids
<1> DEFINE k == [IdleWorker EXCEPT !.at = "create", !.event = e.id, !.n = 1, !.hook = HookCopy]
<1>3. k \in WorkType /\ k.at = "create" /\ k.event = e.id /\ k.n = 1 /\ k.row = 0 /\ k.todo = {}
  BY <1>2 DEF IdleWorker, WorkType, WorkPlaces, HookCopies, HookCopy
<1> HIDE DEF k
<1>4. /\ whWork' \in [Workers -> WorkType] /\ WorkOK(w)' /\ \A v \in Workers \ {w} : whWork'[v] = whWork[v]
  <2>1. CASE whWork' = [whWork EXCEPT ![w] = k]
    <3>1. whWork' \in [Workers -> WorkType] /\ whWork'[w] = k /\ \A v \in Workers \ {w} : whWork'[v] = whWork[v]
      BY <1>1, <1>3, <2>1, WorkSet
    <3> QED BY <1>2, <1>3, <3>1 DEF WorkOK
  <2>2. CASE UNCHANGED whWork
    BY <1>1, <2>2, WorkStays DEF WhIInv, WhTypes
  <2> QED BY <2>1, <2>2 DEF DispatchEvent, k
<1>5. WhTypes'
  BY <1>1, <1>2, <1>4 DEF WhTypes, DispatchEvent
<1>6. \A r \in DOMAIN whRows : Held(r) => Held(r)'
  BY <1>4, HeldStays DEF DispatchEvent
<1>7. \A r \in DOMAIN whRows' : RowOK(r)'
  BY <1>1, <1>6, RowsStay DEF DispatchEvent
<1> QED BY <1>1, <1>4, <1>5, <1>7, WorkerKeeps

\* A worker goes on with another row.
LEMMA GoesToRow ==
    ASSUME WhTypes, NEW w \in Workers, NEW at \in WorkPlaces, NEW row \in Nat,
           whWork' = [whWork EXCEPT ![w].at = at, ![w].row = row]
    PROVE  /\ whWork' \in [Workers -> WorkType]
           /\ whWork'[w].at = at /\ whWork'[w].event = whWork[w].event /\ whWork'[w].row = row
           /\ whWork'[w].n = whWork[w].n /\ whWork'[w].hook = whWork[w].hook /\ whWork'[w].todo = whWork[w].todo
           /\ \A v \in Workers \ {w} : whWork'[v] = whWork[v]
BY DEF WhTypes, WorkType

\* The attempt's row is stored, or is not.
LEMMA Created ==
    ASSUME WhIInv, WebhookAssumption, NEW w \in Workers, CreateAttempt(w)
    PROVE  WhIInv'
<1>1. /\ WhTypes /\ whWork[w].at = "create" /\ whWork[w].event \in Ids /\ whWork[w].n = 1 /\ whWork[w].row = 0
      /\ whWork[w].todo = {}
      /\ UNCHANGED <<whHook, whUrl, whSubs, whSeen, whDead, whReplay, whSent, whPanicked>>
  BY Known DEF WorkOK, CreateAttempt
<1>0. whFaults \in Nat /\ whFaults \in 0 .. MaxWebhookFaults /\ whRows \in Seq(DeliveryAttempts)
  BY Known
<1>2. CASE Goto(w, "idle") /\ UNCHANGED whRows /\ Fault
  <2>1. History
    <3>1. whFaults > 0 => whFaults' > 0
      BY <1>0, <1>2 DEF Fault
    <3> QED BY <1>1, <1>2, <3>1, Quiet
  <2>2. /\ whWork' \in [Workers -> WorkType] /\ whWork'[w].at = "idle" /\ whWork'[w].todo = {}
        /\ whWork'[w].hook = whWork[w].hook /\ \A v \in Workers \ {w} : whWork'[v] = whWork[v]
    BY <1>1, <1>2, GoesTo DEF WorkPlaces
  <2>3. WorkOK(w)'
    BY <1>1, <2>2 DEF WorkOK
  <2>4. WhTypes' /\ whFaults' > 0
    BY <1>0, <1>1, <1>2, <2>2, WebhookAssumption DEF WhTypes, Fault
  <2>5. \A r \in DOMAIN whRows' : RowOK(r)'
    BY <1>2, <2>1, <2>4, RowsStay
  <2> QED BY <2>1, <2>2, <2>3, <2>4, <2>5, WorkerKeeps
<1>3. CASE /\ whRows' = NewAttempt(whWork[w].event, FALSE) /\ NoFault
           /\ whWork' = [whWork EXCEPT ![w].at = "send", ![w].row = Len(whRows) + 1]
  <2>1. /\ whRows' \in Seq(DeliveryAttempts) /\ Len(whRows) \in Nat
        /\ DOMAIN whRows' = DOMAIN whRows \cup {Len(whRows) + 1} /\ Len(whRows) + 1 \notin DOMAIN whRows
        /\ \A r \in DOMAIN whRows : whRows'[r] = whRows[r]
        /\ whRows'[Len(whRows) + 1].event = whWork[w].event /\ whRows'[Len(whRows) + 1].status = "pending"
    BY <1>1, <1>3, RowAdded
  <2>2. History
    <3>1. whFaults' = whFaults
      BY <1>3 DEF NoFault
    <3> QED BY <1>0, <1>1, <2>1, <3>1 DEF History
  <2>3. /\ whWork' \in [Workers -> WorkType] /\ whWork'[w].at = "send" /\ whWork'[w].row = Len(whRows) + 1
        /\ whWork'[w].event = whWork[w].event /\ whWork'[w].n = 1 /\ whWork'[w].todo = {}
        /\ whWork'[w].hook = whWork[w].hook /\ \A v \in Workers \ {w} : whWork'[v] = whWork[v]
    <3> DEFINE at == "send"  row == Len(whRows) + 1
    <3>1. at \in WorkPlaces /\ row \in Nat /\ whWork' = [whWork EXCEPT ![w].at = at, ![w].row = row]
      BY <1>3, <2>1 DEF WorkPlaces
    <3> HIDE DEF at, row
    <3>2. /\ whWork' \in [Workers -> WorkType]
          /\ whWork'[w].at = at /\ whWork'[w].event = whWork[w].event /\ whWork'[w].row = row
          /\ whWork'[w].n = whWork[w].n /\ whWork'[w].hook = whWork[w].hook /\ whWork'[w].todo = whWork[w].todo
          /\ \A v \in Workers \ {w} : whWork'[v] = whWork[v]
      BY <1>1, <3>1, GoesToRow
    <3> QED BY <1>1, <3>2 DEF at, row
  <2>4. WorkOK(w)'
    BY <1>1, <2>1, <2>3, WebhookAssumption DEF WorkOK, CopyHolds
  <2>5. WhTypes'
    BY <1>0, <1>1, <1>3, <2>1, <2>3 DEF WhTypes, NoFault
  <2>6. ASSUME NEW r \in DOMAIN whRows PROVE RowOK(r)'
    <3>1. whWork[w].row # r
      BY <1>1, Known
    <3>2. Held(r) => Held(r)'
      BY <2>3, <3>1, HeldStays
    <3> QED BY <1>1, <2>1, <2>2, <3>2, RowStays DEF WhIInv
  <2>7. ASSUME NEW r, r = Len(whRows) + 1 PROVE RowOK(r)'
    <3>1. whWork'[w].at # "idle" /\ whWork'[w].row = r /\ whRows'[r].status = "pending"
      BY <2>1, <2>3, <2>7
    <3> QED BY <3>1 DEF RowOK, Held
  <2>10. \A r \in DOMAIN whRows' : RowOK(r)'
    BY <2>1, <2>6, <2>7
  <2> QED BY <2>2, <2>3, <2>4, <2>5, <2>10, WorkerKeeps
<1> QED BY <1>2, <1>3 DEF CreateAttempt

\* The request is sent, or is not, and its answer noted.
LEMMA Attempted ==
    ASSUME WhIInv, WebhookAssumption, NEW w \in Workers, AttemptDelivery(w)
    PROVE  WhIInv'
<1>0. WhTypes /\ WorkOK(w) /\ whSent \subseteq Ids /\ whFaults \in Nat
  BY Known
<1>1. whWork[w].at = "send" /\ UNCHANGED <<whHook, whUrl, whSubs, whSeen, whRows, whDead, whReplay, whFaults, whPanicked>>
  BY DEF AttemptDelivery
<1>2. CopyHolds(whWork[w].row, whWork[w].event) /\ whWork[w].event \in Ids
  BY <1>1, Known DEF CopyHolds
<1>3. PICK at \in {"save ok", "save failure"} :
         /\ Goto(w, at) /\ whSent' \in {whSent, whSent \cup {whWork[w].event}}
         /\ at = "save ok" => whWork[w].event \in whSent'
  BY DEF AttemptDelivery
<1>4. /\ whWork' \in [Workers -> WorkType]
      /\ whWork'[w].at = at /\ whWork'[w].event = whWork[w].event /\ whWork'[w].row = whWork[w].row
      /\ whWork'[w].n = whWork[w].n /\ whWork'[w].hook = whWork[w].hook /\ whWork'[w].todo = whWork[w].todo
      /\ \A v \in Workers \ {w} : whWork'[v] = whWork[v]
  BY <1>0, <1>3, GoesTo DEF WorkPlaces
<1>5. History
  <2>1. whFaults \in Nat /\ whSent \subseteq whSent' /\ whFaults' = whFaults
    BY <1>0, <1>1, <1>3
  <2>2. whFaults > 0 => whFaults' > 0
    BY <2>1
  <2> QED BY <1>1, <2>1, <2>2, Quiet
<1>6. WorkOK(w)'
  BY <1>0, <1>1, <1>2, <1>3, <1>4 DEF WorkOK, CopyHolds
<1>7. WhTypes'
  BY <1>0, <1>1, <1>2, <1>3, <1>4 DEF WhTypes
<1>8. \A r \in DOMAIN whRows : Held(r) => Held(r)'
  BY <1>3, <1>4, HeldStays
<1>9. \A r \in DOMAIN whRows' : RowOK(r)'
  BY <1>1, <1>5, <1>8, RowsStay
<1> QED BY <1>4, <1>5, <1>6, <1>7, <1>9, WorkerKeeps

\* What a worker's Save and what it does next leave.
LEMMA SavedKeeps ==
    ASSUME WhIInv, WebhookAssumption, NEW w \in Workers, whWork[w].at \notin {"idle", "create"},
           NEW status \in {"delivered", "failed", "retrying", "abandoned"}, SaveCopy(w, status, FALSE),
           UNCHANGED <<whHook, whUrl, whSubs, whSeen, whDead, whReplay, whSent, whPanicked>>,
           status = "retrying" => whWork[w].n < MaxAttempts,
           status = "delivered" => whWork[w].event \in whSent,
           status = "abandoned" => \E d \in DOMAIN whDead : whDead[d].event = whWork[w].event,
           IF status = "failed" THEN Goto(w, "retry or bury") ELSE NextRow(w)
    PROVE  WhIInv'
<1>0. WhTypes /\ WorkOK(w)
  BY Known
<1>1. /\ History /\ whRows' \in Seq(DeliveryAttempts) /\ whFaults' \in 0 .. MaxWebhookFaults
      /\ DOMAIN whRows' = DOMAIN whRows
  BY CopySaved
<1>2. /\ whWork' \in [Workers -> WorkType] /\ WorkOK(w)' /\ \A v \in Workers \ {w} : whWork'[v] = whWork[v]
      /\ status = "failed" => whWork'[w].at # "idle" /\ whWork'[w].row = whWork[w].row
  <2>1. CASE status = "failed"
    <3>1. /\ whWork' \in [Workers -> WorkType]
          /\ whWork'[w].at = "retry or bury" /\ whWork'[w].event = whWork[w].event /\ whWork'[w].row = whWork[w].row
          /\ whWork'[w].n = whWork[w].n /\ whWork'[w].hook = whWork[w].hook /\ whWork'[w].todo = whWork[w].todo
          /\ \A v \in Workers \ {w} : whWork'[v] = whWork[v]
      BY <1>0, <2>1, GoesTo DEF WorkPlaces
    <3>3. CopyHolds(whWork[w].row, whWork[w].event)' /\ whWork[w].n \in 1 .. MaxAttempts
      <4>1. CopyHolds(whWork[w].row, whWork[w].event) /\ whWork[w].n \in 1 .. MaxAttempts
        BY <1>0 DEF WorkOK
      <4> QED BY <1>1, <3>1, <4>1 DEF CopyHolds, History
    <3>4. \A c \in whWork[w].todo : CopyHolds(c.row, c.event)' /\ c.n \in 1 .. MaxAttempts - 1
      BY <1>0, <1>1 DEF WorkOK, CopyHolds, History
    <3>2. WorkOK(w)'
      BY <3>1, <3>3, <3>4 DEF WorkOK, CopyHolds
    <3> QED BY <3>1, <3>2
  <2>2. CASE status # "failed"
    BY <1>0, <1>1, <2>2, GoesNext
  <2> QED BY <2>1, <2>2
<1>3. \A r \in DOMAIN whRows' : RowOK(r)'
  BY <1>2, RowsSaved
<1>4. WhTypes'
  BY <1>0, <1>1, <1>2 DEF WhTypes
<1> QED BY <1>1, <1>2, <1>3, <1>4, WorkerKeeps

\* The answer is saved, and a failed attempt kept in hand.
LEMMA Updated ==
    ASSUME WhIInv, WebhookAssumption, NEW w \in Workers, UpdateDeliveryAttempt(w)
    PROVE  WhIInv'
<1>1. whWork[w].at = "save ok" => whWork[w].event \in whSent
  BY Known DEF WorkOK
<1>2. CASE whWork[w].at = "save ok" /\ SaveCopy(w, "delivered", FALSE) /\ NextRow(w)
  BY <1>1, <1>2, SavedKeeps DEF UpdateDeliveryAttempt
<1>3. CASE whWork[w].at = "save failure" /\ SaveCopy(w, "failed", FALSE) /\ Goto(w, "retry or bury")
  BY <1>3, SavedKeeps DEF UpdateDeliveryAttempt
<1> QED BY <1>2, <1>3 DEF UpdateDeliveryAttempt

\* A failed attempt is to be retried, or to be buried.
LEMMA Failed ==
    ASSUME WhIInv, WebhookAssumption, NEW w \in Workers, HandleFailedDelivery(w)
    PROVE  WhIInv'
<1>0. /\ WhTypes /\ WorkOK(w) /\ whFaults \in Nat /\ whWork[w].at = "retry or bury"
      /\ UNCHANGED <<whHook, whUrl, whSubs, whSeen, whDead, whReplay, whSent, whPanicked>>
  BY Known DEF HandleFailedDelivery
<1>1. CASE whWork[w].n < MaxAttempts /\ SaveCopy(w, "retrying", FALSE) /\ NextRow(w)
  BY <1>0, <1>1, SavedKeeps
<1>2. CASE Goto(w, "bury") /\ UNCHANGED <<whRows, whFaults>>
  <2>1. /\ whWork' \in [Workers -> WorkType]
        /\ whWork'[w].at = "bury" /\ whWork'[w].event = whWork[w].event /\ whWork'[w].row = whWork[w].row
        /\ whWork'[w].n = whWork[w].n /\ whWork'[w].hook = whWork[w].hook /\ whWork'[w].todo = whWork[w].todo
        /\ \A v \in Workers \ {w} : whWork'[v] = whWork[v]
    BY <1>0, <1>2, GoesTo DEF WorkPlaces
  <2>2. whFaults > 0 => whFaults' > 0
    BY <1>2
  <2>3. History
    BY <1>0, <1>2, <2>2, Quiet
  <2>4. WorkOK(w)'
    BY <1>0, <1>2, <2>1 DEF WorkOK, CopyHolds
  <2>5. WhTypes'
    BY <1>0, <1>2, <2>1 DEF WhTypes
  <2>6. \A r \in DOMAIN whRows : Held(r) => Held(r)'
    BY <2>1, HeldStays
  <2>7. \A r \in DOMAIN whRows' : RowOK(r)'
    BY <1>2, <2>3, <2>6, RowsStay
  <2> QED BY <2>1, <2>3, <2>4, <2>5, <2>7, WorkerKeeps
<1> QED BY <1>1, <1>2 DEF HandleFailedDelivery

\* The process has ended: every worker rests, and the fault or the panic excuses every row.
LEMMA ProcessEnded ==
    ASSUME WhIInv, WebhookAssumption, EndProcess, whFaults' \in 0 .. MaxWebhookFaults,
           whFaults > 0 => whFaults' > 0, whFaults' > 0 \/ whPanicked',
           UNCHANGED whPanicked \/ whPanicked' = TRUE,
           UNCHANGED <<whHook, whUrl, whSubs, whSeen, whRows, whDead, whSent>>
    PROVE  WhIInv'
<1>0. /\ WhTypes /\ whDead \in Seq(DeadLetters)
      /\ whWork' = [w \in Workers |-> IdleWorker] /\ whReplay' = [a \in Admins |-> 0]
  BY Known DEF EndProcess
<1>1. IdleWorker \in WorkType /\ IdleWorker.at = "idle" /\ IdleWorker.todo = {} /\ IdleWorker.hook = "usable"
  BY DEF IdleWorker, WorkType, WorkPlaces, HookCopies
<1>2. whWork' \in [Workers -> WorkType] /\ whReplay' \in [Admins -> 0 .. Len(whDead)]
  BY <1>0, <1>1
<1>3. History
  BY DEF History
<1>4. WhTypes'
  BY <1>0, <1>2 DEF WhTypes
<1>5. \A w \in Workers : WorkOK(w)'
  BY <1>0, <1>1 DEF WorkOK
<1>6. \A r \in DOMAIN whRows' : RowOK(r)'
  BY <1>3, RowsStay
<1> QED BY <1>4, <1>5, <1>6 DEF WhIInv

\* The dead letter is stored before its row is given up, or is not and the row stays failed.
LEMMA Buried ==
    ASSUME WhIInv, WebhookAssumption, NEW w \in Workers, MoveToDeadLetter(w)
    PROVE  WhIInv'
<1>0. /\ WhTypes /\ WorkOK(w) /\ whFaults \in Nat /\ whDead \in Seq(DeadLetters)
      /\ UNCHANGED <<whHook, whUrl, whSubs, whSeen, whSent>>
  BY Known DEF MoveToDeadLetter
<1>1. CASE /\ whWork[w].at = "abandon" /\ SaveCopy(w, "abandoned", FALSE) /\ NextRow(w)
           /\ UNCHANGED <<whDead, whReplay, whPanicked>>
  <2>1. \E d \in DOMAIN whDead : whDead[d].event = whWork[w].event
    BY <1>0, <1>1 DEF WorkOK
  <2> QED BY <1>0, <1>1, <2>1, SavedKeeps
<1>2. CASE /\ whWork[w].at = "bury" /\ Goto(w, "abandon") /\ NoFault /\ UNCHANGED <<whRows, whReplay, whPanicked>>
           /\ whDead' = Append(whDead, [event |-> whWork[w].event, processed |-> FALSE])
  <2>1. /\ whWork' \in [Workers -> WorkType]
        /\ whWork'[w].at = "abandon" /\ whWork'[w].event = whWork[w].event /\ whWork'[w].row = whWork[w].row
        /\ whWork'[w].n = whWork[w].n /\ whWork'[w].hook = whWork[w].hook /\ whWork'[w].todo = whWork[w].todo
        /\ \A v \in Workers \ {w} : whWork'[v] = whWork[v]
    BY <1>0, <1>2, GoesTo DEF WorkPlaces
  <2> DEFINE letter == [event |-> whWork[w].event, processed |-> FALSE]
  <2>2. letter \in DeadLetters /\ letter.event = whWork[w].event
    BY <1>2, Known DEF DeadLetters
  <2> HIDE DEF letter
  <2>3. /\ whDead' \in Seq(DeadLetters) /\ Len(whDead) \in Nat /\ Len(whDead') = Len(whDead) + 1
        /\ \A d \in DOMAIN whDead : d \in DOMAIN whDead' /\ whDead'[d] = whDead[d]
        /\ \E d \in DOMAIN whDead' : whDead'[d] = letter
    <3>1. whDead' = Append(whDead, letter)
      BY <1>2 DEF letter
    <3> QED BY <1>0, <2>2, <3>1
  <2>4. History
    BY <1>0, <1>2, <2>3 DEF History, NoFault
  <2>5. WorkOK(w)'
    BY <1>0, <1>2, <2>1, <2>2, <2>3 DEF WorkOK, CopyHolds
  <2>6. WhTypes'
    <3>1. whReplay' \in [Admins -> 0 .. Len(whDead')]
      BY <1>0, <1>2, <2>3 DEF WhTypes
    <3> QED BY <1>0, <1>2, <2>1, <2>3, <3>1 DEF WhTypes, NoFault
  <2>7. \A r \in DOMAIN whRows : Held(r) => Held(r)'
    BY <2>1, HeldStays
  <2>8. \A r \in DOMAIN whRows' : RowOK(r)'
    BY <1>2, <2>4, <2>7, RowsStay
  <2> QED BY <2>1, <2>4, <2>5, <2>6, <2>8, WorkerKeeps
<1>3. CASE /\ whWork[w].at = "bury" /\ NextRow(w) /\ UNCHANGED <<whDead, whRows, whReplay, whPanicked>> /\ Fault
  <2>1. whFaults' \in 0 .. MaxWebhookFaults /\ whFaults' > 0
    BY <1>0, <1>3, WebhookAssumption DEF Fault
  <2>2. History
    BY <1>0, <1>3, <2>1, Quiet
  <2>3. /\ whWork' \in [Workers -> WorkType] /\ WorkOK(w)' /\ \A v \in Workers \ {w} : whWork'[v] = whWork[v]
    BY <1>0, <1>3, <2>2, GoesNext
  <2>4. WhTypes'
    BY <1>0, <1>3, <2>1, <2>3 DEF WhTypes
  <2>5. \A r \in DOMAIN whRows' : RowOK(r)'
    BY <1>3, <2>1, <2>2, RowsStay
  <2> QED BY <2>2, <2>3, <2>4, <2>5, WorkerKeeps
<1>4. CASE EndProcess /\ whPanicked' = TRUE /\ UNCHANGED <<whRows, whDead, whFaults>>
  BY <1>0, <1>4, Known, ProcessEnded
<1> QED BY <1>1, <1>2, <1>3, <1>4 DEF MoveToDeadLetter

\* A batch of rows is taken up.
LEMMA Retried ==
    ASSUME WhIInv, WebhookAssumption, NEW w \in Workers, ProcessRetries(w)
    PROVE  WhIInv'
<1>0. /\ WhTypes /\ HookCopy \in HookCopies /\ whWork[w].at = "idle"
      /\ UNCHANGED <<whHook, whUrl, whSubs, whSeen, whRows, whDead, whReplay, whSent, whFaults, whPanicked>>
  BY Known DEF ProcessRetries, HookCopy, HookCopies
<1>1. PICK c \in GetRetriesReady : whWork' = [whWork EXCEPT ![w] = Retry(c, HookCopy, GetRetriesReady \ {c})]
  BY DEF ProcessRetries
<1>2. \A d \in GetRetriesReady : d \in CopyType /\ CopyHolds(d.row, d.event) /\ d.n \in 1 .. MaxAttempts - 1
  <2>1. ASSUME NEW r \in DOMAIN whRows, whRows[r].status = "retrying",
               NEW d, d = [row |-> r, n |-> whRows[r].n, event |-> whRows[r].event]
        PROVE  d \in CopyType /\ CopyHolds(d.row, d.event) /\ d.n \in 1 .. MaxAttempts - 1
    <3>1. r \in Nat /\ whRows[r].event \in Ids /\ whRows[r].n \in 1 .. MaxAttempts /\ whRows[r].n < MaxAttempts
      BY <2>1, Known DEF RowOK
    <3>2. d.row = r /\ d.event = whRows[r].event /\ d.n = whRows[r].n
      BY <2>1
    <3>3. whRows[r].n \in Nat /\ whRows[r].n \in 1 .. MaxAttempts - 1
      BY <3>1, WebhookAssumption
    <3> QED BY <2>1, <3>1, <3>2, <3>3 DEF CopyType, CopyHolds
  <2> QED BY <2>1 DEF GetRetriesReady
<1>3. \A d \in GetRetriesReady : CopyHolds(d.row, d.event)'
  BY <1>0, <1>2 DEF CopyHolds
<1>4. GetRetriesReady \ {c} \in SUBSET CopyType /\ c \in CopyType
  BY <1>2
<1>5. /\ whWork' \in [Workers -> WorkType] /\ WorkOK(w)' /\ \A v \in Workers \ {w} : whWork'[v] = whWork[v]
  <2> DEFINE hook == HookCopy  todo == GetRetriesReady \ {c}
  <2>1. hook \in HookCopies /\ todo \in SUBSET CopyType /\ whWork' = [whWork EXCEPT ![w] = Retry(c, hook, todo)]
    BY <1>0, <1>1, <1>4
  <2>2. \A d \in todo : CopyHolds(d.row, d.event)' /\ d.n \in 1 .. MaxAttempts - 1
    BY <1>2, <1>3
  <2> HIDE DEF hook, todo
  <2> QED BY <1>0, <1>2, <1>3, <1>4, <2>1, <2>2, RetryHolds
<1>6. History
  BY <1>0, Quiet
<1>7. WhTypes'
  BY <1>0, <1>5 DEF WhTypes
<1>8. \A r \in DOMAIN whRows : Held(r) => Held(r)'
  BY <1>0, <1>5, HeldStays
<1>9. \A r \in DOMAIN whRows' : RowOK(r)'
  BY <1>0, <1>6, <1>8, RowsStay
<1> QED BY <1>5, <1>6, <1>7, <1>9, WorkerKeeps

\* A step of the clock, an admin or the owner: the workers go on as they were.
LEMMA WorkersStay ==
    ASSUME WhIInv, WhTypes', History, UNCHANGED whWork, \A r \in DOMAIN whRows' : RowOK(r)'
    PROVE  WhIInv'
<1>1. \A w \in Workers : WorkOK(w)'
  BY WorkStays DEF WhIInv
<1> QED BY <1>1 DEF WhIInv

\* A retry falls due.
LEMMA FellDue ==
    ASSUME WhIInv, WebhookAssumption, NEW r \in DOMAIN whRows, RetryFallsDue(r)
    PROVE  WhIInv'
<1>0. /\ WhTypes /\ whRows \in Seq(DeliveryAttempts) /\ whRows' = [whRows EXCEPT ![r].due = TRUE]
      /\ UNCHANGED <<whHook, whUrl, whSubs, whSeen, whDead, whWork, whReplay, whSent, whFaults, whPanicked>>
  BY Known DEF RetryFallsDue
<1>1. /\ whRows' \in Seq(DeliveryAttempts) /\ DOMAIN whRows' = DOMAIN whRows
      /\ \A x \in DOMAIN whRows : /\ whRows'[x].event = whRows[x].event /\ whRows'[x].status = whRows[x].status
                                  /\ whRows'[x].n = whRows[x].n /\ whRows'[x].replayed = whRows[x].replayed
  <2> DEFINE k == [whRows[r] EXCEPT !.due = TRUE]
  <2>1. /\ k \in DeliveryAttempts /\ k.event = whRows[r].event /\ k.status = whRows[r].status
        /\ k.n = whRows[r].n /\ k.replayed = whRows[r].replayed
    <3>1. whRows[r] \in DeliveryAttempts
      BY <1>0
    <3> QED BY <3>1 DEF DeliveryAttempts
  <2>2. whRows' = [whRows EXCEPT ![r] = k]
    BY <1>0
  <2> HIDE DEF k
  <2>3. /\ whRows' \in Seq(DeliveryAttempts) /\ DOMAIN whRows' = DOMAIN whRows /\ whRows'[r] = k
        /\ \A x \in DOMAIN whRows \ {r} : whRows'[x] = whRows[x]
    <3>1. whRows \in Seq(DeliveryAttempts)
      BY <1>0
    <3> QED BY <2>1, <2>2, <3>1
  <2> QED BY <2>1, <2>3
<1>2. History
  BY <1>0, <1>1 DEF History
<1>3. WhTypes'
  BY <1>0, <1>1 DEF WhTypes
<1>4. ASSUME NEW x \in DOMAIN whRows PROVE RowOK(x)'
  <2>1. Held(x) => Held(x)'
    BY <1>0 DEF Held
  <2> QED BY <1>0, <1>1, <1>2, <2>1, RowStays, Known
<1> QED BY <1>0, <1>1, <1>2, <1>3, <1>4, WorkersStay

\* An admin finds a dead letter.
LEMMA Found ==
    ASSUME WhIInv, WebhookAssumption, NEW a \in Admins, ReplayDeadLetter(a)
    PROVE  WhIInv'
<1>0. /\ WhTypes /\ whDead \in Seq(DeadLetters)
      /\ UNCHANGED <<whHook, whUrl, whSubs, whSeen, whRows, whDead, whWork, whSent, whFaults, whPanicked>>
  BY Known DEF ReplayDeadLetter
<1>1. whReplay' \in [Admins -> 0 .. Len(whDead)]
  BY <1>0 DEF ReplayDeadLetter, WhTypes
<1>2. History
  BY <1>0, Quiet
<1>3. WhTypes'
  BY <1>0, <1>1 DEF WhTypes
<1>4. \A r \in DOMAIN whRows : Held(r) => Held(r)'
  BY <1>0 DEF Held
<1>5. \A r \in DOMAIN whRows' : RowOK(r)'
  BY <1>0, <1>2, <1>4, RowsStay
<1> QED BY <1>0, <1>2, <1>3, <1>5, WorkersStay

\* ... and replays it: a new row, which only the mark says why nobody holds it.
LEMMA Replayed ==
    ASSUME WhIInv, WebhookAssumption, NEW a \in Admins, Replay(a)
    PROVE  WhIInv'
<1> DEFINE d == whReplay[a]
<1>0. /\ WhTypes /\ whRows \in Seq(DeliveryAttempts) /\ whDead \in Seq(DeadLetters)
      /\ whFaults \in 0 .. MaxWebhookFaults /\ whReplay \in [Admins -> 0 .. Len(whDead)]
      /\ whReplay' = [whReplay EXCEPT ![a] = 0] /\ d # 0
      /\ UNCHANGED <<whHook, whUrl, whSubs, whSeen, whWork, whSent, whPanicked>>
  BY Known DEF Replay, WhTypes
<1>1. whReplay' \in [Admins -> 0 .. Len(whDead)] /\ d \in DOMAIN whDead
  BY <1>0
<1>2. CASE UNCHANGED <<whRows, whDead>> /\ (Fault \/ NoFault)
  <2>1. whFaults' \in 0 .. MaxWebhookFaults /\ (whFaults > 0 => whFaults' > 0)
    BY <1>0, <1>2, WebhookAssumption DEF Fault, NoFault
  <2>2. History
    BY <1>0, <1>2, <2>1, Quiet
  <2>3. WhTypes'
    BY <1>0, <1>1, <1>2, <2>1 DEF WhTypes
  <2>4. \A r \in DOMAIN whRows : Held(r) => Held(r)'
    BY <1>0 DEF Held
  <2>5. \A r \in DOMAIN whRows' : RowOK(r)'
    BY <1>2, <2>2, <2>4, RowsStay
  <2> QED BY <1>0, <2>2, <2>3, <2>5, WorkersStay
<1>3. CASE /\ whRows' = NewAttempt(whDead[d].event, TRUE) /\ NoFault
           /\ whDead' = [whDead EXCEPT ![d].processed = TRUE]
  <2>1. /\ whDead' \in Seq(DeadLetters) /\ Len(whDead') = Len(whDead) /\ DOMAIN whDead' = DOMAIN whDead
        /\ \A x \in DOMAIN whDead : whDead'[x].event = whDead[x].event
    <3> DEFINE k == [whDead[d] EXCEPT !.processed = TRUE]
    <3>1. k \in DeadLetters /\ k.event = whDead[d].event
      <4>1. whDead[d] \in DeadLetters
        BY <1>0, <1>1
      <4> QED BY <4>1 DEF DeadLetters
    <3>2. whDead' = [whDead EXCEPT ![d] = k]
      BY <1>3
    <3> HIDE DEF k, d
    <3> QED BY <1>0, <1>1, <3>1, <3>2
  <2>2. whDead[d].event \in Ids
    <3>1. whDead[d] \in DeadLetters
      BY <1>0, <1>1
    <3> QED BY <3>1 DEF DeadLetters
  <2>3. /\ whRows' \in Seq(DeliveryAttempts)
        /\ DOMAIN whRows' = DOMAIN whRows \cup {Len(whRows) + 1}
        /\ \A r \in DOMAIN whRows : whRows'[r] = whRows[r]
        /\ whRows'[Len(whRows) + 1].status = "pending" /\ whRows'[Len(whRows) + 1].replayed = TRUE
    BY <1>0, <1>3, <2>2, RowAdded
  <2>4. History
    <3>1. whFaults > 0 => whFaults' > 0
      BY <1>3 DEF NoFault
    <3> QED BY <1>0, <2>1, <2>3, <3>1 DEF History
  <2>5. WhTypes'
    <3>1. whReplay' \in [Admins -> 0 .. Len(whDead')]
      BY <1>1, <2>1
    <3> QED BY <1>0, <1>3, <2>1, <2>3, <3>1 DEF WhTypes, NoFault
  <2>6. ASSUME NEW r \in DOMAIN whRows PROVE RowOK(r)'
    <3>1. Held(r) => Held(r)'
      BY <1>0 DEF Held
    <3> QED BY <1>0, <2>3, <2>4, <3>1, RowStays, Known
  <2>7. ASSUME NEW r, r = Len(whRows) + 1 PROVE RowOK(r)'
    <3>1. whRows'[r].status = "pending" /\ whRows'[r].replayed
      BY <2>3, <2>7
    <3> QED BY <3>1 DEF RowOK
  <2>8. \A r \in DOMAIN whRows' : RowOK(r)'
    BY <2>3, <2>6, <2>7
  <2> QED BY <1>0, <2>4, <2>5, <2>8, WorkersStay
<1> QED BY <1>0, <1>2, <1>3 DEF Replay

\* The owner changes the webhook or its subscriptions.
LEMMA OwnerActs ==
    ASSUME WhIInv, WebhookAssumption,
           UpdateWebhook \/ DeleteWebhook \/ \E s \in Subscriptions : UpdateSubscription(s)
    PROVE  WhIInv'
<1>1. /\ UNCHANGED <<whSeen, whRows, whDead, whWork, whReplay, whSent, whFaults, whPanicked>> /\ WhTypes
      /\ whHook' \in HookStatuses /\ whUrl' \in BOOLEAN /\ whSubs' \subseteq Subscriptions
  BY Known DEF UpdateWebhook, DeleteWebhook, UpdateSubscription, WhTypes, HookStatuses
<1>2. History
  BY <1>1 DEF History
<1>3. WhTypes'
  BY <1>1 DEF WhTypes
<1>4. \A r \in DOMAIN whRows : Held(r) => Held(r)'
  BY <1>1 DEF Held
<1>5. \A r \in DOMAIN whRows' : RowOK(r)'
  BY <1>1, <1>2, <1>4, RowsStay
<1> QED BY <1>1, <1>2, <1>3, <1>5, WorkersStay

\* The process stops: every worker rests, and the fault excuses every row.
LEMMA Stopped ==
    ASSUME WhIInv, WebhookAssumption, ServiceStops
    PROVE  WhIInv'
<1>1. whFaults \in Nat /\ whFaults' > 0 /\ whFaults' \in 0 .. MaxWebhookFaults
  BY Known, WebhookAssumption DEF ServiceStops, Fault
<1> QED BY <1>1, ProcessEnded DEF ServiceStops

\* Every step keeps the invariant.
LEMMA WebhookStep ==
    ASSUME WhIInv, WebhookAssumption, [WhNext]_whVars
    PROVE  WhIInv'
<1>1. CASE UNCHANGED whVars
  <2>1. WhTypes' /\ History
    BY <1>1, Known DEF WhTypes, History, whVars
  <2>2. \A r \in DOMAIN whRows : Held(r) => Held(r)'
    BY <1>1 DEF Held, whVars
  <2>3. \A r \in DOMAIN whRows' : RowOK(r)'
    BY <1>1, <2>1, <2>2, RowsStay DEF whVars
  <2> QED BY <1>1, <2>1, <2>3, WorkersStay DEF whVars
<1>2. ASSUME NEW w \in Dispatchers, NEW e \in Events, DispatchEvent(w, e) PROVE WhIInv'
  BY <1>2, Dispatched DEF Workers
<1>3. ASSUME NEW w \in Workers, Deliver(w) PROVE WhIInv'
  BY <1>3, Created, Attempted, Updated, Failed, Buried DEF Deliver
<1>4. ASSUME NEW w \in Retriers, ProcessRetries(w) PROVE WhIInv'
  BY <1>4, Retried DEF Workers
<1>5. ASSUME NEW r \in DOMAIN whRows, RetryFallsDue(r) PROVE WhIInv'
  BY <1>5, FellDue
<1>6. ASSUME NEW a \in Admins, ReplayDeadLetter(a) \/ Replay(a) PROVE WhIInv'
  BY <1>6, Found, Replayed
<1>7. ASSUME UpdateWebhook \/ DeleteWebhook \/ \E s \in Subscriptions : UpdateSubscription(s) PROVE WhIInv'
  BY <1>7, OwnerActs
<1>8. ASSUME ServiceStops PROVE WhIInv'
  BY <1>8, Stopped
<1> QED BY <1>1, <1>2, <1>3, <1>4, <1>5, <1>6, <1>7, <1>8 DEF WhNext

\* The invariant holds at the start.
LEMMA WebhookStart ==
    ASSUME WhInit, WebhookAssumption
    PROVE  WhIInv
<1>1. IdleWorker \in WorkType /\ IdleWorker.at = "idle" /\ IdleWorker.todo = {} /\ IdleWorker.hook = "usable"
  BY DEF IdleWorker, WorkType, WorkPlaces, HookCopies
<1>2. WhTypes
  <2>1. whUrl \in BOOLEAN /\ whPanicked \in BOOLEAN
    BY Zenon DEF WhInit
  <2> QED BY <1>1, <2>1, WebhookAssumption DEF WhInit, WhTypes, HookStatuses
<1>3. \A w \in Workers : WorkOK(w)
  BY <1>1 DEF WhInit, WorkOK
<1>4. DOMAIN whRows = {}
  BY DEF WhInit
<1> QED BY <1>2, <1>3, <1>4 DEF WhIInv

(***************************************************************************)
(* A row nobody delivers was replayed, or lost to a fault or to the panic at  *)
(* a nil result; one that says delivered was received, and one given up has   *)
(* its dead letter: for any number of events, workers, admins and attempts.   *)
(***************************************************************************)
THEOREM WebhooksAreSafe == WhSpec => []WebhookSafety
<1>1. WhInit => WhIInv
  BY WebhookStart, WebhookAssumption
<1>2. WhIInv /\ [WhNext]_whVars => WhIInv'
  BY WebhookStep, WebhookAssumption
<1>3. WhIInv => WebhookSafety
  BY DEF WhIInv, RowOK, WebhookSafety, AttemptIsHeld, DeliveredWasSent, AbandonedIsDead
<1> QED BY <1>1, <1>2, <1>3, PTL DEF WhSpec

(***************************************************************************)
(* The file processing engine's tasks.                                     *)
(***************************************************************************)
TaskType == [task : Uploads \cup {NoTask}, at : {"waiting", "first lock", "second lock", "stopped"}]
FpTypes ==
    /\ fpFile \in [Uploads -> {"none", "uploading", "pending", "processing", "failed"}]
    /\ fpObject \in [Uploads -> {"nothing", "object", "multipart"}]
    /\ fpHandler \in [Uploads -> {"idle", "storing", "enqueue", "sent", "done"}]
    /\ fpQueue \in Seq(Uploads) /\ fpWorker \in [FileWorkers -> TaskType]
    /\ fpLock \in FileWorkers \cup {Nobody}

TaskQueued(u) == \E i \in DOMAIN fpQueue : fpQueue[i] = u
InHand(u) == \E w \in FileWorkers : fpWorker[w].task = u
\* No task is twice in the queue, twice in hand, or both.
TasksAreSingle ==
    /\ \A i, j \in DOMAIN fpQueue : fpQueue[i] = fpQueue[j] => i = j
    /\ \A v, w \in FileWorkers : fpWorker[v].task = fpWorker[w].task /\ fpWorker[v].task # NoTask => v = w
    /\ \A w \in FileWorkers : ~TaskQueued(fpWorker[w].task)
\* A task exists from Enqueue on, and its object from before that.
UploadOK(u) ==
    /\ fpHandler[u] \in {"idle", "storing", "enqueue"} => ~TaskQueued(u) /\ ~InHand(u)
    /\ fpHandler[u] = "sent" \/ fpFile[u] = "processing" => TaskQueued(u) \/ InHand(u)
    /\ fpHandler[u] = "enqueue" \/ TaskQueued(u) => fpObject[u] = "object"
FpIInv ==
    /\ FpTypes /\ TasksAreSingle /\ \A u \in Uploads : UploadOK(u)
    /\ ~fpRunning => fpServer = "stopped" /\ NoSendAfterClose
    /\ LockIsSelfHeld
    /\ \A w \in FileWorkers : fpWorker[w].at = "waiting" => fpWorker[w].task = NoTask

\* A handler's step that leaves the engine alone.
LEMMA HandlerMoves ==
    ASSUME FpIInv, NEW u \in Uploads, NEW from, NEW to \in {"storing", "enqueue", "done"}, Handle(u, from, to),
           UNCHANGED <<fpQueue, fpWorker, fpLock, fpRunning, fpServer>>,
           FpTypes', \A x \in Uploads \ {u} : fpFile'[x] = fpFile[x] /\ fpObject'[x] = fpObject[x],
           UploadOK(u)'
    PROVE  FpIInv'
<1>1. fpRunning
  BY DEF FpIInv, Handle, ProcessLives
<1>2. \A x \in Uploads : (TaskQueued(x)' <=> TaskQueued(x)) /\ (InHand(x)' <=> InHand(x))
  BY DEF TaskQueued, InHand
<1>3. fpHandler \in [Uploads -> {"idle", "storing", "enqueue", "sent", "done"}] /\ fpHandler' = [fpHandler EXCEPT ![u] = to]
  BY DEF FpIInv, FpTypes, Handle
<1>4. ASSUME NEW x \in Uploads, x # u PROVE UploadOK(x)'
  <2>1. UploadOK(x) /\ fpFile'[x] = fpFile[x] /\ fpObject'[x] = fpObject[x] /\ fpHandler'[x] = fpHandler[x]
    BY <1>3, <1>4 DEF FpIInv
  <2> QED BY <1>2, <2>1 DEF UploadOK
<1>5. TasksAreSingle'
  BY DEF FpIInv, TasksAreSingle, TaskQueued
<1>6. LockIsSelfHeld'
  BY DEF FpIInv, LockIsSelfHeld
<1> QED BY <1>1, <1>4, <1>5, <1>6 DEF FpIInv

\* A request is refused, or its record is there; the object is put, or is not; a multipart upload is opened.
LEMMA UploadMoves ==
    ASSUME FpIInv, NEW u \in Uploads,
           StreamingUploadHandler(u) \/ StreamingUpload(u) \/ ChunkedUploadInitHandler(u)
    PROVE  FpIInv'
<1>1. /\ fpHandler \in [Uploads -> {"idle", "storing", "enqueue", "sent", "done"}]
      /\ fpFile \in [Uploads -> {"none", "uploading", "pending", "processing", "failed"}]
      /\ fpObject \in [Uploads -> {"nothing", "object", "multipart"}] /\ FpTypes /\ UploadOK(u)
  BY DEF FpIInv, FpTypes
<1>2. PICK from \in {"idle", "storing"}, to \in {"storing", "enqueue", "done"} :
         /\ Handle(u, from, to) /\ UNCHANGED <<fpQueue, fpWorker, fpLock, fpRunning, fpServer>>
         /\ fpFile' \in {fpFile} \cup {[fpFile EXCEPT ![u] = f] : f \in {"uploading", "pending", "failed"}}
         /\ fpObject' \in {fpObject} \cup {[fpObject EXCEPT ![u] = o] : o \in {"object", "multipart"}}
         /\ to = "enqueue" => fpObject' = [fpObject EXCEPT ![u] = "object"]
  BY DEF StreamingUploadHandler, StreamingUpload, ChunkedUploadInitHandler, InitMultipartUpload
<1>3. fpHandler[u] = from /\ fpHandler' = [fpHandler EXCEPT ![u] = to] /\ fpHandler'[u] = to
  BY <1>1, <1>2 DEF Handle
<1>4. ~TaskQueued(u) /\ ~InHand(u) /\ fpFile[u] # "processing"
  BY <1>1, <1>2, <1>3 DEF UploadOK
<1>5. ~TaskQueued(u)' /\ ~InHand(u)'
  BY <1>2, <1>4 DEF TaskQueued, InHand
<1>6. FpTypes'
  BY <1>1, <1>2, <1>3 DEF FpTypes
<1>7. UploadOK(u)'
  <2>1. fpFile'[u] # "processing" /\ (to = "enqueue" => fpObject'[u] = "object")
    BY <1>1, <1>2, <1>4
  <2> QED BY <1>2, <1>3, <1>5, <2>1 DEF UploadOK
<1>8. \A x \in Uploads \ {u} : fpFile'[x] = fpFile[x] /\ fpObject'[x] = fpObject[x]
  BY <1>1, <1>2
<1> QED BY <1>2, <1>6, <1>7, <1>8, HandlerMoves

\* A task is put at the end of the queue, or refused.
LEMMA Enqueued ==
    ASSUME FpIInv, NEW u \in Uploads, Enqueue(u)
    PROVE  FpIInv'
<1>1. /\ FpTypes /\ TasksAreSingle /\ (\A x \in Uploads : UploadOK(x)) /\ fpHandler[u] = "enqueue" /\ fpRunning
      /\ UNCHANGED <<fpFile, fpObject, fpWorker, fpLock, fpRunning, fpServer>>
  BY DEF FpIInv, Enqueue, Handle, ProcessLives
<1>2. ~TaskQueued(u) /\ ~InHand(u) /\ fpObject[u] = "object" /\ fpFile[u] # "processing"
  BY <1>1 DEF UploadOK
<1>3. CASE Handle(u, "enqueue", "done") /\ UNCHANGED fpQueue
  <2>1. fpHandler \in [Uploads -> {"idle", "storing", "enqueue", "sent", "done"}] /\ fpHandler' = [fpHandler EXCEPT ![u] = "done"]
    BY <1>1, <1>3 DEF FpTypes, Handle
  <2>2. FpTypes'
    BY <1>1, <1>3, <2>1 DEF FpTypes
  <2>3. UploadOK(u)'
    BY <1>1, <1>2, <1>3, <2>1 DEF UploadOK, TaskQueued, InHand
  <2> QED BY <1>1, <1>3, <2>2, <2>3, HandlerMoves
<1>4. CASE Handle(u, "enqueue", "sent") /\ fpQueue' = Append(fpQueue, u)
  <2>1. fpHandler \in [Uploads -> {"idle", "storing", "enqueue", "sent", "done"}] /\ fpHandler' = [fpHandler EXCEPT ![u] = "sent"]
    BY <1>1, <1>4 DEF FpTypes, Handle
  <2>2. /\ fpQueue' \in Seq(Uploads) /\ Len(fpQueue) \in Nat /\ DOMAIN fpQueue' = DOMAIN fpQueue \cup {Len(fpQueue) + 1}
        /\ Len(fpQueue) + 1 \notin DOMAIN fpQueue
        /\ fpQueue'[Len(fpQueue) + 1] = u /\ \A i \in DOMAIN fpQueue : fpQueue'[i] = fpQueue[i]
    BY <1>1, <1>4 DEF FpTypes
  <2>3. \A x : TaskQueued(x)' <=> TaskQueued(x) \/ x = u
    BY <2>2 DEF TaskQueued
  <2>4. \A x : InHand(x)' <=> InHand(x)
    BY <1>1 DEF InHand
  <2>5. TasksAreSingle'
    <3>1. \A i, j \in DOMAIN fpQueue' : fpQueue'[i] = fpQueue'[j] => i = j
      BY <1>1, <1>2, <2>2 DEF TasksAreSingle, TaskQueued
    <3>2. (\A w \in FileWorkers : ~TaskQueued(fpWorker[w].task))'
      BY <1>1, <1>2, <2>3 DEF TasksAreSingle, InHand
    <3>3. \A v, w \in FileWorkers : fpWorker'[v].task = fpWorker'[w].task /\ fpWorker'[v].task # NoTask => v = w
      BY <1>1 DEF TasksAreSingle
    <3> QED BY <3>1, <3>2, <3>3 DEF TasksAreSingle
  <2>6. ASSUME NEW x \in Uploads PROVE UploadOK(x)'
    <3>1. CASE x = u
      <4>1. fpHandler'[x] = "sent" /\ TaskQueued(x)' /\ fpObject'[x] = "object"
        BY <1>1, <1>2, <2>1, <2>3, <3>1
      <4> QED BY <4>1 DEF UploadOK
    <3>2. CASE x # u
      <4>1. fpHandler'[x] = fpHandler[x] /\ fpFile'[x] = fpFile[x] /\ fpObject'[x] = fpObject[x] /\ UploadOK(x)
        BY <1>1, <2>1, <3>2
      <4> QED BY <2>3, <2>4, <3>2, <4>1 DEF UploadOK
    <3> QED BY <3>1, <3>2
  <2>7. FpTypes'
    BY <1>1, <2>1, <2>2 DEF FpTypes
  <2>8. LockIsSelfHeld'
    BY <1>1 DEF FpIInv, LockIsSelfHeld
  <2> QED BY <1>1, <2>5, <2>6, <2>7, <2>8 DEF FpIInv
<1> QED BY <1>3, <1>4 DEF Enqueue

\* The sender marks the file, whose task is queued or in hand.
LEMMA Counted ==
    ASSUME FpIInv, NEW u \in Uploads, CountTask(u)
    PROVE  FpIInv'
<1>1. /\ FpTypes /\ UploadOK(u) /\ fpHandler[u] = "sent" /\ Handle(u, "sent", "done")
      /\ fpHandler' = [fpHandler EXCEPT ![u] = "done"] /\ fpFile' = [fpFile EXCEPT ![u] = "processing"]
      /\ UNCHANGED <<fpObject, fpQueue, fpWorker, fpLock, fpRunning, fpServer>>
  BY DEF FpIInv, CountTask, Handle
<1>2. FpTypes'
  BY <1>1 DEF FpTypes
<1>3. \A x \in Uploads \ {u} : fpFile'[x] = fpFile[x] /\ fpObject'[x] = fpObject[x]
  BY <1>1 DEF FpTypes
<1>4. UploadOK(u)'
  <2>1. TaskQueued(u)' \/ InHand(u)'
    BY <1>1 DEF UploadOK, TaskQueued, InHand
  <2>2. TaskQueued(u)' => fpObject'[u] = "object"
    BY <1>1 DEF UploadOK, TaskQueued
  <2>3. fpHandler'[u] = "done"
    BY <1>1 DEF FpTypes
  <2> QED BY <2>1, <2>2, <2>3 DEF UploadOK
<1> QED BY <1>1, <1>2, <1>3, <1>4, HandlerMoves

\* What is at the head of a queue, and what is left behind it.
LEMMA HeadOfQueue ==
    ASSUME NEW S, NEW q \in Seq(S), q # <<>>
    PROVE  /\ Head(q) \in S /\ 1 \in DOMAIN q /\ q[1] = Head(q) /\ Tail(q) \in Seq(S)
           /\ \A i \in DOMAIN Tail(q) : i \in Nat /\ i + 1 \in DOMAIN q /\ i + 1 # 1 /\ Tail(q)[i] = q[i + 1]
           /\ \A i \in DOMAIN q : i = 1 \/ \E j \in DOMAIN Tail(q) : Tail(q)[j] = q[i]
<1>1. /\ Head(q) \in S /\ Tail(q) \in Seq(S) /\ Len(Tail(q)) = Len(q) - 1
      /\ \A i \in 1 .. Len(Tail(q)) : Tail(q)[i] = q[i + 1]
  BY HeadTailProperties
<1>2. Len(q) \in Nat \ {0} /\ DOMAIN q = 1 .. Len(q) /\ DOMAIN Tail(q) = 1 .. Len(Tail(q))
  BY <1>1, EmptySeq, LenProperties
<1>3. q[1] = Head(q)
  OBVIOUS
<1>4. \A i \in DOMAIN Tail(q) : i \in Nat /\ i + 1 \in DOMAIN q /\ i + 1 # 1
  BY <1>1, <1>2
<1>5. ASSUME NEW i \in DOMAIN q, i # 1 PROVE \E j \in DOMAIN Tail(q) : Tail(q)[j] = q[i]
  <2>1. i - 1 \in 1 .. Len(Tail(q)) /\ (i - 1) + 1 = i
    BY <1>1, <1>2, <1>5
  <2> QED BY <1>1, <1>2, <2>1
<1> QED BY <1>1, <1>2, <1>3, <1>4, <1>5

\* A worker takes the task at the head of the queue, which nobody else has.
LEMMA Taken ==
    ASSUME FpIInv, FileAssumption, NEW w \in FileWorkers, fpWorker[w].at = "waiting",
           fpQueue # <<>>, fpQueue' = Tail(fpQueue),
           fpWorker' = [fpWorker EXCEPT ![w] = [task |-> Head(fpQueue), at |-> "first lock"]],
           UNCHANGED <<fpFile, fpObject, fpHandler, fpLock, fpRunning, fpServer>>
    PROVE  FpIInv'
<1>1. FpTypes /\ TasksAreSingle /\ fpQueue \in Seq(Uploads) /\ fpWorker \in [FileWorkers -> TaskType]
  BY DEF FpIInv, FpTypes
<1> DEFINE u == Head(fpQueue)
<1>2. /\ u \in Uploads /\ u # NoTask /\ fpQueue[1] = u /\ 1 \in DOMAIN fpQueue
      /\ fpQueue' \in Seq(Uploads)
      /\ \A i \in DOMAIN fpQueue' : i \in Nat /\ i + 1 \in DOMAIN fpQueue /\ i + 1 # 1 /\ fpQueue'[i] = fpQueue[i + 1]
      /\ \A i \in DOMAIN fpQueue : i = 1 \/ \E j \in DOMAIN fpQueue' : fpQueue'[j] = fpQueue[i]
  <2>1. /\ Head(fpQueue) \in Uploads /\ 1 \in DOMAIN fpQueue /\ fpQueue[1] = Head(fpQueue) /\ Tail(fpQueue) \in Seq(Uploads)
        /\ \A i \in DOMAIN Tail(fpQueue) : /\ i \in Nat /\ i + 1 \in DOMAIN fpQueue /\ i + 1 # 1
                                         /\ Tail(fpQueue)[i] = fpQueue[i + 1]
        /\ \A i \in DOMAIN fpQueue : i = 1 \/ \E j \in DOMAIN Tail(fpQueue) : Tail(fpQueue)[j] = fpQueue[i]
    BY <1>1, HeadOfQueue
  <2> QED BY <2>1, FileAssumption
<1> DEFINE k == [task |-> u, at |-> "first lock"]
<1>3. k \in TaskType /\ k.task = u /\ k.at = "first lock"
  BY <1>2 DEF TaskType
<1> HIDE DEF k, u
<1>4. /\ fpWorker' \in [FileWorkers -> TaskType] /\ fpWorker'[w].task = u /\ fpWorker'[w].at = "first lock"
      /\ \A v \in FileWorkers \ {w} : fpWorker'[v] = fpWorker[v]
  BY <1>1, <1>3 DEF k, u
<1>5. ASSUME NEW x, TaskQueued(x)' PROVE TaskQueued(x) /\ x # u
  <2>1. PICK i \in DOMAIN fpQueue' : fpQueue'[i] = x
    BY <1>5 DEF TaskQueued
  <2>2. i + 1 \in DOMAIN fpQueue /\ fpQueue[i + 1] = x /\ i + 1 # 1
    BY <1>2, <2>1
  <2>3. x # u
    BY <1>1, <1>2, <2>2 DEF TasksAreSingle
  <2> QED BY <2>2, <2>3 DEF TaskQueued
<1>6. ASSUME NEW x, TaskQueued(x) PROVE TaskQueued(x)' \/ x = u
  <2>1. PICK i \in DOMAIN fpQueue : fpQueue[i] = x
    BY <1>6 DEF TaskQueued
  <2>2. i = 1 \/ \E j \in DOMAIN fpQueue' : fpQueue'[j] = x
    BY <1>2, <2>1
  <2> QED BY <1>2, <2>1, <2>2 DEF TaskQueued
<1>7. fpWorker[w].task = NoTask
  BY DEF FpIInv
<1>8. \A x \in Uploads : InHand(x)' <=> InHand(x) \/ x = u
  BY <1>2, <1>4, <1>7, FileAssumption DEF InHand
<1>9. TaskQueued(u)
  BY <1>2 DEF TaskQueued
<1>10. ASSUME NEW v \in FileWorkers PROVE fpWorker[v].task # u
  BY <1>1, <1>9 DEF TasksAreSingle
<1>11. TasksAreSingle'
  <2>1. \A i, j \in DOMAIN fpQueue' : fpQueue'[i] = fpQueue'[j] => i = j
    <3> SUFFICES ASSUME NEW i \in DOMAIN fpQueue', NEW j \in DOMAIN fpQueue', fpQueue'[i] = fpQueue'[j] PROVE i = j
      OBVIOUS
    <3>3. /\ i + 1 \in DOMAIN fpQueue /\ j + 1 \in DOMAIN fpQueue
          /\ fpQueue[i + 1] = fpQueue'[i] /\ fpQueue[j + 1] = fpQueue'[j]
      BY <1>2
    <3>1. i + 1 = j + 1
      BY <1>1, <3>3 DEF TasksAreSingle
    <3>2. i \in Int /\ j \in Int
      <4>1. i \in Nat /\ j \in Nat
        BY <1>2
      <4> QED BY ONLY <4>1
    <3> QED BY ONLY <3>1, <3>2, SMT
  <2>2. \A v, x \in FileWorkers : fpWorker'[v].task = fpWorker'[x].task /\ fpWorker'[v].task # NoTask => v = x
    BY <1>1, <1>4, <1>10 DEF TasksAreSingle
  <2>3. \A v \in FileWorkers : ~TaskQueued(fpWorker[v].task)
    BY <1>1 DEF TasksAreSingle
  <2>4. ASSUME NEW v \in FileWorkers PROVE ~TaskQueued(fpWorker[v].task)'
    <3>1. CASE v = w
      BY <1>4, <1>5, <3>1
    <3>2. CASE v # w
      BY <1>4, <1>5, <2>3, <3>2
    <3> QED BY <3>1, <3>2
  <2> QED BY <2>1, <2>2, <2>4 DEF TasksAreSingle
<1>12. ASSUME NEW x \in Uploads PROVE UploadOK(x)'
  <2>1. UploadOK(x) /\ UploadOK(u)
    BY <1>2 DEF FpIInv
  <2>2. fpHandler[u] \notin {"idle", "storing", "enqueue"}
    BY <1>9, <2>1 DEF UploadOK
  <2> QED BY <1>5, <1>6, <1>8, <2>1, <2>2 DEF UploadOK
<1>13. FpTypes'
  BY <1>1, <1>2, <1>4 DEF FpTypes
<1>14. LockIsSelfHeld'
  <2>1. CASE fpLock = Nobody
    BY <2>1 DEF LockIsSelfHeld
  <2>2. CASE fpLock # Nobody
    <3>2. fpLock \in FileWorkers \cup {Nobody} /\ LockIsSelfHeld
      BY DEF FpIInv, FpTypes
    <3>3. fpLock \in FileWorkers /\ fpWorker[fpLock].at = "second lock"
      BY <2>2, <3>2 DEF LockIsSelfHeld
    <3>1. fpLock # w /\ fpLock \in FileWorkers /\ fpWorker[fpLock].at = "second lock"
      BY <3>3
    <3> QED BY <1>4, <3>1 DEF LockIsSelfHeld
  <2> QED BY <2>1, <2>2
<1>15. ~fpRunning => fpServer = "stopped" /\ NoSendAfterClose
  BY DEF FpIInv
<1> QED BY <1>4, <1>11, <1>12, <1>13, <1>14, <1>15 DEF FpIInv, NoSendAfterClose

\* A worker moves on with the task it has, and the metrics' lock if that is free.
LEMMA WorkerRests ==
    ASSUME FpIInv, NEW w \in FileWorkers, fpWorker' \in [FileWorkers -> TaskType],
           \A v \in FileWorkers : fpWorker'[v].task = fpWorker[v].task /\ (v # w => fpWorker'[v] = fpWorker[v]),
           fpWorker'[w].at # "waiting",
           \/ fpLock' = w /\ fpWorker'[w].at = "second lock"
           \/ fpLock' = fpLock /\ fpWorker[w].at # "second lock",
           UNCHANGED <<fpFile, fpObject, fpHandler, fpQueue, fpRunning, fpServer>>
    PROVE  FpIInv'
<1>1. FpTypes /\ TasksAreSingle /\ LockIsSelfHeld /\ \A u \in Uploads : UploadOK(u)
  BY DEF FpIInv
<1>2. FpTypes'
  BY <1>1 DEF FpTypes
<1>3. TasksAreSingle'
  BY <1>1 DEF TasksAreSingle, TaskQueued
<1>4. ASSUME NEW u \in Uploads PROVE UploadOK(u)'
  <2>1. (TaskQueued(u)' <=> TaskQueued(u)) /\ (InHand(u)' <=> InHand(u))
    BY DEF TaskQueued, InHand
  <2> QED BY <1>1, <2>1 DEF UploadOK
<1>5. LockIsSelfHeld'
  <2>1. CASE fpLock' = Nobody
    BY <2>1 DEF LockIsSelfHeld
  <2>2. CASE fpLock' # Nobody
    <3>1. fpLock \in FileWorkers \cup {Nobody}
      BY <1>1 DEF FpTypes
    <3> QED BY <1>1, <2>2, <3>1 DEF LockIsSelfHeld
  <2> QED BY <2>1, <2>2
<1>6. ~fpRunning' => fpServer' = "stopped" /\ NoSendAfterClose'
  BY DEF FpIInv, NoSendAfterClose
<1>7. \A v \in FileWorkers : fpWorker'[v].at = "waiting" => fpWorker'[v].task = NoTask
  BY DEF FpIInv
<1> QED BY <1>2, <1>3, <1>4, <1>5, <1>6, <1>7 DEF FpIInv

\* A worker takes a task, or sees the queue closed.
LEMMA WorkerTakes ==
    ASSUME FpIInv, FileAssumption, NEW w \in FileWorkers, Worker(w)
    PROVE  FpIInv'
<1>1. CASE fpQueue # <<>> /\ fpQueue' = Tail(fpQueue)
           /\ fpWorker' = [fpWorker EXCEPT ![w] = [task |-> Head(fpQueue), at |-> "first lock"]]
  BY <1>1, Taken DEF Worker
<1>2. CASE UNCHANGED fpQueue /\ fpWorker' = [fpWorker EXCEPT ![w].at = "stopped"]
  <2>1. fpWorker[w].at = "waiting" /\ UNCHANGED <<fpFile, fpObject, fpHandler, fpLock, fpRunning, fpServer>>
    BY DEF Worker
  <2>2. fpWorker \in [FileWorkers -> TaskType]
    BY DEF FpIInv, FpTypes
  <2> DEFINE k == [fpWorker[w] EXCEPT !.at = "stopped"]
  <2>3. k \in TaskType /\ k.task = fpWorker[w].task /\ k.at = "stopped"
    BY <2>2 DEF TaskType
  <2>4. fpWorker' = [fpWorker EXCEPT ![w] = k]
    BY <1>2, <2>2
  <2> HIDE DEF k
  <2>5. /\ fpWorker' \in [FileWorkers -> TaskType] /\ fpWorker'[w].at = "stopped"
        /\ \A v \in FileWorkers : fpWorker'[v].task = fpWorker[v].task /\ (v # w => fpWorker'[v] = fpWorker[v])
    BY <2>2, <2>3, <2>4
  <2> QED BY <1>2, <2>1, <2>5, WorkerRests
<1> QED BY <1>1, <1>2 DEF Worker

\* ... locks the metrics, and waits for itself.
LEMMA WorkerLocks ==
    ASSUME FpIInv, NEW w \in FileWorkers, ProcessTask(w)
    PROVE  FpIInv'
<1>1. /\ fpWorker[w].at = "first lock" /\ fpLock' = w /\ fpWorker' = [fpWorker EXCEPT ![w].at = "second lock"]
      /\ UNCHANGED <<fpFile, fpObject, fpHandler, fpQueue, fpRunning, fpServer>>
  BY DEF ProcessTask
<1>2. fpWorker \in [FileWorkers -> TaskType]
  BY DEF FpIInv, FpTypes
<1> DEFINE k == [fpWorker[w] EXCEPT !.at = "second lock"]
<1>3. k \in TaskType /\ k.task = fpWorker[w].task /\ k.at = "second lock"
  BY <1>2 DEF TaskType
<1>4. fpWorker' = [fpWorker EXCEPT ![w] = k]
  BY <1>1, <1>2
<1> HIDE DEF k
<1>5. /\ fpWorker' \in [FileWorkers -> TaskType] /\ fpWorker'[w].at = "second lock"
      /\ \A v \in FileWorkers : fpWorker'[v].task = fpWorker[v].task /\ (v # w => fpWorker'[v] = fpWorker[v])
  BY <1>2, <1>3, <1>4
<1> QED BY <1>1, <1>5, WorkerRests

\* The server drains, and the engine is stopped once no handler is left.
LEMMA ServerStops ==
    ASSUME FpIInv, Shutdown \/ Stop \/ UNCHANGED fpVars
    PROVE  FpIInv'
<1>1. /\ UNCHANGED <<fpFile, fpObject, fpHandler, fpQueue, fpWorker, fpLock>>
      /\ ~fpRunning' => fpServer' = "stopped" /\ \A u \in Uploads : fpHandler[u] \in Unblocked
  BY DEF FpIInv, NoSendAfterClose, Shutdown, Stop, StopEngine, fpVars
<1>2. \A u \in Uploads : UploadOK(u)'
  BY <1>1 DEF FpIInv, UploadOK, TaskQueued, InHand
<1>3. TasksAreSingle'
  BY <1>1 DEF FpIInv, TasksAreSingle, TaskQueued
<1>4. FpTypes' /\ LockIsSelfHeld'
  BY <1>1 DEF FpIInv, FpTypes, LockIsSelfHeld
<1>5. \A w \in FileWorkers : fpWorker'[w].at = "waiting" => fpWorker'[w].task = NoTask
  BY <1>1 DEF FpIInv
<1> QED BY <1>1, <1>2, <1>3, <1>4, <1>5 DEF FpIInv, NoSendAfterClose

\* Every step keeps the engine's invariant.
LEMMA FileStep ==
    ASSUME FpIInv, FileAssumption, [FpNext]_fpVars
    PROVE  FpIInv'
BY UploadMoves, Enqueued, Counted, WorkerTakes, WorkerLocks, ServerStops DEF FpNext

\* It holds at the start.
LEMMA FileStart ==
    ASSUME FpInit, FileAssumption
    PROVE  FpIInv
<1>1. FpTypes
  BY DEF FpInit, FpTypes, TaskType
<1>2. DOMAIN fpQueue = {}
  BY DEF FpInit
<1>3. \A w \in FileWorkers : fpWorker[w].at = "waiting" /\ fpWorker[w].task = NoTask
  BY DEF FpInit
<1>4. \A x : ~TaskQueued(x)
  BY <1>2 DEF TaskQueued
<1>5. \A u \in Uploads : ~InHand(u)
  BY <1>3, FileAssumption DEF InHand
<1>6. TasksAreSingle
  BY <1>2, <1>3, <1>4 DEF TasksAreSingle
<1>7. \A u \in Uploads : UploadOK(u)
  BY <1>4, <1>5 DEF FpInit, UploadOK
<1> QED BY <1>1, <1>3, <1>6, <1>7 DEF FpInit, FpIInv, LockIsSelfHeld

\* The invariant is what the property says, with Contains and Holders for TaskQueued and InHand.
LEMMA FilesAreSafe ==
    ASSUME FpIInv, FileAssumption
    PROVE  FileSafety
<1>1. \A u : Contains(fpQueue, u) <=> TaskQueued(u)
  BY DEF FpIInv, FpTypes, Contains, TaskQueued
<1>2. ASSUME NEW u \in Uploads, fpFile[u] = "processing"
      PROVE  \/ Contains(fpQueue, u) /\ Holders(u) = {}
             \/ ~Contains(fpQueue, u) /\ \E w \in FileWorkers : Holders(u) = {w}
  <2>1. UploadOK(u) /\ TasksAreSingle /\ u # NoTask
    BY FileAssumption DEF FpIInv
  <2>2. CASE TaskQueued(u)
    BY <1>1, <2>1, <2>2 DEF TasksAreSingle, Holders
  <2>3. ASSUME ~TaskQueued(u), NEW w \in FileWorkers, fpWorker[w].task = u PROVE Holders(u) = {w}
    BY <2>1, <2>3 DEF TasksAreSingle, Holders
  <2> QED BY <1>1, <1>2, <2>1, <2>2, <2>3 DEF UploadOK, InHand
<1>3. QueuedIsStored
  BY DEF FpIInv, FpTypes, UploadOK, TaskQueued, QueuedIsStored, ToSet
<1> QED BY <1>2, <1>3 DEF FpIInv, FileSafety, ProcessingHasTask, NoSendAfterClose

(***************************************************************************)
(* A file that is marked as processing has one task, queued or in hand, what  *)
(* is queued is stored, and the queue is closed behind the last handler: for  *)
(* any number of uploads and workers, and any queue.                         *)
(***************************************************************************)
THEOREM FilesAreProcessed == FpSpec => []FileSafety
<1>1. FpInit => FpIInv
  BY FileStart, FileAssumption
<1>2. FpIInv /\ [FpNext]_fpVars => FpIInv'
  BY FileStep, FileAssumption
<1>3. FpIInv => FileSafety
  BY FilesAreSafe, FileAssumption
<1> QED BY <1>1, <1>2, <1>3, PTL DEF FpSpec

(***************************************************************************)
(* The progress tracker.                                                   *)
(***************************************************************************)
ClientType ==
    [chan : {"open", "closed"}, queue : Seq(Seq(Nat)), last : Nat, writer : {"none", "on", "gone"},
     reader : {"none", "on", "leaving", "gone"}, handler : {"away", "starting", "full", "done"}]
ReporterType ==
    [at : {"idle", "next", "full"}, msg : Seq(Nat), visited : SUBSET Watchers,
     slow : Watchers \cup {Nobody}, buffered : BOOLEAN]
PtTypes ==
    /\ ptClient \in [Watchers -> ClientType] /\ ptClients \subseteq Watchers
    /\ ptRun \in [does : {"nothing", "adding", "removing"}, for : Watchers \cup {Nobody}]
    /\ ptReporter \in [Reporters -> ReporterType] /\ ptBuffer \in Seq(Nat)
    /\ ptCount \in [plain : Nat, buffered : Nat]

\* A client is known to the hub from its handler's call on, and until its channel is closed; one that
\* the loop is adding has been sent the welcome at most.
ClientOK(v) ==
    /\ ptClient[v].handler = "away" => ptClient[v] = NewClient
    /\ v \in ptClients => /\ ptClient[v].handler # "away" /\ ptClient[v].chan = "open"
                          /\ ptClient[v].reader = "gone" => ptRun = [does |-> "removing", for |-> v]
    /\ ptRun = [does |-> "adding", for |-> v] =>
          /\ v \notin ptClients /\ ptClient[v].chan = "open" /\ ptClient[v].reader # "gone"
          /\ ptClient[v].handler \in {"starting", "done"}
          /\ ptClient[v].handler = "starting" => ptClient[v].queue = <<>>
    /\ ptRun = [does |-> "removing", for |-> v] => ptClient[v].handler # "away"
HubKeeps ==
    /\ \A v \in Watchers : ClientOK(v)
    /\ ptRun # IdleRun => ptRun.does # "nothing" /\ ptRun.for \in Watchers
    /\ \A n \in Reporters : ptReporter[n].at = "full" =>
          /\ ptReporter[n].slow \in Watchers /\ ptClient[ptReporter[n].slow].handler # "away"
          /\ ptRun # [does |-> "adding", for |-> ptReporter[n].slow]

Flushing(n) == ptReporter[n].at # "idle" /\ ptReporter[n].buffered
ReporterOK(n) ==
    /\ ptReporter[n].at = "idle" => ptReporter[n] = IdleReporter
    /\ ~Flushing(n) => ptReporter[n].msg = <<>>
    /\ Flushing(n) => ptReporter[n].msg = ptBuffer /\ \A m \in Reporters : Flushing(m) => m = n

\* x is an update that v was sent, or is in its channel.
Got(v, x) ==
    \/ x = ptClient[v].last
    \/ \E i \in DOMAIN ptClient[v].queue : \E k \in DOMAIN ptClient[v].queue[i] : x = ptClient[v].queue[i][k]
\* What v has got came before what is buffered, unless the flush that is under way has passed v.
WatcherOK(v) ==
    /\ InOrder(ptClient[v].queue, ptClient[v].last)
    /\ \A x : Got(v, x) => x <= ptCount.buffered
    /\ \/ \E n \in Reporters : Flushing(n) /\ v \in ptReporter[n].visited
       \/ \A x : Got(v, x) => \A k \in DOMAIN ptBuffer : x < ptBuffer[k]
BufferOK ==
    /\ Increasing(ptBuffer) /\ \A k \in DOMAIN ptBuffer : ptBuffer[k] <= ptCount.buffered
    /\ ptBuffer # <<>> => Last(ptBuffer) = ptCount.buffered
MessagesOrdered ==
    /\ \A n \in Reporters : ReporterOK(n)
    /\ \A v \in Watchers : WatcherOK(v)
    /\ BufferOK

PtIInv == /\ PtTypes /\ (TrackerUp => HubKeeps) /\ (~ptRaced => MessagesOrdered) /\ ProcessSurvives

\* A connection's state is replaced.
LEMMA ClientSet ==
    ASSUME PtTypes, NEW v \in Watchers, NEW k \in ClientType, ptClient' = [ptClient EXCEPT ![v] = k]
    PROVE  /\ ptClient' \in [Watchers -> ClientType] /\ ptClient'[v] = k
           /\ \A x \in Watchers \ {v} : ptClient'[x] = ptClient[x]
BY DEF PtTypes

\* A reporter's state is replaced.
LEMMA ReporterSet ==
    ASSUME PtTypes, NEW n \in Reporters, NEW k \in ReporterType, ptReporter' = [ptReporter EXCEPT ![n] = k]
    PROVE  /\ ptReporter' \in [Reporters -> ReporterType] /\ ptReporter'[n] = k
           /\ \A m \in Reporters \ {n} : ptReporter'[m] = ptReporter[m]
BY DEF PtTypes

\* The hub after a step that its loop takes no part in: a client that stays has an open channel, and no
\* connection turns back.
LEMMA HubStays ==
    ASSUME PtTypes, HubKeeps, UNCHANGED ptRun, ptClients' \subseteq ptClients,
           \A v \in Watchers :
              \/ ptClient'[v] = ptClient[v]
              \/ /\ ptClient[v].handler # "away" /\ ptClient'[v].handler # "away"
                 /\ v \in ptClients' => ptClient'[v].chan = "open"
                 /\ ptClient'[v].reader = "gone" => ptClient[v].reader = "gone"
                 /\ ptRun = [does |-> "adding", for |-> v] =>
                       /\ ptClient'[v].chan = "open" /\ ptClient'[v].handler \in {"starting", "done"}
                       /\ ptClient'[v].handler = "starting" => ptClient'[v].queue = <<>>,
           \A n \in Reporters : ptReporter'[n].at = "full" =>
              \/ ptReporter[n].at = "full" /\ ptReporter'[n].slow = ptReporter[n].slow
              \/ ptReporter'[n].slow \in ptClients
    PROVE  HubKeeps'
<1>1. ASSUME NEW v \in Watchers PROVE ClientOK(v)' /\ (ptClient[v].handler # "away" => ptClient'[v].handler # "away")
  <2>1. ClientOK(v)
    BY DEF HubKeeps
  <2>2. CASE ptClient'[v] = ptClient[v]
    BY <2>1, <2>2 DEF ClientOK
  <2>3. CASE /\ ptClient[v].handler # "away" /\ ptClient'[v].handler # "away"
             /\ v \in ptClients' => ptClient'[v].chan = "open"
             /\ ptClient'[v].reader = "gone" => ptClient[v].reader = "gone"
             /\ ptRun = [does |-> "adding", for |-> v] =>
                   /\ ptClient'[v].chan = "open" /\ ptClient'[v].handler \in {"starting", "done"}
                   /\ ptClient'[v].handler = "starting" => ptClient'[v].queue = <<>>
    BY <2>1, <2>3 DEF ClientOK
  <2> QED BY <2>2, <2>3
<1>2. ASSUME NEW n \in Reporters, ptReporter'[n].at = "full"
      PROVE  /\ ptReporter'[n].slow \in Watchers /\ ptClient'[ptReporter'[n].slow].handler # "away"
             /\ ptRun # [does |-> "adding", for |-> ptReporter'[n].slow]
  <2>1. CASE ptReporter[n].at = "full" /\ ptReporter'[n].slow = ptReporter[n].slow
    BY <1>1, <2>1 DEF HubKeeps
  <2>2. CASE ptReporter'[n].slow \in ptClients
    <3>1. ptReporter'[n].slow \in Watchers
      BY <2>2 DEF PtTypes
    <3>2. ClientOK(ptReporter'[n].slow)
      BY <3>1 DEF HubKeeps
    <3> QED BY <1>1, <2>2, <3>1, <3>2 DEF ClientOK
  <2> QED BY <1>2, <2>1, <2>2
<1> QED BY <1>1, <1>2 DEF HubKeeps

\* A queue with one more at its end.
LEMMA EndOfQueue ==
    ASSUME NEW S, NEW q \in Seq(S), NEW m \in S
    PROVE  /\ Append(q, m) \in Seq(S) /\ Len(q) \in Nat /\ Len(Append(q, m)) = Len(q) + 1
           /\ DOMAIN Append(q, m) = DOMAIN q \cup {Len(q) + 1} /\ Append(q, m)[Len(q) + 1] = m
           /\ \A i \in DOMAIN q : Append(q, m)[i] = q[i] /\ i \in Nat /\ i < Len(q) + 1
OBVIOUS

\* What a connection was sent and has in its channel, when neither changes, or an empty message is added.
LEMMA WatcherStays ==
    ASSUME PtTypes, NEW v \in Watchers, WatcherOK(v), ptClient'[v].last = ptClient[v].last,
           ptClient'[v].queue = ptClient[v].queue \/ ptClient'[v].queue = Append(ptClient[v].queue, <<>>),
           UNCHANGED <<ptBuffer, ptCount>>,
           \A n \in Reporters : Flushing(n) /\ v \in ptReporter[n].visited =>
                                  Flushing(n)' /\ v \in ptReporter'[n].visited
    PROVE  WatcherOK(v)'
<1> DEFINE old == ptClient[v].queue  new == ptClient'[v].queue
<1>1. ptClient[v].queue \in Seq(Seq(Nat))
  BY DEF PtTypes, ClientType
<1>2. \A i \in DOMAIN new : (i \in DOMAIN old /\ new[i] = old[i]) \/ new[i] = <<>>
  <2>1. CASE ptClient'[v].queue = ptClient[v].queue
    BY <2>1
  <2>2. CASE ptClient'[v].queue = Append(ptClient[v].queue, <<>>)
    <3>1. <<>> \in Seq(Nat)
      OBVIOUS
    <3> QED BY <1>1, <2>2, <3>1, EndOfQueue
  <2> QED BY <2>1, <2>2
<1>3. \A i \in DOMAIN new : \A k \in DOMAIN new[i] : i \in DOMAIN old /\ new[i] = old[i]
  BY <1>2
<1>4. \A i \in DOMAIN new : Increasing(new[i])
  BY <1>2 DEF WatcherOK, InOrder, Increasing
<1>5. InOrder(new, ptClient'[v].last)
  BY <1>3, <1>4 DEF WatcherOK, InOrder
<1>6. ASSUME NEW x, Got(v, x)' PROVE Got(v, x)
  BY <1>3, <1>6 DEF Got
<1>7. (\E n \in Reporters : Flushing(n) /\ v \in ptReporter[n].visited)
      => \E n \in Reporters : Flushing(n)' /\ v \in ptReporter'[n].visited
  OBVIOUS
<1> QED BY <1>5, <1>6, <1>7 DEF WatcherOK

\* The messages after a step that sends no update, reads none and leaves the buffer and its flush alone.
LEMMA OrderStays ==
    ASSUME PtTypes, MessagesOrdered, UNCHANGED <<ptBuffer, ptCount>>,
           \A v \in Watchers :
              /\ ptClient'[v].last = ptClient[v].last
              /\ ptClient'[v].queue = ptClient[v].queue \/ ptClient'[v].queue = Append(ptClient[v].queue, <<>>),
           \A n \in Reporters :
              /\ ptReporter'[n].at = "idle" => ptReporter'[n] = IdleReporter
              /\ ~Flushing(n) => ~Flushing(n)' /\ ptReporter'[n].msg = <<>>
              /\ Flushing(n) => /\ Flushing(n)' /\ ptReporter'[n].msg = ptReporter[n].msg
                                /\ ptReporter[n].visited \subseteq ptReporter'[n].visited
    PROVE  MessagesOrdered'
<1>1. \A n \in Reporters : ReporterOK(n)'
  BY DEF MessagesOrdered, ReporterOK
<1>2. \A v \in Watchers : WatcherOK(v)'
  BY WatcherStays DEF MessagesOrdered
<1>3. BufferOK'
  <2>1. BufferOK
    BY DEF MessagesOrdered
  <2> QED BY <2>1 DEF BufferOK
<1> QED BY <1>1, <1>2, <1>3 DEF MessagesOrdered

\* The flush that is under way sends a connection what is buffered, all of it after what that has got.
LEMMA FlushSends ==
    ASSUME PtTypes, MessagesOrdered, UNCHANGED <<ptBuffer, ptCount>>,
           NEW n \in Reporters, Flushing(n), NEW v \in Watchers, v \notin ptReporter[n].visited,
           ptClient'[v].queue = Append(ptClient[v].queue, ptReporter[n].msg), ptClient'[v].last = ptClient[v].last,
           \A x \in Watchers \ {v} : ptClient'[x] = ptClient[x],
           ptReporter'[n].at = "next", ptReporter'[n].buffered, ptReporter'[n].msg = ptReporter[n].msg,
           ptReporter'[n].visited = ptReporter[n].visited \cup {v},
           \A m \in Reporters \ {n} : ptReporter'[m] = ptReporter[m]
    PROVE  MessagesOrdered'
<1>1. ReporterOK(n) /\ WatcherOK(v) /\ BufferOK /\ ptReporter[n].msg = ptBuffer
  BY DEF MessagesOrdered, ReporterOK
<1>2. /\ \A m \in Reporters : Flushing(m) => m = n
      /\ \A m \in Reporters : Flushing(m)' => m = n
      /\ Flushing(n)'
  BY <1>1 DEF ReporterOK, Flushing
<1>3. ASSUME NEW m \in Reporters PROVE ReporterOK(m)'
  <2>1. CASE m = n
    BY <1>1, <1>2, <2>1 DEF ReporterOK
  <2>2. CASE m # n
    BY <1>2, <2>2 DEF MessagesOrdered, ReporterOK
  <2> QED BY <2>1, <2>2
<1>4. ASSUME NEW x \in Watchers \ {v} PROVE WatcherOK(x)'
  <2>1. WatcherOK(x) /\ ptClient'[x] = ptClient[x]
    BY DEF MessagesOrdered
  <2>2. \A m \in Reporters : Flushing(m) /\ x \in ptReporter[m].visited => Flushing(m)' /\ x \in ptReporter'[m].visited
    BY <1>2
  <2> QED BY <2>1, <2>2, WatcherStays
<1> DEFINE old == ptClient[v].queue  new == ptClient'[v].queue  l == Len(old) + 1
<1>5. /\ DOMAIN new = DOMAIN old \cup {l} /\ new[l] = ptBuffer
      /\ \A i \in DOMAIN old : new[i] = old[i] /\ i \in Nat /\ i < l
      /\ l \in Nat
  <2>1. old \in Seq(Seq(Nat)) /\ ptBuffer \in Seq(Nat)
    BY DEF PtTypes, ClientType
  <2> QED BY <1>1, <2>1, EndOfQueue
<1>6. \A x : Got(v, x) => \A k \in DOMAIN ptBuffer : x < ptBuffer[k]
  BY <1>1, <1>2 DEF WatcherOK
<1> HIDE DEF old, new, l
<1>7. InOrder(old, ptClient[v].last)
  BY <1>1 DEF WatcherOK, old
<1>8. /\ \A k \in DOMAIN ptBuffer : ptClient[v].last < ptBuffer[k]
      /\ \A i \in DOMAIN old : \A k \in DOMAIN old[i], m \in DOMAIN ptBuffer : old[i][k] < ptBuffer[m]
  BY <1>6 DEF Got, old
<1>9. InOrder(new, ptClient[v].last)
  <2> SUFFICES ASSUME NEW i \in DOMAIN new, NEW j \in DOMAIN new
               PROVE  /\ Increasing(new[i])
                      /\ \A k \in DOMAIN new[i] :
                            /\ ptClient[v].last < new[i][k]
                            /\ i < j => \A m \in DOMAIN new[j] : new[i][k] < new[j][m]
    BY DEF InOrder
  <2>1. CASE i \in DOMAIN old /\ j \in DOMAIN old
    BY <1>5, <1>7, <2>1 DEF InOrder
  <2>2. CASE i \in DOMAIN old /\ j = l
    BY <1>5, <1>7, <1>8, <2>2 DEF InOrder
  <2>3. CASE i = l
    <3>1. ~(i < j)
      BY <1>5, <2>3
    <3>2. new[i] = ptBuffer /\ Increasing(ptBuffer)
      BY <1>1, <1>5, <2>3 DEF BufferOK
    <3> QED BY <1>8, <3>1, <3>2
  <2> QED BY <1>5, <2>1, <2>2, <2>3
<1>10. ASSUME NEW x, Got(v, x)' PROVE Got(v, x) \/ \E k \in DOMAIN ptBuffer : x = ptBuffer[k]
  <2>1. CASE x = ptClient'[v].last
    BY <2>1 DEF Got
  <2>2. ASSUME NEW i \in DOMAIN new, NEW k \in DOMAIN new[i], x = new[i][k]
        PROVE  Got(v, x) \/ \E m \in DOMAIN ptBuffer : x = ptBuffer[m]
    BY <1>5, <2>2 DEF Got, old
  <2> QED BY <1>10, <2>1, <2>2 DEF Got, new
<1>11. \A x : Got(v, x)' => x <= ptCount'.buffered
  BY <1>1, <1>10 DEF WatcherOK, BufferOK
<1>12. WatcherOK(v)'
  <2>1. Flushing(n)' /\ v \in ptReporter'[n].visited
    BY <1>2
  <2> QED BY <1>9, <1>11, <2>1 DEF WatcherOK, new
<1>13. BufferOK'
  BY <1>1 DEF BufferOK
<1> QED BY <1>3, <1>4, <1>12, <1>13 DEF MessagesOrdered

\* A client is sent all that is in its channel: its last update is one it had got.
LEMMA UpdatesAreRead ==
    ASSUME PtTypes, MessagesOrdered, UNCHANGED <<ptBuffer, ptCount, ptReporter>>,
           NEW v \in Watchers, LastSent(v, ptClient'[v].last), ptClient'[v].queue = <<>>,
           \A x \in Watchers \ {v} : ptClient'[x] = ptClient[x]
    PROVE  MessagesOrdered'
<1>1. \A m \in Reporters : ReporterOK(m)' /\ (Flushing(m)' <=> Flushing(m))
  BY DEF MessagesOrdered, ReporterOK, Flushing
<1>2. BufferOK'
  BY DEF MessagesOrdered, BufferOK
<1>3. ASSUME NEW x \in Watchers \ {v} PROVE WatcherOK(x)'
  <2>1. WatcherOK(x) /\ ptClient'[x] = ptClient[x]
    BY DEF MessagesOrdered
  <2> QED BY <1>1, <2>1, WatcherStays
<1>4. Got(v, ptClient'[v].last)
  <2> DEFINE queue == ptClient[v].queue
  <2>1. CASE ptClient'[v].last = ptClient[v].last
    BY <2>1 DEF Got
  <2>2. ASSUME NEW i \in DOMAIN queue, queue[i] # <<>>, ptClient'[v].last = Last(queue[i])
        PROVE  Got(v, ptClient'[v].last)
    <3>1. queue[i] \in Seq(Nat)
      BY DEF PtTypes, ClientType
    <3>2. Len(queue[i]) \in DOMAIN queue[i]
      BY <2>2, <3>1, EmptySeq, LenProperties
    <3> QED BY <2>2, <3>2 DEF Got, Last
  <2> QED BY <2>1, <2>2 DEF LastSent
<1>5. ASSUME NEW x, Got(v, x)' PROVE Got(v, x)
  BY <1>4, <1>5 DEF Got
<1>6. InOrder(ptClient'[v].queue, ptClient'[v].last)
  BY DEF InOrder
<1>7. WatcherOK(v)'
  <2>1. WatcherOK(v)
    BY DEF MessagesOrdered
  <2> QED BY <1>1, <1>5, <1>6, <2>1 DEF WatcherOK
<1> QED BY <1>1, <1>2, <1>3, <1>7 DEF MessagesOrdered

\* An update is buffered, and the buffer flushed when it is full: no other flush is under way, and the new
\* update comes after everything that anybody has got.
LEMMA UpdateIsBuffered ==
    ASSUME PtTypes, MessagesOrdered, BufferFree, UNCHANGED ptClient, NEW n \in Reporters, ptReporter[n] = IdleReporter,
           ptCount'.buffered = ptCount.buffered + 1, ptBuffer' = Append(ptBuffer, ptCount.buffered + 1),
           \A m \in Reporters \ {n} : ptReporter'[m] = ptReporter[m],
           \/ ptReporter'[n] = ptReporter[n]
           \/ ptReporter'[n].at = "next" /\ ptReporter'[n].buffered /\ ptReporter'[n].msg = ptBuffer'
    PROVE  MessagesOrdered'
<1> DEFINE c == ptCount.buffered  l == Len(ptBuffer) + 1
<1>1. /\ c \in Nat /\ DOMAIN ptBuffer' = DOMAIN ptBuffer \cup {l} /\ ptBuffer'[l] = c + 1 /\ l \in Nat
      /\ \A k \in DOMAIN ptBuffer : ptBuffer'[k] = ptBuffer[k] /\ ptBuffer[k] \in Nat /\ k \in Nat /\ k < l
      /\ Len(ptBuffer') = l
  <2>1. c \in Nat /\ c + 1 \in Nat /\ ptBuffer \in Seq(Nat)
    BY DEF PtTypes
  <2>2. \A k \in DOMAIN ptBuffer : ptBuffer[k] \in Nat
    BY <2>1
  <2> QED BY <2>1, <2>2, EndOfQueue
<1>2. \A m \in Reporters : ~Flushing(m)
  BY DEF BufferFree, Broadcasting, Flushing
<1>3. BufferOK /\ \A v \in Watchers : WatcherOK(v)
  BY DEF MessagesOrdered
<1>4. BufferOK'
  <2>1. \A k \in DOMAIN ptBuffer' : ptBuffer'[k] <= c + 1
    BY <1>1, <1>3 DEF BufferOK
  <2>2. Increasing(ptBuffer')
    <3> SUFFICES ASSUME NEW i \in DOMAIN ptBuffer', NEW j \in DOMAIN ptBuffer', i < j PROVE ptBuffer'[i] < ptBuffer'[j]
      BY DEF Increasing
    <3>1. i \in DOMAIN ptBuffer
      BY <1>1
    <3>2. CASE j \in DOMAIN ptBuffer
      BY <1>1, <1>3, <3>1, <3>2 DEF BufferOK, Increasing
    <3>3. CASE j = l
      <4>1. ptBuffer[i] <= c
        BY <1>3, <3>1 DEF BufferOK
      <4> QED BY <1>1, <3>1, <3>3, <4>1
    <3> QED BY <1>1, <3>2, <3>3
  <2>3. Last(ptBuffer') = c + 1
    BY <1>1 DEF Last
  <2> QED BY <2>1, <2>2, <2>3 DEF BufferOK
<1>5. ASSUME NEW m \in Reporters PROVE ReporterOK(m)'
  <2>1. ReporterOK(m) /\ ReporterOK(n)
    BY DEF MessagesOrdered
  <2>2. \A x \in Reporters : Flushing(x)' => x = n
    BY <1>2 DEF Flushing
  <2>3. CASE m # n
    BY <1>2, <2>1, <2>2, <2>3 DEF ReporterOK, Flushing
  <2>4. CASE m = n
    BY <1>2, <2>1, <2>2, <2>4 DEF ReporterOK, Flushing
  <2> QED BY <2>3, <2>4
<1>6. ASSUME NEW v \in Watchers PROVE WatcherOK(v)'
  <2>1. WatcherOK(v) /\ \A x : Got(v, x)' <=> Got(v, x)
    BY <1>3 DEF Got
  <2>2. \A x : Got(v, x) => x \in Nat
    BY DEF Got, PtTypes, ClientType
  <2>3. \A x : Got(v, x) => x <= c /\ \A k \in DOMAIN ptBuffer : x < ptBuffer[k]
    BY <1>2, <2>1 DEF WatcherOK
  <2>4. \A x : Got(v, x) => x <= c + 1 /\ x < c + 1
    BY <1>1, <2>2, <2>3
  <2>5. \A x : Got(v, x) => \A k \in DOMAIN ptBuffer' : x < ptBuffer'[k]
    BY <1>1, <2>3, <2>4
  <2> QED BY <2>1, <2>4, <2>5 DEF WatcherOK
<1> QED BY <1>4, <1>5, <1>6 DEF MessagesOrdered

\* A flush begins, and has passed nobody.
LEMMA FlushBegins ==
    ASSUME PtTypes, MessagesOrdered, BufferFree, UNCHANGED <<ptClient, ptBuffer, ptCount>>, NEW n \in Reporters,
           ptReporter'[n].at = "next", ptReporter'[n].buffered, ptReporter'[n].msg = ptBuffer,
           \A m \in Reporters \ {n} : ptReporter'[m] = ptReporter[m]
    PROVE  MessagesOrdered'
<1>1. \A m \in Reporters : ~Flushing(m)
  BY DEF BufferFree, Broadcasting, Flushing
<1>2. BufferOK'
  <2>1. BufferOK
    BY DEF MessagesOrdered
  <2> QED BY <2>1 DEF BufferOK
<1>3. ASSUME NEW v \in Watchers PROVE WatcherOK(v)'
  <2>1. WatcherOK(v)
    BY DEF MessagesOrdered
  <2> QED BY <1>1, <2>1, WatcherStays
<1>4. ASSUME NEW m \in Reporters PROVE ReporterOK(m)'
  <2>1. ReporterOK(m)
    BY DEF MessagesOrdered
  <2>2. \A x \in Reporters : Flushing(x)' => x = n
    BY <1>1 DEF Flushing
  <2>3. CASE m # n
    BY <1>1, <2>1, <2>2, <2>3 DEF ReporterOK, Flushing
  <2>4. CASE m = n
    BY <1>1, <2>2, <2>4 DEF ReporterOK, Flushing
  <2> QED BY <2>3, <2>4
<1> QED BY <1>2, <1>3, <1>4 DEF MessagesOrdered

\* A flush ends, and leaves the buffer empty.
LEMMA FlushEnds ==
    ASSUME PtTypes, MessagesOrdered, UNCHANGED <<ptClient, ptCount>>, NEW n \in Reporters, Flushing(n),
           ptReporter'[n] = IdleReporter, ptBuffer' = <<>>,
           \A m \in Reporters \ {n} : ptReporter'[m] = ptReporter[m]
    PROVE  MessagesOrdered'
<1>1. \A m \in Reporters : Flushing(m) => m = n
  BY DEF MessagesOrdered, ReporterOK
<1>2. IdleReporter.at = "idle" /\ IdleReporter.msg = <<>>
  BY DEF IdleReporter
<1>3. \A m \in Reporters : ~Flushing(m)'
  BY <1>1, <1>2 DEF Flushing
<1>4. ASSUME NEW m \in Reporters PROVE ReporterOK(m)'
  <2>1. ReporterOK(m)
    BY DEF MessagesOrdered
  <2>2. CASE m = n
    BY <1>2, <1>3, <2>2 DEF ReporterOK
  <2>3. CASE m # n
    BY <1>1, <1>3, <2>1, <2>3 DEF ReporterOK
  <2> QED BY <2>2, <2>3
<1>5. ASSUME NEW v \in Watchers PROVE WatcherOK(v)'
  <2>1. WatcherOK(v) /\ \A x : Got(v, x)' <=> Got(v, x)
    BY DEF MessagesOrdered, Got
  <2>2. DOMAIN ptBuffer' = {}
    OBVIOUS
  <2> QED BY <2>1, <2>2 DEF WatcherOK
<1>6. BufferOK'
  BY DEF BufferOK, Increasing
<1> QED BY <1>4, <1>5, <1>6 DEF MessagesOrdered

\* A connection's own step, which no lock covers and the hub takes no part in.
LEMMA ClientActs ==
    ASSUME PtIInv, TrackerUp, NEW v \in Watchers, NEW k \in ClientType, ptClient' = [ptClient EXCEPT ![v] = k],
           UNCHANGED <<ptClients, ptRun, ptReporter, ptBuffer, ptCount, ptProcess, ptRaced>>,
           ptClient[v].handler # "away", k.handler # "away", v \in ptClients => k.chan = "open",
           k.reader = "gone" => ptClient[v].reader = "gone",
           ptRun = [does |-> "adding", for |-> v] =>
              /\ k.chan = "open" /\ k.handler \in {"starting", "done"}
              /\ k.handler = "starting" => k.queue = <<>>,
           ~ptRaced => MessagesOrdered'
    PROVE  PtIInv'
<1>1. PtTypes /\ HubKeeps /\ ProcessSurvives
  BY DEF PtIInv
<1>2. /\ ptClient' \in [Watchers -> ClientType] /\ ptClient'[v] = k
      /\ \A x \in Watchers \ {v} : ptClient'[x] = ptClient[x]
  BY <1>1, ClientSet
<1>3. PtTypes'
  BY <1>1, <1>2 DEF PtTypes
<1>4. HubKeeps'
  BY <1>1, <1>2, HubStays
<1>5. ProcessSurvives'
  BY <1>1 DEF ProcessSurvives
<1> QED BY <1>3, <1>4, <1>5 DEF PtIInv

\* The welcome: a client that the loop is still adding has an empty channel, and does not find it full.
LEMMA Welcomed ==
    ASSUME PtIInv, FileAssumption, NEW v \in Watchers, SendToClient(v)
    PROVE  PtIInv'
<1>1. PtTypes /\ HubKeeps /\ TrackerUp /\ ptClient[v] \in ClientType /\ (~ptRaced => MessagesOrdered)
  BY DEF PtIInv, SendToClient, PtTypes
<1>2. ClientOK(v) /\ ptClient[v].handler = "starting"
  BY <1>1 DEF HubKeeps, SendToClient
<1>3. ASSUME NEW k \in ClientType, ptClient' = [ptClient EXCEPT ![v] = k], k.last = ptClient[v].last,
             k.queue = ptClient[v].queue \/ k.queue = Append(ptClient[v].queue, <<>>),
             UNCHANGED <<ptReporter, ptBuffer, ptCount>>, MessagesOrdered
      PROVE  MessagesOrdered'
  <2>1. ptClient'[v] = k /\ \A x \in Watchers \ {v} : ptClient'[x] = ptClient[x]
    BY <1>1, <1>3, ClientSet
  <2>2. \A x \in Watchers :
           /\ ptClient'[x].last = ptClient[x].last
           /\ ptClient'[x].queue = ptClient[x].queue \/ ptClient'[x].queue = Append(ptClient[x].queue, <<>>)
    BY <1>3, <2>1
  <2>3. \A n \in Reporters : ptReporter[n].at = "idle" => ptReporter[n] = IdleReporter
    BY <1>3 DEF MessagesOrdered, ReporterOK
  <2>4. \A n \in Reporters : ~Flushing(n) => ptReporter[n].msg = <<>>
    BY <1>3 DEF MessagesOrdered, ReporterOK
  <2>5. \A n \in Reporters : Flushing(n)' <=> Flushing(n)
    BY <1>3 DEF Flushing
  <2> QED BY <1>1, <1>3, <2>2, <2>3, <2>4, <2>5, OrderStays
<1>4. CASE ptClient[v].chan = "closed" /\ ptClient' = [ptClient EXCEPT ![v].handler = "done"]
  <2> DEFINE k == [ptClient[v] EXCEPT !.handler = "done"]
  <2>1. /\ k \in ClientType /\ k.handler = "done" /\ k.chan = ptClient[v].chan /\ k.reader = ptClient[v].reader
        /\ k.queue = ptClient[v].queue /\ k.last = ptClient[v].last /\ ptClient' = [ptClient EXCEPT ![v] = k]
    BY <1>1, <1>4 DEF ClientType
  <2> HIDE DEF k
  <2> QED BY <1>1, <1>2, <1>3, <1>4, <2>1, ClientActs DEF ClientOK, SendToClient
<1>5. CASE ptClient[v].chan = "open" /\ ptClient' = [ptClient EXCEPT ![v].handler = "done", ![v].queue = Append(@, <<>>)]
  <2> DEFINE k == [ptClient[v] EXCEPT !.handler = "done", !.queue = Append(@, <<>>)]
  <2>1. ptClient[v].queue \in Seq(Seq(Nat)) /\ Append(ptClient[v].queue, <<>>) \in Seq(Seq(Nat))
    BY <1>1 DEF ClientType
  <2>2. /\ k \in ClientType /\ k.handler = "done" /\ k.chan = ptClient[v].chan /\ k.reader = ptClient[v].reader
        /\ k.queue = Append(ptClient[v].queue, <<>>) /\ k.last = ptClient[v].last
        /\ ptClient' = [ptClient EXCEPT ![v] = k]
    BY <1>1, <1>5, <2>1 DEF ClientType
  <2> HIDE DEF k
  <2> QED BY <1>1, <1>2, <1>3, <1>5, <2>2, ClientActs DEF ClientOK, SendToClient
<1>6. CASE ptClient[v].chan = "open" /\ ~(Len(ptClient[v].queue) < SocketCap)
           /\ ptClient' = [ptClient EXCEPT ![v].handler = "full"]
  <2> DEFINE k == [ptClient[v] EXCEPT !.handler = "full"]
  <2>1. /\ k \in ClientType /\ k.handler = "full" /\ k.chan = ptClient[v].chan /\ k.reader = ptClient[v].reader
        /\ k.queue = ptClient[v].queue /\ k.last = ptClient[v].last /\ ptClient' = [ptClient EXCEPT ![v] = k]
    BY <1>1, <1>6 DEF ClientType
  <2>2. ptClient[v].queue # <<>>
    <3>1. Len(<<>>) = 0 /\ SocketCap \in Nat \ {0}
      BY FileAssumption DEF FileAssumption
    <3> QED BY <1>6, <3>1
  <2>3. ptRun # [does |-> "adding", for |-> v]
    BY <1>2, <2>2 DEF ClientOK
  <2> HIDE DEF k
  <2> QED BY <1>1, <1>2, <1>3, <1>6, <2>1, <2>3, ClientActs DEF ClientOK, SendToClient
<1>7. ptClient[v].chan \in {"open", "closed"}
  BY <1>1 DEF ClientType
<1> QED BY <1>4, <1>5, <1>6, <1>7 DEF SendToClient

\* The pumps' own steps.
LEMMA PumpsRun ==
    ASSUME PtIInv, NEW v \in Watchers, ReadPumpEnds(v) \/ ClientWrites(v)
    PROVE  PtIInv'
<1>1. PtTypes /\ HubKeeps /\ TrackerUp /\ ptClient[v] \in ClientType /\ (~ptRaced => MessagesOrdered)
  BY DEF PtIInv, ReadPumpEnds, ClientWrites, PtTypes
<1>2. ClientOK(v) /\ ptClient[v].handler # "away"
  BY <1>1 DEF HubKeeps, ClientOK, NewClient, ReadPumpEnds, ClientWrites
<1>3. UNCHANGED <<ptClients, ptRun, ptReporter, ptBuffer, ptCount, ptProcess, ptRaced>>
  BY DEF ReadPumpEnds, ClientWrites
<1>4. ASSUME NEW k \in ClientType, ptClient' = [ptClient EXCEPT ![v] = k], k.last = ptClient[v].last,
             k.queue = ptClient[v].queue, MessagesOrdered
      PROVE  MessagesOrdered'
  <2>1. ptClient'[v] = k /\ \A x \in Watchers \ {v} : ptClient'[x] = ptClient[x]
    BY <1>1, <1>4, ClientSet
  <2>2. \A x \in Watchers : ptClient'[x].last = ptClient[x].last /\ ptClient'[x].queue = ptClient[x].queue
    BY <1>4, <2>1
  <2>3. \A n \in Reporters : ptReporter[n].at = "idle" => ptReporter[n] = IdleReporter
    BY <1>4 DEF MessagesOrdered, ReporterOK
  <2>4. \A n \in Reporters : ~Flushing(n) => ptReporter[n].msg = <<>>
    BY <1>4 DEF MessagesOrdered, ReporterOK
  <2>5. \A n \in Reporters : Flushing(n)' <=> Flushing(n)
    BY <1>3 DEF Flushing
  <2> QED BY <1>1, <1>3, <1>4, <2>2, <2>3, <2>4, <2>5, OrderStays
<1>5. CASE ptClient' = [ptClient EXCEPT ![v].reader = "leaving"]
  <2> DEFINE k == [ptClient[v] EXCEPT !.reader = "leaving"]
  <2>1. /\ k \in ClientType /\ k.reader = "leaving" /\ k.chan = ptClient[v].chan /\ k.handler = ptClient[v].handler
        /\ k.queue = ptClient[v].queue /\ k.last = ptClient[v].last /\ ptClient' = [ptClient EXCEPT ![v] = k]
    BY <1>1, <1>5 DEF ClientType
  <2> HIDE DEF k
  <2> QED BY <1>1, <1>2, <1>3, <1>4, <2>1, ClientActs DEF ClientOK
<1>6. CASE ptClient' = [ptClient EXCEPT ![v].writer = "gone"]
  <2> DEFINE k == [ptClient[v] EXCEPT !.writer = "gone"]
  <2>1. /\ k \in ClientType /\ k.reader = ptClient[v].reader /\ k.chan = ptClient[v].chan
        /\ k.handler = ptClient[v].handler
        /\ k.queue = ptClient[v].queue /\ k.last = ptClient[v].last /\ ptClient' = [ptClient EXCEPT ![v] = k]
    BY <1>1, <1>6 DEF ClientType
  <2> HIDE DEF k
  <2> QED BY <1>1, <1>2, <1>3, <1>4, <2>1, ClientActs DEF ClientOK
<1>7. ASSUME NEW x \in 0 .. ptCount.buffered, LastSent(v, x),
             ptClient' = [ptClient EXCEPT ![v].queue = <<>>, ![v].last = x]
      PROVE  PtIInv'
  <2> DEFINE k == [ptClient[v] EXCEPT !.queue = <<>>, !.last = x]
  <2>1. x \in Nat /\ <<>> \in Seq(Seq(Nat))
    BY <1>1 DEF PtTypes
  <2>2. /\ k \in ClientType /\ k.reader = ptClient[v].reader /\ k.chan = ptClient[v].chan
        /\ k.handler = ptClient[v].handler
        /\ k.queue = <<>> /\ k.last = x /\ ptClient' = [ptClient EXCEPT ![v] = k]
    BY <1>1, <1>7, <2>1 DEF ClientType
  <2> HIDE DEF k
  <2>3. ptClient'[v] = k /\ \A y \in Watchers \ {v} : ptClient'[y] = ptClient[y]
    BY <1>1, <2>2, ClientSet
  <2>4. ~ptRaced => MessagesOrdered'
    BY <1>1, <1>3, <1>7, <2>2, <2>3, UpdatesAreRead
  <2> QED BY <1>1, <1>2, <1>3, <2>2, <2>4, ClientActs DEF ClientOK
<1> QED BY <1>5, <1>6, <1>7 DEF ReadPumpEnds, ClientWrites

\* A reporter's own step, which the connections and the hub take no part in.
LEMMA ReporterActs ==
    ASSUME PtIInv, TrackerUp, NEW n \in Reporters, NEW k \in ReporterType, k.at # "full",
           ptReporter' = [ptReporter EXCEPT ![n] = k],
           ptBuffer' \in Seq(Nat), ptCount' \in [plain : Nat, buffered : Nat],
           UNCHANGED <<ptClient, ptClients, ptRun, ptProcess, ptRaced>>, ~ptRaced => MessagesOrdered'
    PROVE  PtIInv'
<1>1. PtTypes /\ HubKeeps /\ ProcessSurvives
  BY DEF PtIInv
<1>2. /\ ptReporter' \in [Reporters -> ReporterType] /\ ptReporter'[n] = k
      /\ \A m \in Reporters \ {n} : ptReporter'[m] = ptReporter[m]
  BY <1>1, ReporterSet
<1>3. PtTypes'
  BY <1>1, <1>2 DEF PtTypes
<1>4. HubKeeps'
  BY <1>1, <1>2, HubStays
<1>5. ProcessSurvives'
  BY <1>1 DEF ProcessSurvives
<1> QED BY <1>3, <1>4, <1>5 DEF PtIInv

\* A report that is not buffered is broadcast, and is not numbered.
LEMMA Reported ==
    ASSUME PtIInv, NEW n \in Reporters, UpdateProgress(n)
    PROVE  PtIInv'
<1>1. PtTypes /\ TrackerUp /\ ptReporter[n] \in ReporterType /\ (~ptRaced => MessagesOrdered)
  BY DEF PtIInv, UpdateProgress, PtTypes
<1> DEFINE k == [ptReporter[n] EXCEPT !.at = "next"]
<1>2. /\ k \in ReporterType /\ k.at = "next" /\ k.msg = <<>> /\ ~k.buffered
      /\ ptReporter' = [ptReporter EXCEPT ![n] = k]
  <2>1. ptReporter[n].msg = <<>> /\ ~ptReporter[n].buffered
    BY DEF UpdateProgress, IdleReporter
  <2>2. /\ k \in ReporterType /\ k.at = "next" /\ k.msg = ptReporter[n].msg
        /\ k.buffered = ptReporter[n].buffered
    BY <1>1 DEF ReporterType
  <2>3. ptReporter' = [ptReporter EXCEPT ![n] = k]
    BY DEF UpdateProgress
  <2> QED BY <2>1, <2>2, <2>3
<1> HIDE DEF k
<1>3. ptReporter'[n] = k /\ \A m \in Reporters \ {n} : ptReporter'[m] = ptReporter[m]
  BY <1>1, <1>2, ReporterSet
<1>4. ptCount' \in [plain : Nat, buffered : Nat] /\ ptCount'.buffered = ptCount.buffered
  BY <1>1 DEF PtTypes, UpdateProgress
<1>5. ASSUME MessagesOrdered PROVE MessagesOrdered'
  <2>1. ~Flushing(n) /\ ~Flushing(n)'
    BY <1>2, <1>3 DEF Flushing, UpdateProgress, IdleReporter
  <2>2. \A m \in Reporters : Flushing(m)' <=> Flushing(m)
    BY <1>3, <2>1 DEF Flushing
  <2>3. ASSUME NEW m \in Reporters PROVE ReporterOK(m)'
    <3>1. ReporterOK(m)
      BY <1>5 DEF MessagesOrdered
    <3>2. CASE m = n
      BY <1>2, <1>3, <2>1, <3>2 DEF ReporterOK
    <3>3. CASE m # n
      BY <1>3, <2>2, <3>1, <3>3 DEF ReporterOK, UpdateProgress
    <3> QED BY <3>2, <3>3
  <2>4. ASSUME NEW v \in Watchers PROVE WatcherOK(v)'
    <3>1. WatcherOK(v) /\ ptClient' = ptClient /\ ptBuffer' = ptBuffer
      BY <1>5 DEF MessagesOrdered, UpdateProgress
    <3>2. \A x : Got(v, x)' <=> Got(v, x)
      BY <3>1 DEF Got
    <3>3. \A m \in Reporters : Flushing(m) /\ v \in ptReporter[m].visited => Flushing(m)' /\ v \in ptReporter'[m].visited
      BY <1>3, <2>1, <2>2
    <3>4. /\ InOrder(ptClient'[v].queue, ptClient'[v].last)
          /\ \A x : Got(v, x)' => x <= ptCount'.buffered
      BY <1>4, <3>1, <3>2 DEF WatcherOK
    <3>5. \/ \E m \in Reporters : Flushing(m)' /\ v \in ptReporter'[m].visited
          \/ \A x : Got(v, x)' => \A i \in DOMAIN ptBuffer' : x < ptBuffer'[i]
      BY <3>1, <3>2, <3>3 DEF WatcherOK
    <3> QED BY <3>4, <3>5 DEF WatcherOK
  <2>5. BufferOK'
    BY <1>4, <1>5 DEF MessagesOrdered, BufferOK, UpdateProgress
  <2> QED BY <2>3, <2>4, <2>5 DEF MessagesOrdered
<1>6. ptBuffer' \in Seq(Nat)
  BY <1>1 DEF PtTypes, UpdateProgress
<1> QED BY <1>1, <1>2, <1>4, <1>5, <1>6, ReporterActs DEF UpdateProgress

\* What a flush makes of its reporter.
LEMMA FlushSet ==
    ASSUME PtTypes, NEW n \in Reporters, NEW updates \in Seq(Nat), FlushBuffer(n, updates)
    PROVE  \E k \in ReporterType : /\ k.at = "next" /\ k.msg = updates /\ k.buffered
                                   /\ ptReporter' = [ptReporter EXCEPT ![n] = k]
<1>1. ptReporter[n] \in ReporterType
  BY DEF PtTypes
<1> DEFINE k == [ptReporter[n] EXCEPT !.at = "next", !.msg = updates, !.buffered = TRUE]
<1>2. k \in ReporterType /\ k.at = "next" /\ k.msg = updates /\ k.buffered
  BY <1>1 DEF ReporterType
<1>3. ptReporter' = [ptReporter EXCEPT ![n] = k]
  BY DEF FlushBuffer
<1> QED BY <1>2, <1>3

\* A report is buffered.
LEMMA Buffered ==
    ASSUME PtIInv, NEW n \in Reporters, UpdateProgressBuffered(n)
    PROVE  PtIInv'
<1>1. PtTypes /\ TrackerUp /\ ptReporter[n] \in ReporterType /\ ptReporter[n] = IdleReporter
      /\ (~ptRaced => MessagesOrdered)
  BY DEF PtIInv, UpdateProgressBuffered, PtTypes
<1>2. /\ ptCount' \in [plain : Nat, buffered : Nat] /\ ptCount'.buffered = ptCount.buffered + 1
      /\ ptCount'.buffered \in Nat
  BY <1>1 DEF PtTypes, UpdateProgressBuffered
<1>3. ptBuffer' = Append(ptBuffer, ptCount.buffered + 1) /\ ptBuffer' \in Seq(Nat)
  BY <1>1, <1>2 DEF PtTypes, UpdateProgressBuffered
<1>4. PICK k \in ReporterType : /\ k.at # "full" /\ ptReporter' = [ptReporter EXCEPT ![n] = k]
                                /\ k = ptReporter[n] \/ (k.at = "next" /\ k.buffered /\ k.msg = ptBuffer')
  <2>1. CASE FlushBuffer(n, ptBuffer')
    <3>1. \E k \in ReporterType : /\ k.at = "next" /\ k.msg = ptBuffer' /\ k.buffered
                                   /\ ptReporter' = [ptReporter EXCEPT ![n] = k]
      BY <1>1, <1>3, <2>1, FlushSet
    <3> QED BY <3>1
  <2>2. CASE UNCHANGED ptReporter
    <3>1. ptReporter' = [ptReporter EXCEPT ![n] = ptReporter[n]] /\ ptReporter[n].at # "full"
      BY <1>1, <2>2 DEF PtTypes, IdleReporter
    <3> QED BY <1>1, <3>1
  <2> QED BY <2>1, <2>2 DEF UpdateProgressBuffered
<1>5. ptReporter'[n] = k /\ \A m \in Reporters \ {n} : ptReporter'[m] = ptReporter[m]
  BY <1>1, <1>4, ReporterSet
<1>6. ~ptRaced => MessagesOrdered'
  BY <1>1, <1>2, <1>3, <1>4, <1>5, UpdateIsBuffered DEF UpdateProgressBuffered
<1> QED BY <1>1, <1>2, <1>3, <1>4, <1>6, ReporterActs DEF UpdateProgressBuffered

\* The timer flushes.
LEMMA TimerFlushes ==
    ASSUME PtIInv, NEW n \in Reporters, FlushBuffers(n)
    PROVE  PtIInv'
<1>1. PtTypes /\ TrackerUp /\ ptBuffer \in Seq(Nat) /\ (~ptRaced => MessagesOrdered)
  BY DEF PtIInv, FlushBuffers, PtTypes
<1>2. PICK k \in ReporterType : /\ k.at = "next" /\ k.msg = ptBuffer /\ k.buffered
                                /\ ptReporter' = [ptReporter EXCEPT ![n] = k]
  BY <1>1, FlushSet DEF FlushBuffers
<1>3. ptReporter'[n] = k /\ \A m \in Reporters \ {n} : ptReporter'[m] = ptReporter[m]
  BY <1>1, <1>2, ReporterSet
<1>4. ~ptRaced => MessagesOrdered'
  BY <1>1, <1>2, <1>3, FlushBegins DEF FlushBuffers
<1>5. ptBuffer' \in Seq(Nat) /\ ptCount' \in [plain : Nat, buffered : Nat] /\ k.at # "full"
  BY <1>1, <1>2 DEF PtTypes, FlushBuffers
<1> QED BY <1>1, <1>2, <1>4, <1>5, ReporterActs DEF FlushBuffers

\* A broadcast comes to a client: its channel is open, and takes the message or is full.
LEMMA Visited ==
    ASSUME PtIInv, NEW n \in Reporters, NEW v \in Watchers, Visit(n, v)
    PROVE  PtIInv'
<1>1. /\ PtTypes /\ HubKeeps /\ TrackerUp /\ (~ptRaced => MessagesOrdered) /\ ProcessSurvives
      /\ ptReporter[n] \in ReporterType /\ ptClient[v] \in ClientType
  BY DEF PtIInv, Visit, PtTypes
<1>2. ptClient[v].handler # "away" /\ ptClient[v].chan = "open" /\ v \in ptClients
      /\ ptRun # [does |-> "adding", for |-> v]
  BY <1>1 DEF HubKeeps, ClientOK, Visit
<1>3. /\ ptReporter[n].at = "next" /\ v \notin ptReporter[n].visited
      /\ UNCHANGED <<ptClients, ptRun, ptBuffer, ptCount, ptRaced>>
  BY DEF Visit
<1>4. CASE /\ ptClient' = [ptClient EXCEPT ![v].queue = Append(@, ptReporter[n].msg)] /\ UNCHANGED ptProcess
           /\ ptReporter' = [ptReporter EXCEPT ![n].visited = @ \cup {v}]
  <2> DEFINE k == [ptClient[v] EXCEPT !.queue = Append(@, ptReporter[n].msg)]
             r == [ptReporter[n] EXCEPT !.visited = @ \cup {v}]
  <2>1. ptClient[v].queue \in Seq(Seq(Nat)) /\ ptReporter[n].msg \in Seq(Nat)
        /\ Append(ptClient[v].queue, ptReporter[n].msg) \in Seq(Seq(Nat))
    BY <1>1 DEF ClientType, ReporterType
  <2>2. /\ k \in ClientType /\ k.handler = ptClient[v].handler /\ k.chan = ptClient[v].chan
        /\ k.reader = ptClient[v].reader /\ k.last = ptClient[v].last
        /\ k.queue = Append(ptClient[v].queue, ptReporter[n].msg) /\ ptClient' = [ptClient EXCEPT ![v] = k]
    BY <1>1, <1>4, <2>1 DEF ClientType
  <2>3. /\ r \in ReporterType /\ r.at = "next" /\ r.visited = ptReporter[n].visited \cup {v}
        /\ r.msg = ptReporter[n].msg /\ r.buffered = ptReporter[n].buffered
        /\ ptReporter' = [ptReporter EXCEPT ![n] = r]
    BY <1>1, <1>3, <1>4 DEF ReporterType
  <2> HIDE DEF k, r
  <2>4. /\ ptClient' \in [Watchers -> ClientType] /\ ptClient'[v] = k
        /\ \A x \in Watchers \ {v} : ptClient'[x] = ptClient[x]
    BY <1>1, <2>2, ClientSet
  <2>5. /\ ptReporter' \in [Reporters -> ReporterType] /\ ptReporter'[n] = r
        /\ \A m \in Reporters \ {n} : ptReporter'[m] = ptReporter[m]
    BY <1>1, <2>3, ReporterSet
  <2>6. PtTypes'
    BY <1>1, <1>3, <2>4, <2>5 DEF PtTypes
  <2>7. HubKeeps'
    BY <1>1, <1>2, <1>3, <2>2, <2>3, <2>4, <2>5, HubStays
  <2>8. ASSUME MessagesOrdered PROVE MessagesOrdered'
    <3>1. CASE Flushing(n)
      <4>1. /\ ptReporter'[n].at = "next" /\ ptReporter'[n].buffered /\ ptReporter'[n].msg = ptReporter[n].msg
            /\ ptReporter'[n].visited = ptReporter[n].visited \cup {v}
            /\ ptClient'[v].queue = Append(ptClient[v].queue, ptReporter[n].msg)
            /\ ptClient'[v].last = ptClient[v].last
        BY <2>2, <2>3, <2>4, <2>5, <3>1 DEF Flushing
      <4> QED BY <1>1, <1>3, <2>4, <2>5, <2>8, <3>1, <4>1, FlushSends
    <3>2. CASE ~Flushing(n)
      <4>1. ptReporter[n].msg = <<>> /\ \A m \in Reporters : ReporterOK(m)
        BY <2>8, <3>2 DEF MessagesOrdered, ReporterOK
      <4>2. \A x \in Watchers :
               /\ ptClient'[x].last = ptClient[x].last
               /\ ptClient'[x].queue = ptClient[x].queue \/ ptClient'[x].queue = Append(ptClient[x].queue, <<>>)
        BY <2>2, <2>4, <4>1
      <4>3. \A m \in Reporters :
               /\ ptReporter'[m].at = ptReporter[m].at /\ ptReporter'[m].msg = ptReporter[m].msg
               /\ ptReporter'[m].buffered = ptReporter[m].buffered
               /\ ptReporter[m].visited \subseteq ptReporter'[m].visited
               /\ ptReporter[m].at = "idle" => ptReporter'[m] = ptReporter[m]
        BY <1>3, <2>3, <2>5
      <4>4. \A m \in Reporters :
               /\ ptReporter'[m].at = "idle" => ptReporter'[m] = IdleReporter
               /\ ~Flushing(m) => ~Flushing(m)' /\ ptReporter'[m].msg = <<>>
               /\ Flushing(m) => Flushing(m)'
        BY <4>1, <4>3 DEF ReporterOK, Flushing
      <4> QED BY <1>1, <1>3, <2>8, <4>2, <4>3, <4>4, OrderStays
    <3> QED BY <3>1, <3>2
  <2>9. ProcessSurvives'
    BY <1>1, <1>3, <1>4 DEF ProcessSurvives
  <2> QED BY <1>1, <1>3, <2>6, <2>7, <2>8, <2>9 DEF PtIInv
<1>5. CASE /\ ptReporter' = [ptReporter EXCEPT ![n].at = "full", ![n].visited = @ \cup {v}, ![n].slow = v]
           /\ UNCHANGED <<ptClient, ptProcess>>
  <2> DEFINE r == [ptReporter[n] EXCEPT !.at = "full", !.visited = @ \cup {v}, !.slow = v]
  <2>1. /\ r \in ReporterType /\ r.at = "full" /\ r.visited = ptReporter[n].visited \cup {v} /\ r.slow = v
        /\ r.msg = ptReporter[n].msg /\ r.buffered = ptReporter[n].buffered
        /\ ptReporter' = [ptReporter EXCEPT ![n] = r]
    <3>1. ptReporter' = [ptReporter EXCEPT ![n] = r]
      BY <1>5
    <3>2. ptReporter[n].visited \cup {v} \in SUBSET Watchers
      BY <1>1 DEF ReporterType
    <3> QED BY <1>1, <3>1, <3>2 DEF ReporterType
  <2> HIDE DEF r
  <2>2. /\ ptReporter' \in [Reporters -> ReporterType] /\ ptReporter'[n] = r
        /\ \A m \in Reporters \ {n} : ptReporter'[m] = ptReporter[m]
    BY <1>1, <2>1, ReporterSet
  <2>3. PtTypes'
    BY <1>1, <1>3, <1>5, <2>2 DEF PtTypes
  <2>4. \A m \in Reporters : ptReporter'[m].at = "full" =>
           \/ ptReporter[m].at = "full" /\ ptReporter'[m].slow = ptReporter[m].slow
           \/ ptReporter'[m].slow \in ptClients
    BY <1>2, <2>1, <2>2
  <2>5. HubKeeps'
    BY <1>1, <1>3, <1>5, <2>4, HubStays
  <2>6. ASSUME MessagesOrdered PROVE MessagesOrdered'
    <3>1. \A m \in Reporters : ReporterOK(m)
      BY <2>6 DEF MessagesOrdered
    <3>2. \A m \in Reporters :
             /\ ptReporter'[m].at = "idle" <=> ptReporter[m].at = "idle"
             /\ ptReporter'[m].msg = ptReporter[m].msg
             /\ ptReporter'[m].buffered = ptReporter[m].buffered
             /\ ptReporter[m].visited \subseteq ptReporter'[m].visited
             /\ ptReporter[m].at = "idle" => ptReporter'[m] = ptReporter[m]
      BY <1>3, <2>1, <2>2
    <3>3. \A m \in Reporters :
             /\ ptReporter'[m].at = "idle" => ptReporter'[m] = IdleReporter
             /\ ~Flushing(m) => ~Flushing(m)' /\ ptReporter'[m].msg = <<>>
             /\ Flushing(m) => Flushing(m)'
      BY <3>1, <3>2 DEF ReporterOK, Flushing
    <3> QED BY <1>1, <1>3, <1>5, <2>6, <3>2, <3>3, OrderStays
  <2>7. ProcessSurvives'
    BY <1>1, <1>3, <1>5 DEF ProcessSurvives
  <2> QED BY <1>1, <1>3, <2>3, <2>5, <2>6, <2>7 DEF PtIInv
<1> QED BY <1>2, <1>4, <1>5 DEF Visit

\* A broadcast is over, and what it has flushed is no longer buffered.
LEMMA BroadcastEnds ==
    ASSUME PtIInv, NEW n \in Reporters, EndBroadcast(n)
    PROVE  PtIInv'
<1>1. PtTypes /\ TrackerUp /\ (~ptRaced => MessagesOrdered)
  BY DEF PtIInv, EndBroadcast
<1>2. IdleReporter \in ReporterType /\ IdleReporter.at = "idle" /\ IdleReporter.msg = <<>>
  <2>1. <<>> \in Seq(Nat)
    OBVIOUS
  <2> QED BY <2>1 DEF IdleReporter, ReporterType
<1>3. /\ ptReporter'[n] = IdleReporter /\ \A m \in Reporters \ {n} : ptReporter'[m] = ptReporter[m]
      /\ ptReporter' = [ptReporter EXCEPT ![n] = IdleReporter]
  BY <1>1, <1>2, ReporterSet DEF EndBroadcast
<1>4. ptBuffer' \in Seq(Nat) /\ ptCount' \in [plain : Nat, buffered : Nat]
  BY <1>1 DEF PtTypes, EndBroadcast
<1>5. ASSUME MessagesOrdered PROVE MessagesOrdered'
  <2>1. CASE Flushing(n)
    <3>1. ptBuffer' = <<>> /\ UNCHANGED <<ptClient, ptCount>>
      BY <2>1 DEF EndBroadcast, Flushing
    <3> QED BY <1>1, <1>3, <1>5, <2>1, <3>1, FlushEnds
  <2>2. CASE ~Flushing(n)
    <3>1. ~ptReporter[n].buffered /\ UNCHANGED <<ptClient, ptCount>> /\ ptBuffer' = ptBuffer
      BY <2>2 DEF EndBroadcast, Flushing
    <3>2. \A m \in Reporters : ReporterOK(m) /\ (Flushing(m)' <=> Flushing(m)) /\ (m = n => ~Flushing(m))
      BY <1>2, <1>3, <1>5, <2>2 DEF MessagesOrdered, Flushing
    <3>3. \A m \in Reporters :
             /\ ptReporter'[m].at = "idle" => ptReporter'[m] = IdleReporter
             /\ ~Flushing(m) => ~Flushing(m)' /\ ptReporter'[m].msg = <<>>
             /\ Flushing(m) => /\ Flushing(m)' /\ ptReporter'[m].msg = ptReporter[m].msg
                               /\ ptReporter[m].visited \subseteq ptReporter'[m].visited
      BY <1>2, <1>3, <3>2 DEF ReporterOK
    <3> QED BY <1>1, <1>5, <3>1, <3>3, OrderStays
  <2> QED BY <2>1, <2>2
<1> QED BY <1>1, <1>2, <1>3, <1>4, <1>5, ReporterActs DEF EndBroadcast

\* What HubKeeps says when only connections, clients and the loop's work change.
LEMMA HubTurns ==
    ASSUME HubKeeps, UNCHANGED ptReporter, \A v \in Watchers : ClientOK(v)',
           ptRun' # IdleRun => ptRun'.does # "nothing" /\ ptRun'.for \in Watchers,
           \A v \in Watchers : ptClient[v].handler # "away" =>
              ptClient'[v].handler # "away" /\ ptRun' # [does |-> "adding", for |-> v]
    PROVE  HubKeeps'
BY DEF HubKeeps

\* A full channel is closed by its broadcast; a second one at it has made a race.
LEMMA SlowClosed ==
    ASSUME PtIInv, NEW n \in Reporters, CloseSlow(n)
    PROVE  PtIInv'
<1>1. PtTypes /\ HubKeeps /\ TrackerUp /\ (~ptRaced => MessagesOrdered) /\ ProcessSurvives
      /\ ptReporter[n] \in ReporterType
  BY DEF PtIInv, CloseSlow, PtTypes
<1> DEFINE v == ptReporter[n].slow
<1>2. v \in Watchers /\ ptClient[v].handler # "away" /\ ptRun # [does |-> "adding", for |-> v]
      /\ ptReporter[n].at = "full" /\ UNCHANGED <<ptRun, ptBuffer, ptCount>>
  BY <1>1 DEF HubKeeps, CloseSlow
<1>3. ptClient[v] \in ClientType
  BY <1>1, <1>2 DEF PtTypes
<1> HIDE DEF v
<1>4. CASE Panics(n) /\ ptRaced' = TRUE /\ UNCHANGED <<ptClient, ptClients>>
  <2>1. IdleReporter \in ReporterType /\ IdleReporter.at = "idle"
    <3>1. <<>> \in Seq(Nat)
      OBVIOUS
    <3> QED BY <3>1 DEF IdleReporter, ReporterType
  <2>2. /\ ptReporter' \in [Reporters -> ReporterType] /\ ptReporter'[n] = IdleReporter
        /\ \A m \in Reporters \ {n} : ptReporter'[m] = ptReporter[m]
    BY <1>1, <1>4, <2>1, ReporterSet DEF Panics
  <2>3. PtTypes'
    BY <1>1, <1>2, <1>4, <2>2 DEF PtTypes
  <2>4. HubKeeps'
    BY <1>1, <1>2, <1>4, <2>1, <2>2, HubStays
  <2> QED BY <1>4, <2>3, <2>4 DEF PtIInv, ProcessSurvives
<1>5. CASE /\ ptClient' = [ptClient EXCEPT ![v].chan = "closed"]
           /\ ClosesFull(v, Broadcasting # {n})
           /\ ptReporter' = [ptReporter EXCEPT ![n].at = "next"]
  <2> DEFINE k == [ptClient[v] EXCEPT !.chan = "closed"]
             r == [ptReporter[n] EXCEPT !.at = "next"]
  <2>1. /\ k \in ClientType /\ k.handler = ptClient[v].handler
        /\ k.reader = ptClient[v].reader /\ k.last = ptClient[v].last
        /\ k.queue = ptClient[v].queue /\ ptClient' = [ptClient EXCEPT ![v] = k]
    BY <1>3, <1>5 DEF ClientType
  <2>2. /\ r \in ReporterType /\ r.at = "next" /\ r.visited = ptReporter[n].visited
        /\ r.msg = ptReporter[n].msg /\ r.buffered = ptReporter[n].buffered
        /\ ptReporter' = [ptReporter EXCEPT ![n] = r]
    BY <1>1, <1>5 DEF ReporterType
  <2> HIDE DEF k, r
  <2>3. /\ ptClient' \in [Watchers -> ClientType] /\ ptClient'[v] = k
        /\ \A x \in Watchers \ {v} : ptClient'[x] = ptClient[x]
    BY <1>1, <1>2, <2>1, ClientSet
  <2>4. /\ ptReporter' \in [Reporters -> ReporterType] /\ ptReporter'[n] = r
        /\ \A m \in Reporters \ {n} : ptReporter'[m] = ptReporter[m]
    BY <1>1, <2>2, ReporterSet
  <2>5. ptClients' = ptClients \ {v} /\ (ptRaced => ptRaced')
        /\ (ptProcess' = ptProcess \/ ptRaced')
    BY <1>5 DEF ClosesFull
  <2>6. PtTypes'
    BY <1>1, <1>2, <2>3, <2>4, <2>5 DEF PtTypes
  <2>7. HubKeeps'
    BY <1>1, <1>2, <2>1, <2>2, <2>3, <2>4, <2>5, HubStays
  <2>8. ASSUME MessagesOrdered PROVE MessagesOrdered'
    <3>1. \A m \in Reporters : ReporterOK(m)
      BY <2>8 DEF MessagesOrdered
    <3>2. \A m \in Reporters :
             /\ ptReporter'[m].at = "idle" <=> ptReporter[m].at = "idle"
             /\ ptReporter'[m].msg = ptReporter[m].msg
             /\ ptReporter'[m].buffered = ptReporter[m].buffered
             /\ ptReporter[m].visited \subseteq ptReporter'[m].visited
             /\ ptReporter[m].at = "idle" => ptReporter'[m] = ptReporter[m]
      BY <1>2, <2>2, <2>4
    <3>3. \A m \in Reporters :
             /\ ptReporter'[m].at = "idle" => ptReporter'[m] = IdleReporter
             /\ ~Flushing(m) => ~Flushing(m)' /\ ptReporter'[m].msg = <<>>
             /\ Flushing(m) => Flushing(m)'
      BY <3>1, <3>2 DEF ReporterOK, Flushing
    <3>4. \A x \in Watchers : ptClient'[x].last = ptClient[x].last /\ ptClient'[x].queue = ptClient[x].queue
      BY <2>1, <2>3
    <3> QED BY <1>1, <1>2, <2>8, <3>2, <3>3, <3>4, OrderStays
  <2>9. ProcessSurvives'
    BY <1>1, <2>5 DEF ProcessSurvives
  <2> QED BY <1>1, <2>5, <2>6, <2>7, <2>8, <2>9 DEF PtIInv
<1> QED BY <1>4, <1>5 DEF CloseSlow, v

\* The messages after a step of the hub or of a connection that leaves every channel's content alone.
LEMMA MessagesRest ==
    ASSUME PtTypes, MessagesOrdered, UNCHANGED <<ptReporter, ptBuffer, ptCount>>,
           \A v \in Watchers : ptClient'[v].last = ptClient[v].last /\ ptClient'[v].queue = ptClient[v].queue
    PROVE  MessagesOrdered'
<1>1. \A n \in Reporters : ReporterOK(n) /\ (Flushing(n)' <=> Flushing(n))
  BY DEF MessagesOrdered, Flushing
<1>2. \A n \in Reporters :
         /\ ptReporter'[n].at = "idle" => ptReporter'[n] = IdleReporter
         /\ ~Flushing(n) => ~Flushing(n)' /\ ptReporter'[n].msg = <<>>
         /\ Flushing(n) => /\ Flushing(n)' /\ ptReporter'[n].msg = ptReporter[n].msg
                           /\ ptReporter[n].visited \subseteq ptReporter'[n].visited
  BY <1>1 DEF ReporterOK
<1> QED BY <1>2, OrderStays

\* The welcome finds the channel full, and closes it as a broadcast does.
LEMMA WelcomeFull ==
    ASSUME PtIInv, NEW v \in Watchers, WelcomeCloses(v)
    PROVE  PtIInv'
<1>1. PtTypes /\ HubKeeps /\ TrackerUp /\ (~ptRaced => MessagesOrdered) /\ ProcessSurvives
      /\ ptClient[v] \in ClientType
  BY DEF PtIInv, WelcomeCloses, PtTypes
<1>2. ptClient[v].handler = "full" /\ ptRun # [does |-> "adding", for |-> v]
      /\ UNCHANGED <<ptRun, ptReporter, ptBuffer, ptCount>>
  BY <1>1 DEF HubKeeps, ClientOK, WelcomeCloses
<1> DEFINE k == [ptClient[v] EXCEPT !.handler = "done", !.chan = "closed"]
<1>3. /\ k \in ClientType /\ k.handler = "done" /\ k.reader = ptClient[v].reader /\ k.last = ptClient[v].last
      /\ k.queue = ptClient[v].queue /\ ptClient' = [ptClient EXCEPT ![v] = k]
  BY <1>1 DEF ClientType, WelcomeCloses
<1> HIDE DEF k
<1>4. /\ ptClient' \in [Watchers -> ClientType] /\ ptClient'[v] = k
      /\ \A x \in Watchers \ {v} : ptClient'[x] = ptClient[x]
  BY <1>1, <1>3, ClientSet
<1>5. /\ v \notin ptClients' /\ ptClients' \subseteq ptClients /\ (ptRaced => ptRaced')
      /\ (ptProcess' = ptProcess \/ ptRaced')
  <2>1. CASE ptClient[v].chan = "closed"
    BY <1>1, <2>1 DEF HubKeeps, ClientOK, WelcomeCloses
  <2>2. CASE ptClient[v].chan # "closed"
    BY <2>2 DEF WelcomeCloses, ClosesFull
  <2> QED BY <2>1, <2>2
<1>6. PtTypes'
  BY <1>1, <1>2, <1>4, <1>5 DEF PtTypes
<1>7. HubKeeps'
  BY <1>1, <1>2, <1>3, <1>4, <1>5, HubStays
<1>8. ASSUME MessagesOrdered PROVE MessagesOrdered'
  <2>1. \A x \in Watchers : ptClient'[x].last = ptClient[x].last /\ ptClient'[x].queue = ptClient[x].queue
    BY <1>3, <1>4
  <2> QED BY <1>1, <1>2, <1>8, <2>1, MessagesRest
<1>9. ProcessSurvives'
  BY <1>1, <1>5 DEF ProcessSurvives
<1> QED BY <1>1, <1>5, <1>6, <1>7, <1>8, <1>9 DEF PtIInv

\* A connection is made, and handed to the loop; or refused by a panic of its own.
LEMMA Connected ==
    ASSUME PtIInv, NEW v \in Watchers, HandleWebSocket(v)
    PROVE  PtIInv'
<1>1. PtTypes /\ HubKeeps /\ TrackerUp /\ (~ptRaced => MessagesOrdered) /\ ProcessSurvives
      /\ ptClient[v] \in ClientType
  BY DEF PtIInv, HandleWebSocket, PtTypes
<1>2. ClientOK(v) /\ ptClient[v] = NewClient /\ ptClient[v].handler = "away"
      /\ UNCHANGED <<ptClients, ptReporter, ptBuffer, ptCount, ptProcess, ptRaced>>
  BY <1>1 DEF HubKeeps, ClientOK, HandleWebSocket
<1>3. v \notin ptClients
  BY <1>2 DEF ClientOK
<1>4. ASSUME NEW k \in ClientType, k.last = ptClient[v].last, k.queue = ptClient[v].queue, k.chan = "open",
             k.reader # "gone", k.handler \in {"starting", "done"}, ptClient' = [ptClient EXCEPT ![v] = k],
             \/ UNCHANGED ptRun
             \/ ptRun = IdleRun /\ ptRun' = [does |-> "adding", for |-> v]
      PROVE  PtIInv'
  <2>1. /\ ptClient' \in [Watchers -> ClientType] /\ ptClient'[v] = k
        /\ \A x \in Watchers \ {v} : ptClient'[x] = ptClient[x]
    BY <1>1, <1>4, ClientSet
  <2>2. k.queue = <<>>
    BY <1>2, <1>4 DEF NewClient
  <2>3. PtTypes'
    BY <1>1, <1>2, <1>4, <2>1 DEF PtTypes
  <2>4. ptRun # [does |-> "adding", for |-> v] /\ ptRun # [does |-> "removing", for |-> v]
    BY <1>2 DEF ClientOK
  <2>5. ASSUME NEW x \in Watchers PROVE ClientOK(x)'
    <3>1. CASE x = v
      BY <1>2, <1>3, <1>4, <2>1, <2>2, <3>1 DEF ClientOK
    <3>2. CASE x # v
      <4>1. ClientOK(x) /\ ptClient'[x] = ptClient[x]
        BY <1>1, <2>1, <3>2 DEF HubKeeps
      <4>2. CASE UNCHANGED ptRun
        BY <1>2, <4>1, <4>2 DEF ClientOK
      <4>3. CASE ptRun = IdleRun /\ ptRun' = [does |-> "adding", for |-> v]
        BY <1>2, <3>2, <4>1, <4>3 DEF ClientOK, IdleRun
      <4> QED BY <1>4, <4>2, <4>3
    <3> QED BY <3>1, <3>2
  <2>6. ptRun' # IdleRun => ptRun'.does # "nothing" /\ ptRun'.for \in Watchers
    BY <1>1, <1>4 DEF HubKeeps
  <2>7. ASSUME NEW x \in Watchers, ptClient[x].handler # "away"
        PROVE  ptClient'[x].handler # "away" /\ (ptRun' # [does |-> "adding", for |-> x] \/ ptRun' = ptRun)
    BY <1>2, <1>4, <2>1, <2>7
  <2>8. \A n \in Reporters : ptReporter[n].at = "full" =>
           /\ ptReporter[n].slow \in Watchers /\ ptClient[ptReporter[n].slow].handler # "away"
           /\ ptRun # [does |-> "adding", for |-> ptReporter[n].slow]
    BY <1>1 DEF HubKeeps
  <2>9. HubKeeps'
    BY <1>2, <2>5, <2>6, <2>7, <2>8 DEF HubKeeps
  <2>10. ~ptRaced => MessagesOrdered'
    BY <1>1, <1>2, <1>4, <2>1, MessagesRest
  <2> QED BY <1>1, <1>2, <2>3, <2>9, <2>10 DEF PtIInv, ProcessSurvives
<1>5. CASE ptProcess = "closing"
  <2> DEFINE k == [ptClient[v] EXCEPT !.handler = "done"]
  <2>1. /\ k \in ClientType /\ k.last = ptClient[v].last /\ k.queue = ptClient[v].queue
        /\ k.chan = ptClient[v].chan /\ k.reader = ptClient[v].reader /\ k.handler = "done"
        /\ ptClient' = [ptClient EXCEPT ![v] = k] /\ UNCHANGED ptRun
    BY <1>1, <1>5 DEF ClientType, HandleWebSocket
  <2>2. ptClient[v].chan = "open" /\ ptClient[v].reader = "none"
    BY <1>2 DEF NewClient
  <2> HIDE DEF k
  <2> QED BY <1>4, <2>1, <2>2
<1>6. CASE ptProcess # "closing"
  <2> DEFINE k == [ptClient[v] EXCEPT !.handler = "starting", !.writer = "on", !.reader = "on"]
  <2>1. /\ k \in ClientType /\ k.last = ptClient[v].last /\ k.queue = ptClient[v].queue
        /\ k.chan = ptClient[v].chan /\ k.reader = "on" /\ k.handler = "starting"
    BY <1>1, <1>6 DEF ClientType
  <2>2. /\ ptClient' = [ptClient EXCEPT ![v] = k]
        /\ ptRun = IdleRun /\ ptRun' = [does |-> "adding", for |-> v]
    BY <1>6 DEF HandleWebSocket
  <2>3. ptClient[v].chan = "open"
    BY <1>2 DEF NewClient
  <2> HIDE DEF k
  <2> QED BY <1>4, <2>1, <2>2, <2>3
<1> QED BY <1>5, <1>6

\* The hub's loop does what it had taken up, and takes up a client that has left.
LEMMA LoopTurns ==
    ASSUME PtIInv, RunAdds \/ RunRemoves \/ \E v \in Watchers : RunTakesLeaver(v)
    PROVE  PtIInv'
<1>1. PtTypes /\ HubKeeps /\ (~ptRaced => MessagesOrdered) /\ ProcessSurvives
      /\ \A v \in Watchers : ClientOK(v) /\ ptClient[v] \in ClientType
  <2>1. TrackerUp
    BY DEF RunAdds, RunRemoves, RunTakesLeaver, TrackerUp
  <2> QED BY <2>1 DEF PtIInv, HubKeeps, PtTypes
<1>2. IdleRun \in [does : {"nothing", "adding", "removing"}, for : Watchers \cup {Nobody}]
      /\ IdleRun.does = "nothing" /\ \A v \in Watchers : /\ IdleRun # [does |-> "adding", for |-> v]
                                                       /\ IdleRun # [does |-> "removing", for |-> v]
  BY DEF IdleRun
<1>3. CASE RunAdds
  <2> DEFINE f == ptRun.for
  <2>1. ptRun.does = "adding" /\ ptClients' = ptClients \cup {f} /\ ptRun' = IdleRun
        /\ UNCHANGED <<ptClient, ptReporter, ptBuffer, ptCount, ptProcess, ptRaced>>
    BY <1>3 DEF RunAdds
  <2>2. f \in Watchers /\ ptRun = [does |-> "adding", for |-> f]
    BY <1>1, <1>2, <2>1 DEF HubKeeps, PtTypes
  <2> HIDE DEF f
  <2>3. PtTypes'
    BY <1>1, <1>2, <2>1, <2>2 DEF PtTypes
  <2>4. ASSUME NEW x \in Watchers PROVE ClientOK(x)'
    <3>1. ClientOK(x) /\ ClientOK(f)
      BY <1>1, <2>2
    <3>2. CASE x = f
      BY <1>2, <2>1, <2>2, <3>1, <3>2 DEF ClientOK
    <3>3. CASE x # f
      BY <1>2, <2>1, <2>2, <3>1, <3>3 DEF ClientOK
    <3> QED BY <3>2, <3>3
  <2>5. HubKeeps'
    BY <1>1, <1>2, <2>1, <2>4, HubTurns
  <2>6. ~ptRaced => MessagesOrdered'
    BY <1>1, <2>1, MessagesRest
  <2> QED BY <1>1, <2>1, <2>3, <2>5, <2>6 DEF PtIInv, ProcessSurvives
<1>4. CASE RunRemoves
  <2> DEFINE f == ptRun.for  k == [ptClient[f] EXCEPT !.chan = "closed"]
  <2>1. ptRun.does = "removing" /\ ptRun' = IdleRun /\ UNCHANGED <<ptReporter, ptBuffer, ptCount, ptRaced>>
    BY <1>4 DEF RunRemoves
  <2>2. f \in Watchers /\ ptRun = [does |-> "removing", for |-> f]
    BY <1>1, <1>2, <2>1 DEF HubKeeps, PtTypes
  <2>3. ptClient[f] \in ClientType /\ ClientOK(f)
    BY <1>1, <2>2
  <2>4. /\ k \in ClientType /\ k.handler = ptClient[f].handler /\ k.last = ptClient[f].last
        /\ k.queue = ptClient[f].queue
    BY <2>3 DEF ClientType
  <2>5. CASE f \in ptClients
    <3>1. /\ ptClients' = ptClients \ {f} /\ ptClient' = [ptClient EXCEPT ![f] = k]
          /\ ptProcess' = IF ptClient[f].chan = "closed" THEN "down" ELSE ptProcess
      BY <1>4, <2>5 DEF RunRemoves
    <3> HIDE DEF f, k
    <3>2. ptProcess' = ptProcess
      BY <2>3, <2>5, <3>1 DEF ClientOK
    <3>3. /\ ptClient' \in [Watchers -> ClientType] /\ ptClient'[f] = k
          /\ \A x \in Watchers \ {f} : ptClient'[x] = ptClient[x]
      BY <1>1, <2>2, <2>4, <3>1, ClientSet
    <3>4. PtTypes'
      BY <1>1, <1>2, <2>1, <3>1, <3>3 DEF PtTypes
    <3>5. ASSUME NEW x \in Watchers PROVE ClientOK(x)'
      <4>1. ClientOK(x)
        BY <1>1
      <4>2. CASE x = f
        BY <1>2, <2>1, <2>2, <2>3, <2>4, <3>1, <3>3, <4>2 DEF ClientOK
      <4>3. CASE x # f
        BY <1>2, <2>1, <2>2, <3>1, <3>3, <4>1, <4>3 DEF ClientOK
      <4> QED BY <4>2, <4>3
    <3>6. \A x \in Watchers : ptClient'[x].handler = ptClient[x].handler /\ ptClient'[x].last = ptClient[x].last
                              /\ ptClient'[x].queue = ptClient[x].queue
      BY <2>4, <3>3
    <3>7. HubKeeps'
      BY <1>1, <1>2, <2>1, <3>5, <3>6, HubTurns
    <3>8. ~ptRaced => MessagesOrdered'
      BY <1>1, <2>1, <3>6, MessagesRest
    <3> QED BY <1>1, <2>1, <3>2, <3>4, <3>7, <3>8 DEF PtIInv, ProcessSurvives
  <2>6. CASE f \notin ptClients
    <3>1. UNCHANGED <<ptClient, ptClients, ptProcess>>
      BY <1>4, <2>6 DEF RunRemoves
    <3> HIDE DEF f, k
    <3>2. PtTypes'
      BY <1>1, <1>2, <2>1, <3>1 DEF PtTypes
    <3>3. ASSUME NEW x \in Watchers PROVE ClientOK(x)'
      <4>1. ClientOK(x)
        BY <1>1
      <4>2. CASE x = f
        BY <1>2, <2>1, <2>2, <2>3, <2>6, <3>1, <4>2 DEF ClientOK
      <4>3. CASE x # f
        BY <1>2, <2>1, <2>2, <3>1, <4>1, <4>3 DEF ClientOK
      <4> QED BY <4>2, <4>3
    <3>4. HubKeeps'
      BY <1>1, <1>2, <2>1, <3>1, <3>3, HubTurns
    <3>5. ~ptRaced => MessagesOrdered'
      BY <1>1, <2>1, <3>1, MessagesRest
    <3> QED BY <1>1, <2>1, <3>1, <3>2, <3>4, <3>5 DEF PtIInv, ProcessSurvives
  <2> QED BY <2>5, <2>6
<1>5. ASSUME NEW v \in Watchers, RunTakesLeaver(v) PROVE PtIInv'
  <2> DEFINE k == [ptClient[v] EXCEPT !.reader = "gone"]
  <2>1. ptClient[v] \in ClientType /\ ClientOK(v) /\ ptClient[v].reader = "leaving" /\ ptRun = IdleRun
        /\ ptRun' = [does |-> "removing", for |-> v]
        /\ UNCHANGED <<ptClients, ptReporter, ptBuffer, ptCount, ptProcess, ptRaced>>
    BY <1>1, <1>5 DEF RunTakesLeaver
  <2>2. ptClient[v].handler # "away"
    BY <2>1 DEF ClientOK, NewClient
  <2>3. /\ k \in ClientType /\ k.handler = ptClient[v].handler /\ k.last = ptClient[v].last
        /\ k.queue = ptClient[v].queue /\ k.chan = ptClient[v].chan /\ ptClient' = [ptClient EXCEPT ![v] = k]
    BY <1>5, <2>1 DEF ClientType, RunTakesLeaver
  <2> HIDE DEF k
  <2>4. /\ ptClient' \in [Watchers -> ClientType] /\ ptClient'[v] = k
        /\ \A x \in Watchers \ {v} : ptClient'[x] = ptClient[x]
    BY <1>1, <2>3, ClientSet
  <2>5. PtTypes'
    BY <1>1, <2>1, <2>4 DEF PtTypes
  <2>6. ptRun'.does = "removing" /\ ptRun'.for = v /\ \A x \in Watchers : ptRun' # [does |-> "adding", for |-> x]
    BY <2>1
  <2>7. ASSUME NEW x \in Watchers PROVE ClientOK(x)'
    <3>1. ClientOK(x)
      BY <1>1
    <3>2. CASE x = v
      BY <2>1, <2>2, <2>3, <2>4, <2>6, <3>2 DEF ClientOK
    <3>3. CASE x # v
      BY <1>2, <2>1, <2>4, <2>6, <3>1, <3>3 DEF ClientOK
    <3> QED BY <3>2, <3>3
  <2>8. \A x \in Watchers : ptClient'[x].handler = ptClient[x].handler /\ ptClient'[x].last = ptClient[x].last
                            /\ ptClient'[x].queue = ptClient[x].queue
    BY <2>3, <2>4
  <2>9. HubKeeps'
    BY <1>1, <2>1, <2>6, <2>7, <2>8, HubTurns
  <2>10. ~ptRaced => MessagesOrdered'
    BY <1>1, <2>1, <2>8, MessagesRest
  <2> QED BY <1>1, <2>1, <2>5, <2>9, <2>10 DEF PtIInv, ProcessSurvives
<1> QED BY <1>3, <1>4, <1>5

\* The tracker's invariant after its end, and after a step of others.
LEMMA TrackerRests ==
    ASSUME PtIInv, CloseTracker \/ UNCHANGED ptVars
    PROVE  PtIInv'
<1>1. UNCHANGED <<ptClient, ptClients, ptRun, ptReporter, ptBuffer, ptCount, ptRaced>>
      /\ (TrackerUp' => TrackerUp) /\ (ptProcess' = "down" => ptProcess = "down")
  BY DEF CloseTracker, ptVars, TrackerUp
<1>2. PtTypes'
  BY <1>1 DEF PtIInv, PtTypes
<1>3. HubKeeps => HubKeeps'
  BY <1>1 DEF HubKeeps, ClientOK
<1>4. ~ptRaced => MessagesOrdered'
  BY <1>1, MessagesRest DEF PtIInv
<1> QED BY <1>1, <1>2, <1>3, <1>4 DEF PtIInv, ProcessSurvives

\* Every step of the tracker keeps its invariant.
LEMMA TrackerStep == ASSUME FileAssumption, PtIInv, [PtNext]_ptVars PROVE PtIInv'
BY Welcomed, PumpsRun, Reported, Buffered, TimerFlushes, Visited, BroadcastEnds, SlowClosed, WelcomeFull, Connected,
   LoopTurns, TrackerRests DEF PtNext

\* The tracker starts in its invariant.
LEMMA TrackerStart == ASSUME PtInit PROVE PtIInv
<1>1. <<>> \in Seq(Nat) /\ <<>> \in Seq(Seq(Nat)) /\ DOMAIN <<>> = {} /\ 0 \in Nat
  OBVIOUS
<1>2. NewClient \in ClientType /\ NewClient.queue = <<>> /\ NewClient.last = 0 /\ NewClient.handler = "away"
  BY <1>1 DEF NewClient, ClientType
<1>3. IdleReporter \in ReporterType /\ IdleReporter.at = "idle" /\ IdleReporter.msg = <<>>
  BY <1>1 DEF IdleReporter, ReporterType
<1>4. IdleRun \in [does : {"nothing", "adding", "removing"}, for : Watchers \cup {Nobody}] /\ IdleRun.does = "nothing"
  BY DEF IdleRun
<1>5. /\ \A v \in Watchers : ptClient[v] = NewClient
      /\ \A n \in Reporters : ptReporter[n] = IdleReporter
      /\ ptCount \in [plain : Nat, buffered : Nat] /\ ptCount.buffered = 0
      /\ ptBuffer = <<>> /\ ptClients = {} /\ ptRun = IdleRun
  BY DEF PtInit
<1>6. PtTypes
  BY <1>1, <1>2, <1>3, <1>4, <1>5 DEF PtInit, PtTypes
<1>7. HubKeeps
  BY <1>2, <1>3, <1>4, <1>5 DEF HubKeeps, ClientOK
<1>8. MessagesOrdered
  <2>1. \A n \in Reporters : ReporterOK(n)
    BY <1>3, <1>5 DEF ReporterOK, Flushing
  <2>2. \A v \in Watchers : WatcherOK(v)
    BY <1>1, <1>2, <1>5 DEF WatcherOK, InOrder, Got
  <2>3. BufferOK
    BY <1>1, <1>5 DEF BufferOK, Increasing
  <2> QED BY <2>1, <2>2, <2>3 DEF MessagesOrdered
<1> QED BY <1>6, <1>7, <1>8 DEF PtIInv, PtInit, ProcessSurvives

\* The invariant says what the runs check of the tracker.
LEMMA TrackerIsSafe == ASSUME PtIInv PROVE TrackerSafety
<1>1. WatchersAreOpen
  BY DEF PtIInv, PtTypes, HubKeeps, ClientOK, WatchersAreOpen
<1>2. UpdatesInOrder
  BY DEF PtIInv, MessagesOrdered, WatcherOK, BufferOK, UpdatesInOrder
<1> QED BY <1>1, <1>2 DEF PtIInv, TrackerSafety

\* Until the tracker is closed, every client of the hub has an open channel, and one that has left is being
\* forgotten; buffered updates reach a client in their order and none twice; and the process survives: unless
\* two goroutines deal with one full channel.  For any number of connections, reporters and reports, and any
\* sizes of the channels and of the buffer.
THEOREM ProgressIsOrdered == PtSpec => []TrackerSafety
<1>1. PtInit => PtIInv
  BY TrackerStart
<1>2. PtIInv /\ [PtNext]_ptVars => PtIInv'
  BY TrackerStep, FileAssumption
<1>3. PtIInv => TrackerSafety
  BY TrackerIsSafe
<1> QED BY <1>1, <1>2, <1>3, PTL DEF PtSpec

\* A set of naturals that is not empty has a least element, and Min finds it.
LEMMA LeastIsThere ==
    ASSUME NEW I, I \subseteq Nat, I # {}
    PROVE  Min(I) \in I /\ \A j \in I : Min(I) <= j
<1>1. \E i \in I : \A j \in I : ~(<<j, i>> \in OpToRel(<, Nat))
  BY NatLessThanWellFounded, WFMin
<1>2. PICK i \in I : \A j \in I : ~(<<j, i>> \in OpToRel(<, Nat))
  BY <1>1
<1>3. \A j, k \in Nat : j < k => <<j, k>> \in OpToRel(<, Nat)
  BY Zenon DEF OpToRel
<1>4. \A j \in I : ~(j < i)
  BY <1>2, <1>3
<1>5. \A j \in I : i <= j
  BY <1>4
<1> QED BY <1>5 DEF Min

(***************************************************************************)
(* Versions compared.                                                      *)
(***************************************************************************)
Names == {v \in Seq(Nat) : Len(v) = 3}

\* A version is newer than another by the first of its three numbers that differs.
LEMMA FirstDifference ==
    ASSUME NEW v \in Names, NEW w \in Names
    PROVE  /\ \A i \in 1 .. 3 : v[i] \in Nat
           /\ IsNewerThan(v, w) <=> \/ v[1] > w[1]
                                    \/ v[1] = w[1] /\ v[2] > w[2]
                                    \/ v[1] = w[1] /\ v[2] = w[2] /\ v[3] > w[3]
           /\ v = w <=> v[1] = w[1] /\ v[2] = w[2] /\ v[3] = w[3]
<1>1. v \in Seq(Nat) /\ Len(v) = 3 /\ w \in Seq(Nat) /\ Len(w) = 3
  BY DEF Names
<1>2. \A i \in 1 .. 3 : v[i] \in Nat /\ w[i] \in Nat
  BY <1>1, ElementOfSeq, Zenon
<1>3. /\ 1 .. (1 - 1) = {} /\ 1 .. (2 - 1) = {1} /\ 1 .. (3 - 1) = {1, 2}
      /\ 1 .. 3 = {1, 2, 3}
  OBVIOUS
<1>4. IsNewerThan(v, w) <=> \/ v[1] > w[1]
                            \/ v[1] = w[1] /\ v[2] > w[2]
                            \/ v[1] = w[1] /\ v[2] = w[2] /\ v[3] > w[3]
  BY <1>3 DEF IsNewerThan
<1>5. ASSUME v[1] = w[1], v[2] = w[2], v[3] = w[3] PROVE v = w
  <2>1. \A i \in 1 .. 3 : v[i] = w[i]
    BY <1>3, <1>5
  <2> QED BY <1>1, <2>1, SeqEqual
<1> QED BY <1>2, <1>4, <1>5

\* Of versions there is an oldest one.
LEMMA OldestIsThere ==
    ASSUME NEW C, C \subseteq Names, C # {}
    PROVE  \E w \in C : \A u \in C : ~IsNewerThan(w, u)
<1>0. \A v \in Names : v[1] \in Nat /\ v[2] \in Nat /\ v[3] \in Nat
  BY FirstDifference
<1> DEFINE Firsts == {v[1] : v \in C}
           A == {v \in C : v[1] = Min(Firsts)}
           Seconds == {v[2] : v \in A}
           B == {v \in A : v[2] = Min(Seconds)}
           Thirds == {v[3] : v \in B}
<1>1. Min(Firsts) \in Firsts /\ \A v \in C : Min(Firsts) <= v[1]
  <2>1. Firsts \subseteq Nat /\ Firsts # {}
    BY <1>0
  <2> HIDE DEF Firsts
  <2>2. Min(Firsts) \in Firsts /\ \A j \in Firsts : Min(Firsts) <= j
    BY <2>1, LeastIsThere
  <2> QED BY <2>2 DEF Firsts
<1>2. Min(Seconds) \in Seconds /\ \A v \in A : Min(Seconds) <= v[2]
  <2>1. Seconds \subseteq Nat /\ Seconds # {}
    BY <1>0, <1>1
  <2> HIDE DEF Seconds
  <2>2. Min(Seconds) \in Seconds /\ \A j \in Seconds : Min(Seconds) <= j
    BY <2>1, LeastIsThere
  <2> QED BY <2>2 DEF Seconds
<1>3. Min(Thirds) \in Thirds /\ \A v \in B : Min(Thirds) <= v[3]
  <2>1. Thirds \subseteq Nat /\ Thirds # {}
    BY <1>0, <1>2
  <2> HIDE DEF Thirds
  <2>2. Min(Thirds) \in Thirds /\ \A j \in Thirds : Min(Thirds) <= j
    BY <2>1, LeastIsThere
  <2> QED BY <2>2 DEF Thirds
<1>4. PICK w \in B : w[3] = Min(Thirds)
  BY <1>3
<1>5. w \in C /\ w[1] = Min(Firsts) /\ w[2] = Min(Seconds)
  OBVIOUS
<1>6. ASSUME NEW u \in C PROVE ~IsNewerThan(w, u)
  <2>1. w \in Names /\ u \in Names
    BY <1>5
  <2>2. w[1] <= u[1]
    BY <1>1, <1>5
  <2>3. w[1] = u[1] => u \in A /\ w[2] <= u[2]
    BY <1>2, <1>5
  <2>4. w[1] = u[1] /\ w[2] = u[2] => w[3] <= u[3]
    BY <1>3, <1>4, <1>5
  <2> HIDE DEF Firsts, Seconds, Thirds, A, B
  <2> QED BY <1>0, <2>1, <2>2, <2>3, <2>4, FirstDifference
<1> QED BY <1>5, <1>6

\* The registry's versions are ordered as the code relies on.
LEMMA OrderOfVersions == VersionsAreOrdered
<1> SUFFICES ASSUME NEW v \in RegisteredVersions, NEW w \in RegisteredVersions
             PROVE  /\ v # w => (IsNewerThan(v, w) <=> ~IsNewerThan(w, v))
                    /\ LET next == GetSuccessorVersion(v, RegisteredVersions) IN
                       next # NoName => IsNewerThan(next, v) /\ ~(IsNewerThan(w, v) /\ IsNewerThan(next, w))
                    /\ IsCompatibleWith(v, w) <=> IsCompatibleWith(w, v)
                    /\ AnalyzeCompatibility(v, w) \subseteq GetBreakingChangesBetween(v, w, RegisteredVersions)
  BY Zenon DEF VersionsAreOrdered
<1>0. RegisteredVersions \subseteq Names
  BY VersionNamesAssumption DEF Names
<1>1. v # w => (IsNewerThan(v, w) <=> ~IsNewerThan(w, v))
  <2>1. v \in Names /\ w \in Names
    BY <1>0
  <2>2. v[1] \in Nat /\ v[2] \in Nat /\ v[3] \in Nat /\ w[1] \in Nat /\ w[2] \in Nat /\ w[3] \in Nat
    BY <2>1, FirstDifference
  <2>3. v = w <=> v[1] = w[1] /\ v[2] = w[2] /\ v[3] = w[3]
    BY <2>1, FirstDifference
  <2>4. /\ IsNewerThan(v, w) <=> v[1] > w[1] \/ (v[1] = w[1] /\ v[2] > w[2]) \/ (v[1] = w[1] /\ v[2] = w[2] /\ v[3] > w[3])
        /\ IsNewerThan(w, v) <=> w[1] > v[1] \/ (w[1] = v[1] /\ w[2] > v[2]) \/ (w[1] = v[1] /\ w[2] = v[2] /\ w[3] > v[3])
    BY <2>1, FirstDifference
  <2> QED BY <2>2, <2>3, <2>4
<1>2. ASSUME GetSuccessorVersion(v, RegisteredVersions) # NoName
      PROVE  /\ IsNewerThan(GetSuccessorVersion(v, RegisteredVersions), v)
             /\ ~(IsNewerThan(w, v) /\ IsNewerThan(GetSuccessorVersion(v, RegisteredVersions), w))
  <2> DEFINE candidates == {u \in RegisteredVersions : IsNewerThan(u, v)}
             oldest == CHOOSE u \in candidates : \A t \in candidates : ~IsNewerThan(u, t)
  <2>1. candidates # {} /\ GetSuccessorVersion(v, RegisteredVersions) = oldest
    BY <1>2 DEF GetSuccessorVersion
  <2>2. candidates \subseteq Names
    BY <1>0
  <2> HIDE DEF candidates
  <2>3. \E u \in candidates : \A t \in candidates : ~IsNewerThan(u, t)
    BY <2>1, <2>2, OldestIsThere
  <2>4. oldest \in candidates /\ \A t \in candidates : ~IsNewerThan(oldest, t)
    BY <2>3, Zenon
  <2> HIDE DEF oldest
  <2> QED BY <2>1, <2>4 DEF candidates
<1>3. IsCompatibleWith(v, w) <=> IsCompatibleWith(w, v)
  BY DEF IsCompatibleWith
<1>4. AnalyzeCompatibility(v, w) \subseteq GetBreakingChangesBetween(v, w, RegisteredVersions)
  <2>1. ~IsNewerThan(w, w)
    <3>1. w \in Names
      BY <1>0
    <3>2. w[1] \in Nat /\ w[2] \in Nat /\ w[3] \in Nat
      BY <3>1, FirstDifference
    <3>3. IsNewerThan(w, w) <=> w[1] > w[1] \/ (w[1] = w[1] /\ w[2] > w[2]) \/ (w[1] = w[1] /\ w[2] = w[2] /\ w[3] > w[3])
      BY <3>1, FirstDifference
    <3> QED BY <3>2, <3>3
  <2> QED BY <2>1 DEF AnalyzeCompatibility, GetBreakingChangesBetween
<1> QED BY <1>1, <1>2, <1>3, <1>4

(***************************************************************************)
(* Detecting the version of a request.                                     *)
(***************************************************************************)
Ways == Places \cup {"combined"}
OwnNames(r) == {NameAt[r][p] : p \in Places} \cup {DefaultName, NoName}

\* A path or a media type names two numbers at most, so never a registered version.
LEMMA OnlyWholeNames ==
    ASSUME NEW r \in VersionRequests, NEW p \in Places, NameBy(r, p) \in RegisteredVersions
    PROVE  NameBy(r, p) = NameAt[r][p]
<1>1. CASE p \in {"header", "query"}
  BY <1>1 DEF NameBy
<1>2. CASE p \notin {"header", "query"}
  <2> DEFINE name == NameAt[r][p]
             k == Min({2, Len(name)})
  <2>1. name \in Seq(Nat) /\ Len(name) \in Nat
    BY VersionNamesAssumption
  <2>2. {2, Len(name)} \subseteq Nat /\ {2, Len(name)} # {}
    BY <2>1
  <2>3. k \in Nat /\ k <= 2 /\ k <= Len(name)
    BY <2>2, LeastIsThere
  <2>4. NameBy(r, p) = SubSeq(name, 1, k)
    BY <1>2 DEF NameBy, DetectFromPath
  <2> HIDE DEF k, name
  <2>5. Len(SubSeq(name, 1, k)) = k
    BY <2>1, <2>3
  <2>6. k # 3
    BY <2>3
  <2> QED BY <2>4, <2>5, <2>6, VersionNamesAssumption
<1> QED BY <1>1, <1>2

\* Both walks swap in strategies that exist.
LEMMA PlacesWalked ==
    /\ Len(CombinedOrder) = 5 /\ \A i \in 1 .. 5 : CombinedOrder[i] \in Places /\ CombinedOrder[i] \in Ways
    /\ Len(FallbackStrategies) = 2 /\ \A i \in 1 .. 2 : FallbackStrategies[i] \in Ways
BY DEF CombinedOrder, FallbackStrategies, Places, Ways

\* What a combined detection finds, if registered, the request named itself.
LEMMA CombinedIsOwn ==
    ASSUME NEW r \in VersionRequests, DetectCombined(r) \in RegisteredVersions
    PROVE  DetectCombined(r) \in OwnNames(r)
<1> DEFINE named == {i \in 1 .. Len(CombinedOrder) : NameBy(r, CombinedOrder[i]) # NoName}
           k == Min(named)
<1>1. Len(CombinedOrder) = 5 /\ \A i \in 1 .. 5 : CombinedOrder[i] \in Places
  BY PlacesWalked
<1>2. CASE named = {}
  BY <1>2 DEF DetectCombined, OwnNames
<1>3. CASE named # {}
  <2>1. k \in 1 .. 5
    BY <1>1, <1>3, LeastIsThere
  <2>2. DetectCombined(r) = NameBy(r, CombinedOrder[k])
    BY <1>3 DEF DetectCombined
  <2> HIDE DEF k
  <2> QED BY <1>1, <2>1, <2>2, OnlyWholeNames DEF OwnNames
<1> QED BY <1>2, <1>3

\* Whatever strategy it meets, a request is found a name of its own, the default or none.
LEMMA DetectedIsOwn ==
    ASSUME NEW r \in VersionRequests, NEW s \in Ways
    PROVE  DetectVersion(r, s) \in OwnNames(r)
<1>1. CASE s = "combined"
  BY <1>1, CombinedIsOwn DEF DetectVersion, OwnNames
<1>2. CASE s \in Places /\ s # "combined"
  <2>1. NameBy(r, s) \in RegisteredVersions => NameBy(r, s) \in OwnNames(r)
    BY <1>2, OnlyWholeNames DEF OwnNames
  <2> QED BY <1>2, <2>1 DEF DetectVersion, OwnNames
<1> QED BY <1>1, <1>2 DEF Ways

Unnamed(r, i) == NameAt[r][FallbackStrategies[i]] \notin RegisteredVersions

\* A strategy of the fallback that finds nothing was given no registered name.
LEMMA NothingFound ==
    ASSUME NEW r \in VersionRequests, NEW i \in 1 .. 2, DetectVersion(r, FallbackStrategies[i]) = NoName
    PROVE  Unnamed(r, i)
<1>1. FallbackStrategies[i] \in {"header", "query"}
  BY DEF FallbackStrategies
<1>2. NoName \notin RegisteredVersions
  <2> SUFFICES ASSUME NoName \in RegisteredVersions PROVE FALSE
    OBVIOUS
  <2>1. Len(NoName) = 3
    BY VersionNamesAssumption
  <2>2. Len(NoName) = 0
    BY DEF NoName
  <2> QED BY <2>1, <2>2
<1> QED BY <1>1, <1>2 DEF DetectVersion, NameBy, Unnamed

SwapPlaces == {"swap", "read", "restore"}
Bodies == {Payload} \cup {TransformRequest(Payload, rules, "/users/") : rules \in TransformRules}
DetectionRecord(r) ==
    [at : {"idle", "save", "swap", "read", "restore", "found", "done"}, walk : {"none", "combined", "fallback"},
     saved : Ways \cup {"none"}, turn : 0 .. 5, found : OwnNames(r), body : Bodies,
     response : {"none", "bad request", "sent", "buffered"}]
\* A request being detected: what holds of it whatever the others do.
DetectionFine(d, r) ==
    /\ d \in DetectionRecord(r)
    /\ (d.response = "bad request" => d.at = "done")
    /\ d.at \in SwapPlaces => d.saved \in Ways
    /\ d.at \in SwapPlaces \cup {"save"} =>
          /\ d.walk \in {"combined", "fallback"} /\ d.turn \in 1 .. 5
          /\ d.walk = "fallback" => d.turn \in 1 .. 2 /\ (d.at = "save" => d.turn = 1)
\* Moving on keeps the record's type.
LEMMA RecordStays ==
    ASSUME NEW r, NEW e \in DetectionRecord(r),
           NEW at \in {"idle", "save", "swap", "read", "restore", "found", "done"}, NEW turn \in 0 .. 5
    PROVE  /\ [e EXCEPT !.at = at, !.turn = turn] \in DetectionRecord(r)
           /\ \A walk \in {"combined", "fallback"} : [e EXCEPT !.at = at, !.walk = walk, !.turn = turn] \in DetectionRecord(r)
BY DEF DetectionRecord
LEMMA WalkStarts ==
    ASSUME NEW r, NEW e \in DetectionRecord(r), NEW walk \in {"combined", "fallback"}
    PROVE  /\ WalkFrom(e, walk) \in DetectionRecord(r)
           /\ WalkFrom(e, walk).at = "save" /\ WalkFrom(e, walk).walk = walk /\ WalkFrom(e, walk).turn = 1
           /\ WalkFrom(e, walk).response = e.response
<1>1. "save" \in {"idle", "save", "swap", "read", "restore", "found", "done"} /\ 1 \in 0 .. 5
  OBVIOUS
<1>2. WalkFrom(e, walk) \in DetectionRecord(r)
  BY <1>1, RecordStays DEF WalkFrom
<1> QED BY <1>2 DEF WalkFrom, DetectionRecord

\* While no two overlap: what a fallback without a name has tried.
Tried(d, r) ==
    /\ d.walk = "fallback" /\ d.at \in {"swap", "read"} /\ d.turn = 2 => Unnamed(r, 1)
    /\ d.walk = "fallback" /\ d.at = "restore" /\ d.found = NoName => Unnamed(r, 1) /\ Unnamed(r, 2)
    /\ d.at = "found" /\ d.found = NoName => Unnamed(r, 1) /\ Unnamed(r, 2)
    /\ d.response = "bad request" => Unnamed(r, 1) /\ Unnamed(r, 2)

LEMMA Turns == 1 \in 1 .. 2 /\ 1 \in 1 .. 5 /\ \A i \in 1 .. 2 : i = 1 \/ i = 2
OBVIOUS

\* A walk that is about to save the strategy has tried nothing yet.
LEMMA SavingIsFine ==
    ASSUME NEW r, NEW d \in DetectionRecord(r), d.at = "save", d.response # "bad request",
           d.walk \in {"combined", "fallback"}, d.turn \in 1 .. 5, d.walk = "fallback" => d.turn = 1
    PROVE  DetectionFine(d, r) /\ Tried(d, r)
<1>1. d.at \notin SwapPlaces
  BY DEF SwapPlaces
<1>2. d.walk = "fallback" => d.turn \in 1 .. 2
  <2>1. 1 \in 1 .. 2
    BY Turns, Zenon
  <2> QED BY <2>1, Zenon
<1>3. DetectionFine(d, r)
  BY <1>1, <1>2 DEF DetectionFine
<1>4. Tried(d, r)
  BY DEF Tried
<1> QED BY <1>3, <1>4

\* While no two overlap, one request at most has the strategy swapped, and it will restore the
\* configured one.
VdIInv ==
    /\ vdStrategy \in Ways /\ vdSet \in Ways /\ vdClashed \in BOOLEAN
    /\ vdRequests = [r \in VersionRequests |-> vdRequests[r]]
    /\ \A r \in VersionRequests : DetectionFine(vdRequests[r], r)
    /\ ~vdClashed =>
          /\ \A r, s \in Swapping : r = s
          /\ Swapping = {} => vdStrategy = vdSet
          /\ \A r \in Swapping : vdRequests[r].saved = vdSet
          /\ \A r \in VersionRequests :
                /\ Tried(vdRequests[r], r)
                /\ vdRequests[r].at = "read" /\ vdRequests[r].walk = "fallback" =>
                      vdStrategy = FallbackStrategies[vdRequests[r].turn]

\* A detection that ended with a name has found it; one without starts the fallback.
LEMMA DetectedGoesOn ==
    ASSUME NEW r, NEW e, DetectionFine(e, r), e.at # "done", NEW found \in OwnNames(r)
    PROVE  /\ DetectionFine(Detected(e, found), r) /\ Tried(Detected(e, found), r)
           /\ Detected(e, found).at \in {"found", "save"}
<1>1. e \in DetectionRecord(r) /\ e.response # "bad request"
  BY DEF DetectionFine
<1> PICK d : d = Detected(e, found)
  OBVIOUS
<1>2. CASE found # NoName
  <2>1. d = [e EXCEPT !.at = "found", !.found = found]
    BY <1>2 DEF Detected
  <2>2. d \in DetectionRecord(r)
    BY <1>1, <2>1 DEF DetectionRecord
  <2>3. d.at = "found" /\ d.found = found /\ d.response = e.response
    BY <1>1, <2>1 DEF DetectionRecord
  <2>4. d.at \notin SwapPlaces \cup {"save"}
    BY <2>3 DEF SwapPlaces
  <2>5. DetectionFine(d, r)
    BY <1>1, <2>2, <2>3, <2>4 DEF DetectionFine
  <2>6. Tried(d, r)
    BY <1>1, <1>2, <2>3 DEF Tried
  <2> QED BY <2>3, <2>5, <2>6
<1>3. CASE found = NoName
  <2>1. d = WalkFrom(e, "fallback")
    BY <1>3 DEF Detected
  <2>2. "fallback" \in {"combined", "fallback"}
    OBVIOUS
  <2>3. d \in DetectionRecord(r) /\ d.at = "save" /\ d.walk = "fallback" /\ d.turn = 1 /\ d.response = e.response
    <3> DEFINE start == WalkFrom(e, "fallback")
    <3>1. start \in DetectionRecord(r) /\ start.at = "save" /\ start.walk = "fallback" /\ start.turn = 1 /\ start.response = e.response
      BY <1>1, <2>2, WalkStarts
    <3> HIDE DEF start
    <3>2. d = start
      BY <2>1 DEF start
    <3> QED BY <3>1, <3>2, Zenon
  <2>4. d.turn \in 1 .. 5
    BY <2>3
  <2> QED BY <1>1, <2>2, <2>3, <2>4, SavingIsFine
<1> QED BY <1>2, <1>3

\* One request moves on.
LEMMA RequestDetects ==
    ASSUME VdIInv, NEW r \in VersionRequests, NEW d, Detection(r, d), DetectionFine(d, r),
           vdSet' = vdSet, vdStrategy' \in Ways, vdClashed' \in BOOLEAN, vdClashed => vdClashed',
           ~vdClashed' =>
              /\ Tried(d, r)
              /\ d.at \in SwapPlaces => d.saved = vdSet /\ Swapping \subseteq {r}
              /\ d.at \notin SwapPlaces => \/ r \in Swapping /\ vdStrategy' = vdSet
                                           \/ r \notin Swapping /\ vdStrategy' = vdStrategy
              /\ d.at = "read" /\ d.walk = "fallback" => vdStrategy' = FallbackStrategies[d.turn]
    PROVE  VdIInv'
<1>1. vdRequests' = [vdRequests EXCEPT ![r] = d]
  BY DEF Detection
<1>2. vdRequests'[r] = d /\ \A s \in VersionRequests \ {r} : vdRequests'[s] = vdRequests[s]
  BY <1>1 DEF VdIInv
<1>3. vdRequests' = [s \in VersionRequests |-> vdRequests'[s]]
  BY <1>1 DEF VdIInv
<1>4. \A s \in VersionRequests : DetectionFine(vdRequests'[s], s)
  BY <1>2 DEF VdIInv
<1>5. /\ \A s \in VersionRequests \ {r} : s \in Swapping' <=> s \in Swapping
      /\ r \in Swapping' <=> d.at \in SwapPlaces
      /\ Swapping \subseteq VersionRequests /\ Swapping' \subseteq VersionRequests
      /\ \A s \in VersionRequests : vdRequests[s].at = "read" => s \in Swapping
  BY <1>2 DEF Swapping, SwapPlaces
<1>6. ASSUME ~vdClashed'
      PROVE  /\ \A t, s \in Swapping' : t = s
             /\ Swapping' = {} => vdStrategy' = vdSet'
             /\ \A t \in Swapping' : vdRequests'[t].saved = vdSet'
             /\ \A t \in VersionRequests :
                   /\ Tried(vdRequests'[t], t)
                   /\ vdRequests'[t].at = "read" /\ vdRequests'[t].walk = "fallback" =>
                         vdStrategy' = FallbackStrategies[vdRequests'[t].turn]
  <2>0. /\ ~vdClashed
        /\ \A t, s \in Swapping : t = s
        /\ Swapping = {} => vdStrategy = vdSet
        /\ \A t \in Swapping : vdRequests[t].saved = vdSet
        /\ \A t \in VersionRequests :
              /\ Tried(vdRequests[t], t)
              /\ vdRequests[t].at = "read" /\ vdRequests[t].walk = "fallback" =>
                    vdStrategy = FallbackStrategies[vdRequests[t].turn]
    BY <1>6 DEF VdIInv
  <2>1. \A t, s \in Swapping' : t = s
    BY <1>5, <1>6, <2>0
  <2>2. Swapping' = {} => vdStrategy' = vdSet'
    BY <1>5, <1>6, <2>0
  <2>3. \A t \in Swapping' : vdRequests'[t].saved = vdSet'
    BY <1>2, <1>5, <1>6, <2>0
  <2>4. \A t \in VersionRequests : Tried(vdRequests'[t], t)
    BY <1>2, <1>6, <2>0
  <2>5. ASSUME NEW t \in VersionRequests, vdRequests'[t].at = "read", vdRequests'[t].walk = "fallback"
        PROVE  vdStrategy' = FallbackStrategies[vdRequests'[t].turn]
    <3>1. CASE t = r
      BY <1>2, <1>6, <2>5, <3>1
    <3>2. CASE t # r
      <4>1. t \in Swapping /\ vdRequests'[t] = vdRequests[t]
        BY <1>2, <1>5, <2>5, <3>2
      <4>2. vdStrategy' = vdStrategy
        BY <1>6, <2>0, <3>2, <4>1
      <4> QED BY <2>0, <2>5, <4>1, <4>2
    <3> QED BY <3>1, <3>2
  <2> QED BY <2>1, <2>2, <2>3, <2>4, <2>5
<1> QED BY <1>3, <1>4, <1>6 DEF VdIInv

\* Every step of a detection keeps the invariant.
LEMMA VdStep == VdIInv /\ [VdNext]_vdVars => VdIInv'
<1> SUFFICES ASSUME VdIInv, [VdNext]_vdVars PROVE VdIInv'
  OBVIOUS
<1>1. CASE UNCHANGED vdVars
  BY <1>1 DEF vdVars, VdIInv, Swapping
<1>2. ASSUME NEW r \in VersionRequests,
             \/ ArriveVersioned(r) \/ SaveStrategy(r) \/ SwapStrategy(r) \/ ReadStrategy(r) \/ RestoreStrategy(r)
             \/ TransformMiddleware(r) \/ NextVersionedRequest(r)
      PROVE  VdIInv'
  <2> DEFINE e == vdRequests[r]
  <2>0. /\ DetectionFine(e, r) /\ vdStrategy \in Ways /\ vdSet \in Ways /\ vdClashed \in BOOLEAN
        /\ ~vdClashed => /\ Tried(e, r)
                         /\ Swapping = {} => vdStrategy = vdSet
                         /\ r \in Swapping => e.saved = vdSet /\ Swapping \subseteq {r}
                         /\ e.at = "read" /\ e.walk = "fallback" => vdStrategy = FallbackStrategies[e.turn]
        /\ r \in Swapping <=> e.at \in SwapPlaces
    BY DEF VdIInv, Swapping, SwapPlaces
  <2>d. DefaultName \in OwnNames(r) /\ NoName \in OwnNames(r) /\ \A s \in Ways : DetectVersion(r, s) \in OwnNames(r)
    BY DetectedIsOwn DEF OwnNames
  <2> HIDE DEF e
  <2>1. CASE ArriveVersioned(r)
    <3>0. e.at = "idle" /\ vdStrategy' = vdStrategy /\ vdSet' = vdSet
      BY <2>1 DEF ArriveVersioned, e
    <3>1. CASE vdStrategy = "combined"
      <4> DEFINE d == WalkFrom(e, "combined")
      <4>1. Detection(r, d)
        BY <2>1, <3>1 DEF ArriveVersioned, e
      <4>2. DetectionFine(d, r) /\ (~vdClashed => Tried(d, r)) /\ d.at = "save"
        <5>1. e \in DetectionRecord(r) /\ e.response # "bad request"
          BY <2>0, <3>0 DEF DetectionFine
        <5>2. d \in DetectionRecord(r) /\ d.at = "save" /\ d.walk = "combined" /\ d.turn = 1 /\ d.response = e.response
          BY <5>1, WalkStarts
        <5> HIDE DEF d
        <5>3. d.turn \in 1 .. 5 /\ d.walk \in {"combined", "fallback"} /\ d.walk # "fallback"
          BY <5>2
        <5> QED BY <5>1, <5>2, <5>3, SavingIsFine
      <4>3. vdClashed' \in BOOLEAN /\ (vdClashed => vdClashed')
        BY <2>0, <2>1 DEF ArriveVersioned
      <4> HIDE DEF d
      <4> QED BY <2>0, <3>0, <4>1, <4>2, <4>3, RequestDetects DEF SwapPlaces
    <3>2. CASE vdStrategy # "combined"
      <4> DEFINE found == DetectVersion(r, vdStrategy)
                 d == Detected(e, found)
      <4>1. Detection(r, d)
        BY <2>1, <3>2 DEF ArriveVersioned, e
      <4>2. found \in OwnNames(r)
        BY <2>0, <2>d
      <4> HIDE DEF found
      <4>3. DetectionFine(d, r) /\ (~vdClashed => Tried(d, r)) /\ d.at \in {"found", "save"}
        BY <2>0, <3>0, <4>2, DetectedGoesOn
      <4>4. vdClashed' \in BOOLEAN /\ (vdClashed => vdClashed')
        BY <2>0, <2>1 DEF ArriveVersioned
      <4> HIDE DEF d
      <4> QED BY <2>0, <3>0, <4>1, <4>3, <4>4, RequestDetects DEF SwapPlaces
    <3> QED BY <3>1, <3>2
  <2>2. CASE SaveStrategy(r)
    <3> DEFINE d == [e EXCEPT !.at = "swap", !.saved = vdStrategy]
    <3>1. Detection(r, d) /\ e.at = "save" /\ vdStrategy' = vdStrategy /\ vdSet' = vdSet
      BY <2>2 DEF SaveStrategy, e
    <3>2. DetectionFine(d, r) /\ (~vdClashed => Tried(d, r)) /\ d.at = "swap" /\ d.saved = vdStrategy
      <4>1. e \in DetectionRecord(r) /\ vdStrategy \in Ways \cup {"none"}
        BY <2>0 DEF DetectionFine
      <4>2. d \in DetectionRecord(r)
        BY <4>1 DEF DetectionRecord
      <4>3. d.at = "swap" /\ d.saved = vdStrategy /\ d.walk = e.walk /\ d.turn = e.turn /\ d.response = e.response
        BY <4>1 DEF DetectionRecord
      <4> HIDE DEF d
      <4>4. /\ e.response # "bad request" /\ e.walk \in {"combined", "fallback"} /\ e.turn \in 1 .. 5
            /\ e.walk = "fallback" => e.turn = 1 /\ e.turn \in 1 .. 2
        BY <2>0, <3>1 DEF DetectionFine, SwapPlaces
      <4>5. DetectionFine(d, r)
        BY <2>0, <4>2, <4>3, <4>4, Zenon DEF DetectionFine
      <4>6. d.walk = "fallback" => d.turn # 2
        <5>1. d.walk = "fallback" => d.turn = 1
          BY <4>3, <4>4, Zenon
        <5>2. 1 # 2
          OBVIOUS
        <5> QED BY <5>1, <5>2, Zenon
      <4>7. Tried(d, r)
        BY <4>3, <4>4, <4>6 DEF Tried
      <4> QED BY <4>3, <4>5, <4>7
    <3>3. vdClashed' \in BOOLEAN /\ (vdClashed => vdClashed') /\ (~vdClashed' => ~vdClashed /\ Swapping = {})
      BY <2>0, <2>2 DEF SaveStrategy
    <3> HIDE DEF d
    <3> QED BY <2>0, <3>1, <3>2, <3>3, RequestDetects DEF SwapPlaces
  <2>3. CASE SwapStrategy(r)
    <3> DEFINE d == [e EXCEPT !.at = "read"]
    <3>1. /\ Detection(r, d) /\ e.at = "swap" /\ vdSet' = vdSet /\ vdClashed' = vdClashed
          /\ vdStrategy' = (IF e.walk = "combined" THEN CombinedOrder ELSE FallbackStrategies)[e.turn]
      BY <2>3 DEF SwapStrategy, Walked, e
    <3>2. DetectionFine(d, r) /\ (~vdClashed => Tried(d, r)) /\ d.at = "read" /\ d.saved = e.saved /\ d.walk = e.walk /\ d.turn = e.turn
      BY <2>0, <3>1 DEF DetectionFine, DetectionRecord, Tried, SwapPlaces
    <3>3. vdStrategy' \in Ways
      BY <2>0, <3>1, PlacesWalked DEF DetectionFine, DetectionRecord, SwapPlaces
    <3> HIDE DEF d
    <3> QED BY <2>0, <3>1, <3>2, <3>3, RequestDetects DEF SwapPlaces
  <2>4. CASE ReadStrategy(r)
    <3> DEFINE found == IF e.walk = "combined" THEN NoName ELSE DetectVersion(r, vdStrategy)
               ends == e.walk = "combined" \/ found # NoName \/ e.turn = Len(Walked(r))
               d == IF ends THEN [e EXCEPT !.at = "restore", !.found = found] ELSE [e EXCEPT !.at = "swap", !.turn = @ + 1]
    <3>1. /\ Detection(r, d) /\ e.at = "read" /\ vdSet' = vdSet /\ vdClashed' = vdClashed /\ vdStrategy' = vdStrategy
      BY <2>4 DEF ReadStrategy, e
    <3>2. found \in OwnNames(r)
      BY <2>0, <2>d
    <3>3. e.walk = "fallback" => Len(Walked(r)) = 2 /\ e.turn \in 1 .. 2
      BY <2>0, <3>1 DEF DetectionFine, DetectionRecord, SwapPlaces, Walked, FallbackStrategies, e
    <3>4. ~vdClashed /\ e.walk = "fallback" /\ found = NoName => Unnamed(r, e.turn)
      BY <2>0, <3>1, <3>3, NothingFound
    <3>5. e.walk \in {"combined", "fallback"}
      BY <2>0, <3>1 DEF DetectionFine, DetectionRecord, SwapPlaces
    <3> HIDE DEF found
    <3>6. CASE ends
      <4>1. d = [e EXCEPT !.at = "restore", !.found = found]
        BY <3>6
      <4>2. ~vdClashed /\ e.walk = "fallback" /\ found = NoName => e.turn = 2 /\ Unnamed(r, 1) /\ Unnamed(r, 2)
        BY <2>0, <3>1, <3>3, <3>4, <3>6 DEF Tried
      <4> HIDE DEF d
      <4>3. DetectionFine(d, r) /\ (~vdClashed => Tried(d, r)) /\ d.at = "restore" /\ d.saved = e.saved
        BY <2>0, <3>1, <3>2, <4>1, <4>2 DEF DetectionFine, DetectionRecord, Tried, SwapPlaces
      <4> QED BY <2>0, <3>1, <4>3, RequestDetects DEF SwapPlaces
    <3>7. CASE ~ends
      <4>1. d = [e EXCEPT !.at = "swap", !.turn = @ + 1]
        BY <3>7
      <4>2. e.walk = "fallback" /\ found = NoName /\ e.turn = 1
        <5>0. ~(e.walk = "combined" \/ found # NoName \/ e.turn = Len(Walked(r)))
          BY <3>7
        <5>1. e.walk # "combined" /\ found = NoName /\ e.turn # Len(Walked(r))
          BY <5>0
        <5>2. e.walk = "fallback"
          BY <3>5, <5>1
        <5>3. Len(Walked(r)) = 2 /\ e.turn \in 1 .. 2
          BY <3>3, <5>2
        <5> QED BY <5>1, <5>2, <5>3
      <4> HIDE DEF d
      <4>3. DetectionFine(d, r) /\ (~vdClashed => Tried(d, r)) /\ d.at = "swap" /\ d.saved = e.saved
        <5>0. e \in DetectionRecord(r) /\ e.response # "bad request" /\ e.saved \in Ways
          BY <2>0, <3>1 DEF DetectionFine, SwapPlaces
        <5>1. e.turn + 1 \in 0 .. 5 /\ e.turn + 1 = 2
          BY <4>2
        <5>2. d \in DetectionRecord(r)
          BY <4>1, <5>0, <5>1, RecordStays
        <5>3. d.at = "swap" /\ d.saved = e.saved /\ d.walk = "fallback" /\ d.turn = 2 /\ d.response = e.response
          BY <4>1, <4>2, <5>0, <5>1 DEF DetectionRecord
        <5>4. d.turn \in 1 .. 2 /\ d.turn \in 1 .. 5
          BY <5>3
        <5>5. DetectionFine(d, r)
          BY <5>0, <5>2, <5>3, <5>4 DEF DetectionFine
        <5>6. ~vdClashed => Unnamed(r, 1)
          BY <3>4, <4>2
        <5>7. ~vdClashed => Tried(d, r)
          BY <5>0, <5>3, <5>6 DEF Tried
        <5> QED BY <5>3, <5>5, <5>7
      <4> QED BY <2>0, <3>1, <4>3, RequestDetects DEF SwapPlaces
    <3> QED BY <3>6, <3>7
  <2>5. CASE RestoreStrategy(r)
    <3> DEFINE turn == e.turn
               stops == NameBy(r, Walked(r)[turn]) # NoName \/ turn = Len(Walked(r))
               found == DetectVersion(r, "combined")
               d == IF e.walk = "fallback" THEN [e EXCEPT !.at = "found"]
                    ELSE IF stops THEN Detected(e, found)
                    ELSE [e EXCEPT !.at = "save", !.turn = turn + 1]
    <3>1. Detection(r, d) /\ e.at = "restore" /\ vdStrategy' = e.saved /\ vdSet' = vdSet /\ vdClashed' = vdClashed
      BY <2>5 DEF RestoreStrategy, e
    <3>2. found \in OwnNames(r)
      BY <2>d DEF Ways
    <3>3. e.walk # "fallback" => Len(Walked(r)) = 5 /\ e.turn \in 1 .. 5 /\ e.walk = "combined"
      BY <2>0, <3>1 DEF DetectionFine, DetectionRecord, SwapPlaces, Walked, CombinedOrder, e
    <3>4. vdStrategy' \in Ways
      BY <2>0, <3>1 DEF DetectionFine, DetectionRecord, SwapPlaces
    <3> HIDE DEF found
    <3>5. CASE e.walk = "fallback"
      <4>1. d = [e EXCEPT !.at = "found"]
        BY <3>5
      <4> HIDE DEF d
      <4>2. DetectionFine(d, r) /\ (~vdClashed => Tried(d, r)) /\ d.at = "found"
        BY <2>0, <3>1, <3>5, <4>1 DEF DetectionFine, DetectionRecord, Tried, SwapPlaces
      <4> QED BY <2>0, <3>1, <3>4, <4>2, RequestDetects DEF SwapPlaces
    <3>6. CASE e.walk # "fallback" /\ stops
      <4>1. d = Detected(e, found)
        BY <3>6
      <4> HIDE DEF d
      <4>2. DetectionFine(d, r) /\ (~vdClashed => Tried(d, r)) /\ d.at \in {"found", "save"}
        BY <2>0, <3>1, <3>2, <4>1, DetectedGoesOn
      <4> QED BY <2>0, <3>1, <3>4, <4>2, RequestDetects DEF SwapPlaces
    <3>7. CASE e.walk # "fallback" /\ ~stops
      <4>1. d = [e EXCEPT !.at = "save", !.turn = turn + 1]
        BY <3>7
      <4>2. turn + 1 \in 1 .. 5
        <5>1. e.walk # "fallback" /\ ~(NameBy(r, Walked(r)[e.turn]) # NoName \/ e.turn = Len(Walked(r)))
          BY <3>7
        <5>2. Len(Walked(r)) = 5 /\ e.turn \in 1 .. 5 /\ e.turn # Len(Walked(r))
          BY <3>3, <5>1
        <5> QED BY <5>2
      <4> HIDE DEF d
      <4>3. DetectionFine(d, r) /\ (~vdClashed => Tried(d, r)) /\ d.at = "save"
        <5>1. e \in DetectionRecord(r) /\ e.response # "bad request"
          BY <2>0, <3>1 DEF DetectionFine
        <5>2. turn + 1 \in 0 .. 5
          BY <4>2
        <5>3. e.walk = "combined"
          BY <3>3, <3>7
        <5> HIDE DEF turn
        <5>4. d \in DetectionRecord(r)
          BY <4>1, <5>1, <5>2, RecordStays
        <5>5. d.at = "save" /\ d.walk = "combined" /\ d.turn = turn + 1 /\ d.response = e.response
          BY <4>1, <5>1, <5>3 DEF DetectionRecord
        <5>6. d.turn \in 1 .. 5 /\ d.walk \in {"combined", "fallback"} /\ d.walk # "fallback"
          BY <4>2, <5>5
        <5> QED BY <5>1, <5>4, <5>5, <5>6, SavingIsFine
      <4> QED BY <2>0, <3>1, <3>4, <4>3, RequestDetects DEF SwapPlaces
    <3> QED BY <3>5, <3>6, <3>7
  <2>6. CASE TransformMiddleware(r)
    <3>1. e.at = "found" /\ vdStrategy' = vdStrategy /\ vdSet' = vdSet /\ vdClashed' = vdClashed
      BY <2>6 DEF TransformMiddleware, e
    <3>2. PICK d : /\ Detection(r, d)
                   /\ \/ e.found = NoName /\ d = [e EXCEPT !.at = "done", !.response = "bad request"]
                      \/ \E body \in Bodies, response \in {"sent", "buffered"} :
                                             d = [e EXCEPT !.at = "done", !.body = body, !.response = response]
      <4>1. CASE e.found = NoName /\ Detection(r, [e EXCEPT !.at = "done", !.response = "bad request"])
        BY <4>1
      <4>2. ASSUME NEW rules \in TransformRules, NEW flushes \in BOOLEAN,
                   Detection(r, [e EXCEPT !.at = "done", !.body = TransformRequest(Payload, rules, "/users/"),
                                          !.response = IF flushes THEN "sent" ELSE "buffered"])
            PROVE  \E body \in Bodies, response \in {"sent", "buffered"} :
                      Detection(r, [e EXCEPT !.at = "done", !.body = body, !.response = response])
        <5>1. TransformRequest(Payload, rules, "/users/") \in Bodies
          BY DEF Bodies
        <5>2. (IF flushes THEN "sent" ELSE "buffered") \in {"sent", "buffered"}
          OBVIOUS
        <5> QED BY <4>2, <5>1, <5>2
      <4> QED BY <2>6, <4>1, <4>2 DEF TransformMiddleware, e
    <3>3. DetectionFine(d, r) /\ (~vdClashed => Tried(d, r)) /\ d.at = "done"
      BY <2>0, <3>1, <3>2 DEF DetectionFine, DetectionRecord, Tried, SwapPlaces
    <3> QED BY <2>0, <3>1, <3>2, <3>3, RequestDetects DEF SwapPlaces
  <2>7. CASE NextVersionedRequest(r)
    <3>1. Detection(r, IdleDetection) /\ e.at = "done" /\ vdStrategy' = vdStrategy /\ vdSet' = vdSet /\ vdClashed' = vdClashed
      BY <2>7 DEF NextVersionedRequest, e
    <3>2. DetectionFine(IdleDetection, r) /\ Tried(IdleDetection, r) /\ IdleDetection.at = "idle"
      BY <2>d DEF DetectionFine, DetectionRecord, Tried, SwapPlaces, IdleDetection, Bodies
    <3> HIDE DEF IdleDetection
    <3> QED BY <2>0, <3>1, <3>2, RequestDetects DEF SwapPlaces
  <2> QED BY <1>2, <2>1, <2>2, <2>3, <2>4, <2>5, <2>6, <2>7
<1> QED BY <1>1, <1>2 DEF VdNext

\* At first nobody is being detected.
LEMMA VdInitially == VdInit => VdIInv
<1> SUFFICES ASSUME VdInit PROVE VdIInv
  OBVIOUS
<1>1. Swapping = {}
  BY DEF VdInit, Swapping, IdleDetection
<1>2. \A r \in VersionRequests : vdRequests[r] = IdleDetection
  BY DEF VdInit
<1>3. \A r \in VersionRequests : DetectionFine(IdleDetection, r) /\ Tried(IdleDetection, r) /\ IdleDetection.at = "idle"
  BY DEF DetectionFine, DetectionRecord, Tried, SwapPlaces, IdleDetection, OwnNames, Bodies
<1>4. vdStrategy \in Ways /\ vdSet \in Ways /\ vdClashed = FALSE /\ vdRequests = [r \in VersionRequests |-> vdRequests[r]]
  BY VersionNamesAssumption DEF VdInit, Ways
<1> HIDE DEF IdleDetection
<1> QED BY <1>1, <1>2, <1>3, <1>4 DEF VdIInv, VdInit

\* What the invariant of the detection says of its properties.
LEMMA DetectionHolds == VdIInv => StrategyRestored /\ OwnVersion /\ NamedIsServed
<1> SUFFICES ASSUME VdIInv PROVE StrategyRestored /\ OwnVersion /\ NamedIsServed
  OBVIOUS
<1>1. StrategyRestored
  BY DEF VdIInv, StrategyRestored
<1>2. OwnVersion
  BY DEF VdIInv, OwnVersion, DetectionFine, DetectionRecord, OwnNames
<1>3. NamedIsServed
  <2>1. Len(FallbackStrategies) = 2
    BY DEF FallbackStrategies
  <2> SUFFICES ASSUME NEW r \in VersionRequests, ~vdClashed, vdRequests[r].response = "bad request", NEW i \in 1 .. 2
               PROVE  NameAt[r][FallbackStrategies[i]] \notin RegisteredVersions
    BY <2>1 DEF NamedIsServed
  <2>2. Unnamed(r, 1) /\ Unnamed(r, 2)
    BY DEF VdIInv, Tried
  <2>3. Unnamed(r, i)
    <3>1. CASE i = 1
      BY <2>2, <3>1
    <3>2. CASE i = 2
      BY <2>2, <3>2
    <3>3. i = 1 \/ i = 2
      BY Turns, Zenon
    <3> QED BY <3>1, <3>2, <3>3
  <2> QED BY <2>3 DEF Unnamed
<1> QED BY <1>1, <1>2, <1>3

(***************************************************************************)
(* The lifecycle of a version.                                             *)
(***************************************************************************)
Writers == {"processor", "admin"}
WriterRecord == [at : {"idle", "status", "deprecated", "sunset"}, turn : 0 .. 2]
VersionRecord == [status : VersionStatuses, deprecated : Nat, sunset : Nat]
Transition == [to : {"deprecated", "sunset"}, day : Nat, status : TransitionStatuses]
Schedule == [transitions : [1 .. 2 -> Transition], approval : {"none", "pending", "approved", "rejected"}]

\* The dates: who is about to write the sunset date, or has read it, finds a deprecation date.
DatesInOrder ==
    /\ vlVersion \in VersionRecord /\ vlDay \in Nat \ {0}
    /\ vlWriter \in [Writers -> WriterRecord] /\ vlReaders \in [HeaderReaders -> {"idle", "sunset", "deprecated"}]
    /\ vlVersion.sunset # 0 => vlVersion.deprecated # 0
    /\ \A w \in Writers : vlWriter[w].at = "sunset" => vlVersion.deprecated # 0
    /\ \A r \in HeaderReaders : vlReaders[r] = "deprecated" => vlVersion.sunset # 0

\* The schedule: the first transition is due no later than the second, and is carried out first.
PlanInOrder(s) ==
    s \in Schedule =>
       /\ s.transitions[1].day <= s.transitions[2].day
       /\ s.transitions[2].status = "pending" => s.transitions[1].status \in {"pending", "completed"}
       /\ s.transitions[2].status = "completed" => s.transitions[1].status = "completed"
ScheduleInOrder ==
    /\ vlSchedule \in Schedule \cup {NoSchedule} /\ vlDay \in Nat \ {0}
    /\ vlWriter \in [Writers -> WriterRecord]
    /\ PlanInOrder(vlSchedule)
    /\ vlWriter["processor"].at # "idle" =>
          /\ vlSchedule \in Schedule /\ vlWriter["processor"].turn \in 1 .. 2
          /\ vlWriter["processor"].turn = 2 => vlSchedule.transitions[1].status = "completed"
    /\ vlRejectedAs # "none" /\ vlSchedule \in Schedule =>
          \A i \in 1 .. 2 : vlSchedule.transitions[i].status # "pending"
VlIInv == DatesInOrder /\ ScheduleInOrder

LEMMA WritersStay ==
    ASSUME vlWriter \in [Writers -> WriterRecord], NEW w \in Writers, NEW d \in WriterRecord, WriterAt(w, d)
    PROVE  /\ vlWriter' \in [Writers -> WriterRecord] /\ vlWriter'[w] = d
           /\ \A v \in Writers \ {w} : vlWriter'[v] = vlWriter[v]
BY DEF WriterAt

\* Steps that leave the dates alone.
LEMMA DatesKept ==
    ASSUME DatesInOrder, UNCHANGED <<vlVersion, vlReaders>>, vlDay' \in Nat \ {0},
           \/ UNCHANGED vlWriter
           \/ \E w \in Writers, d \in WriterRecord : d.at # "sunset" /\ WriterAt(w, d)
    PROVE  DatesInOrder'
<1>1. CASE UNCHANGED vlWriter
  BY <1>1 DEF DatesInOrder
<1>2. ASSUME NEW w \in Writers, NEW d \in WriterRecord, d.at # "sunset", WriterAt(w, d) PROVE DatesInOrder'
  <2>1. vlWriter' \in [Writers -> WriterRecord] /\ vlWriter'[w] = d /\ \A v \in Writers \ {w} : vlWriter'[v] = vlWriter[v]
    BY <1>2, WritersStay DEF DatesInOrder
  <2> QED BY <1>2, <2>1 DEF DatesInOrder
<1> QED BY <1>1, <1>2

LEMMA WriterKinds ==
    /\ NoWriter \in WriterRecord /\ NoWriter.at = "idle" /\ NoWriter.turn = 0
    /\ \A d \in WriterRecord, at \in {"idle", "status", "deprecated", "sunset"} :
          [d EXCEPT !.at = at] \in WriterRecord /\ [d EXCEPT !.at = at].at = at /\ [d EXCEPT !.at = at].turn = d.turn
    /\ \A turn \in 1 .. 2 : [at |-> "status", turn |-> turn] \in WriterRecord
BY DEF NoWriter, WriterRecord

LEMMA DatesStep == VlIInv /\ [VlNext]_vlVars => DatesInOrder'
<1> SUFFICES ASSUME VlIInv, [VlNext]_vlVars PROVE DatesInOrder'
  OBVIOUS
<1> USE DEF VlIInv
<1>1. CASE UNCHANGED vlVars
  BY <1>1 DEF vlVars, DatesInOrder
<1>0. vlDay \in Nat \ {0} /\ vlWriter \in [Writers -> WriterRecord] /\ DeprecationPeriod \in Nat
  BY VersioningAssumption DEF DatesInOrder
<1>2. CASE \/ \E day \in 1 .. MaxDays : ScheduleDeprecation(day)
           \/ ApproveTransition \/ RejectTransition \/ DayPasses
  <2>1. UNCHANGED <<vlVersion, vlReaders, vlWriter>> /\ vlDay' \in Nat \ {0}
    BY <1>0, <1>2 DEF ScheduleDeprecation, ApproveTransition, RejectTransition, DayPasses
  <2> QED BY <2>1, DatesKept
<1>3. CASE ProcessScheduledTransitions \/ DeprecateOrSunsetVersion
  <2>1. UNCHANGED <<vlVersion, vlReaders, vlDay>>
    BY <1>3 DEF ProcessScheduledTransitions, DeprecateOrSunsetVersion
  <2>2. CASE ProcessScheduledTransitions
    <3> DEFINE turn == Min(DueTransitions)
    <3>1. DueTransitions \subseteq 1 .. 2 /\ DueTransitions # {}
      <4>1. DueTransitions \subseteq DOMAIN vlSchedule.transitions /\ DueTransitions # {}
        BY <2>2 DEF ProcessScheduledTransitions, DueTransitions
      <4>2. CASE vlSchedule \in Schedule
        BY <4>1, <4>2 DEF Schedule
      <4>3. CASE vlSchedule = NoSchedule
        BY <4>1, <4>3 DEF NoSchedule
      <4> QED BY <4>2, <4>3 DEF ScheduleInOrder
    <3>2. turn \in 1 .. 2
      <4>1. DueTransitions \subseteq Nat
        BY <3>1
      <4>2. turn \in DueTransitions
        BY <3>1, <4>1, LeastIsThere
      <4> QED BY <3>1, <4>2
    <3> HIDE DEF turn
    <3>3. WriterAt("processor", [at |-> "status", turn |-> turn])
      BY <2>2 DEF ProcessScheduledTransitions, turn
    <3>4. [at |-> "status", turn |-> turn] \in WriterRecord /\ "processor" \in Writers
      BY <3>2, WriterKinds DEF Writers
    <3> QED BY <1>0, <2>1, <3>3, <3>4, DatesKept
  <2>3. CASE DeprecateOrSunsetVersion
    <3>1. PICK turn \in 1 .. 2 : WriterAt("admin", [at |-> "status", turn |-> turn])
      BY <2>3 DEF DeprecateOrSunsetVersion
    <3>2. [at |-> "status", turn |-> turn] \in WriterRecord /\ "admin" \in Writers
      BY WriterKinds DEF Writers
    <3> QED BY <1>0, <2>1, <3>1, <3>2, DatesKept
  <2> QED BY <1>3, <2>2, <2>3
<1>4. ASSUME NEW w \in Writers, WriteStatus(w) \/ WriteDeprecatedDate(w) \/ WriteSunsetDate(w)
      PROVE  DatesInOrder'
  <2>0. vlWriter[w] \in WriterRecord /\ UNCHANGED <<vlReaders, vlDay>>
    BY <1>0, <1>4 DEF WriteStatus, WriteDeprecatedDate, WriteSunsetDate
  <2>1. CASE WriteStatus(w)
    <3>1. \E d \in WriterRecord : d.at # "sunset" /\ WriterAt(w, d)
      <4>1. CASE vlWriter[w].turn = 1
        BY <2>0, <2>1, <4>1, WriterKinds DEF WriteStatus
      <4>2. CASE vlWriter[w].turn # 1
        BY <2>1, <4>2, WriterKinds DEF WriteStatus, Finished
      <4> QED BY <4>1, <4>2
    <3>2. PICK d \in WriterRecord : d.at # "sunset" /\ WriterAt(w, d)
      BY <3>1
    <3>3. vlWriter' \in [Writers -> WriterRecord] /\ vlWriter'[w] = d /\ \A v \in Writers \ {w} : vlWriter'[v] = vlWriter[v]
      BY <1>0, <3>2, WritersStay
    <3>4. vlVersion' \in VersionRecord /\ vlVersion'.deprecated = vlVersion.deprecated /\ vlVersion'.sunset = vlVersion.sunset
      BY <2>1 DEF WriteStatus, DatesInOrder, VersionRecord, VersionStatuses
    <3> QED BY <1>0, <2>0, <3>2, <3>3, <3>4 DEF DatesInOrder
  <2>2. CASE WriteDeprecatedDate(w)
    <3>1. WriterAt(w, [vlWriter[w] EXCEPT !.at = "sunset"]) /\ [vlWriter[w] EXCEPT !.at = "sunset"] \in WriterRecord
      BY <2>0, <2>2, WriterKinds DEF WriteDeprecatedDate
    <3>2. vlWriter' \in [Writers -> WriterRecord]
      BY <1>0, <3>1, WritersStay
    <3>3. vlVersion' \in VersionRecord /\ vlVersion'.deprecated = vlDay /\ vlVersion'.sunset = vlVersion.sunset
      BY <1>0, <2>2 DEF WriteDeprecatedDate, DatesInOrder, VersionRecord
    <3> QED BY <1>0, <2>0, <3>2, <3>3 DEF DatesInOrder
  <2>3. CASE WriteSunsetDate(w)
    <3>1. WriterAt(w, NoWriter) /\ NoWriter \in WriterRecord /\ NoWriter.at = "idle"
      BY <2>3, WriterKinds DEF WriteSunsetDate, Finished
    <3>2. vlWriter' \in [Writers -> WriterRecord] /\ vlWriter'[w] = NoWriter /\ \A v \in Writers \ {w} : vlWriter'[v] = vlWriter[v]
      BY <1>0, <3>1, WritersStay
    <3>3. vlVersion' \in VersionRecord /\ vlVersion'.deprecated = vlVersion.deprecated /\ vlVersion'.sunset = vlDay + DeprecationPeriod
      BY <1>0, <2>3 DEF WriteSunsetDate, DatesInOrder, VersionRecord
    <3>4. vlVersion.deprecated # 0 /\ vlDay + DeprecationPeriod # 0
      BY <1>0, <2>3 DEF WriteSunsetDate, DatesInOrder
    <3> QED BY <1>0, <2>0, <3>1, <3>2, <3>3, <3>4 DEF DatesInOrder
  <2> QED BY <1>4, <2>1, <2>2, <2>3
<1>5. ASSUME NEW r \in HeaderReaders, AddResponseHeaders(r) PROVE DatesInOrder'
  <2>1. UNCHANGED <<vlVersion, vlDay, vlWriter>>
    BY <1>5 DEF AddResponseHeaders
  <2>2. PICK at \in {"idle", "sunset", "deprecated"} : Reader(r, at) /\ (at = "deprecated" => vlVersion.sunset # 0)
    BY <1>5 DEF AddResponseHeaders, DatesInOrder
  <2> QED BY <2>1, <2>2 DEF DatesInOrder, Reader
<1> QED BY <1>1, <1>2, <1>3, <1>4, <1>5 DEF VlNext, Writers

\* The schedule after its transition t has got a new status.
LEMMA ScheduleStep == VlIInv /\ [VlNext]_vlVars => ScheduleInOrder'
<1> SUFFICES ASSUME VlIInv, [VlNext]_vlVars PROVE ScheduleInOrder'
  OBVIOUS
<1> USE DEF VlIInv
<1>1. CASE UNCHANGED vlVars
  BY <1>1 DEF vlVars, ScheduleInOrder, PlanInOrder
<1>0. vlDay \in Nat \ {0} /\ vlWriter \in [Writers -> WriterRecord] /\ DeprecationPeriod \in Nat /\ Writers = {"processor", "admin"}
  BY VersioningAssumption DEF DatesInOrder, Writers
<1>n. NoSchedule \notin Schedule /\ DOMAIN NoSchedule.transitions = {}
  <2>1. DOMAIN NoSchedule.transitions = {}
    BY DEF NoSchedule
  <2>2. \A s \in Schedule : 1 \in DOMAIN s.transitions
    BY DEF Schedule
  <2> QED BY <2>1, <2>2
<1>t. \A s \in Schedule : /\ s.transitions[1] \in Transition /\ s.transitions[2] \in Transition
                          /\ DOMAIN s.transitions = 1 .. 2
  BY DEF Schedule
<1>2. ASSUME NEW day \in 1 .. MaxDays, ScheduleDeprecation(day) PROVE ScheduleInOrder'
  <2> DEFINE first == PlanTransition("deprecated", day)
             second == PlanTransition("sunset", day + DeprecationPeriod)
  <2>1. /\ vlSchedule' = [transitions |-> <<first, second>>, approval |-> "pending"]
        /\ vlRejectedAs' = "none" /\ UNCHANGED <<vlDay, vlWriter>> /\ vlWriter["processor"].at = "idle"
    BY <1>2 DEF ScheduleDeprecation, ProcessorIdle
  <2>2. day \in Nat /\ day + DeprecationPeriod \in Nat /\ day <= day + DeprecationPeriod
    BY <1>0, VersioningAssumption
  <2>3. /\ first \in Transition /\ first.day = day /\ first.status = "pending"
        /\ second \in Transition /\ second.day = day + DeprecationPeriod /\ second.status = "pending"
    BY <2>2 DEF PlanTransition, Transition, TransitionStatuses
  <2> HIDE DEF first, second
  <2>4. <<first, second>> \in [1 .. 2 -> Transition] /\ <<first, second>>[1] = first /\ <<first, second>>[2] = second
    BY <2>3
  <2>5. vlSchedule' \in Schedule /\ vlSchedule'.transitions[1] = first /\ vlSchedule'.transitions[2] = second
    BY <2>1, <2>4 DEF Schedule
  <2>6. PlanInOrder(vlSchedule')
    BY <2>2, <2>3, <2>5 DEF PlanInOrder
  <2> QED BY <1>0, <2>1, <2>5, <2>6 DEF ScheduleInOrder
<1>3. CASE ApproveTransition
  <2>1. /\ vlSchedule \in Schedule /\ vlSchedule' = [vlSchedule EXCEPT !.approval = "approved"]
        /\ UNCHANGED <<vlDay, vlWriter, vlRejectedAs>> /\ vlWriter["processor"].at = "idle"
    BY <1>3 DEF ApproveTransition, ProcessorIdle, ScheduleInOrder
  <2>2. vlSchedule' \in Schedule /\ vlSchedule'.transitions = vlSchedule.transitions
    BY <2>1 DEF Schedule
  <2> QED BY <1>0, <2>1, <2>2 DEF ScheduleInOrder, PlanInOrder
<1>4. CASE RejectTransition
  <2> DEFINE after(i) == IF vlSchedule.transitions[i].status = "pending"
                         THEN [vlSchedule.transitions[i] EXCEPT !.status = "rejected"] ELSE vlSchedule.transitions[i]
  <2>1. /\ vlSchedule \in Schedule /\ vlSchedule' = [transitions |-> [i \in 1 .. 2 |-> after(i)], approval |-> "rejected"]
        /\ UNCHANGED <<vlDay, vlWriter>> /\ vlWriter["processor"].at = "idle"
    BY <1>4 DEF RejectTransition, ProcessorIdle, ScheduleInOrder
  <2>2. \A i \in 1 .. 2 :
           /\ after(i) \in Transition /\ after(i).day = vlSchedule.transitions[i].day /\ after(i).status # "pending"
           /\ after(i).status = "completed" <=> vlSchedule.transitions[i].status = "completed"
    <3> TAKE i \in 1 .. 2
    <3>1. vlSchedule.transitions[i] \in Transition
      BY <2>1 DEF Schedule
    <3> QED BY <3>1 DEF Transition, TransitionStatuses
  <2> HIDE DEF after
  <2>3. vlSchedule' \in Schedule /\ \A i \in 1 .. 2 : vlSchedule'.transitions[i] = after(i)
    BY <2>1, <2>2 DEF Schedule
  <2>4. PlanInOrder(vlSchedule')
    BY <2>1, <2>2, <2>3 DEF PlanInOrder, ScheduleInOrder
  <2> QED BY <1>0, <2>1, <2>2, <2>3, <2>4 DEF ScheduleInOrder
<1>5. CASE ProcessScheduledTransitions
  <2> DEFINE turn == Min(DueTransitions)
  <2>1. /\ WriterAt("processor", [at |-> "status", turn |-> turn]) /\ DueTransitions # {}
        /\ UNCHANGED <<vlSchedule, vlDay, vlRejectedAs>>
    BY <1>5 DEF ProcessScheduledTransitions
  <2>2. vlSchedule \in Schedule
    BY <1>n, <2>1 DEF DueTransitions, ScheduleInOrder
  <2>3. DueTransitions \subseteq 1 .. 2
    BY <1>t, <2>2 DEF DueTransitions
  <2>4. turn \in DueTransitions /\ \A i \in DueTransitions : turn <= i
    <3>1. DueTransitions \subseteq Nat
      BY <2>3
    <3> QED BY <2>1, <3>1, LeastIsThere
  <2> HIDE DEF turn
  <2>5. turn = 2 => vlSchedule.transitions[1].status = "completed"
    <3> SUFFICES ASSUME turn = 2, vlSchedule.transitions[1].status # "completed" PROVE FALSE
      OBVIOUS
    <3>1. vlSchedule.transitions[2].status = "pending" /\ vlSchedule.transitions[2].day < vlDay /\ vlSchedule.approval = "approved"
      BY <2>4 DEF DueTransitions
    <3>2. vlSchedule.transitions[1].status = "pending" /\ vlSchedule.transitions[1].day <= vlSchedule.transitions[2].day
      BY <2>2, <3>1 DEF ScheduleInOrder, PlanInOrder
    <3>3. vlSchedule.transitions[1].day \in Nat /\ vlSchedule.transitions[2].day \in Nat
      BY <1>t, <2>2 DEF Transition
    <3>4. vlSchedule.transitions[1].day < vlDay
      BY <1>0, <3>1, <3>2, <3>3
    <3>5. 1 \in DOMAIN vlSchedule.transitions
      BY <1>t, <2>2
    <3>6. 1 \in DueTransitions
      BY <3>1, <3>2, <3>4, <3>5 DEF DueTransitions
    <3> QED BY <2>4, <3>6
  <2>6. turn \in 1 .. 2
    BY <2>3, <2>4
  <2>7. [at |-> "status", turn |-> turn] \in WriterRecord
    BY <2>6, WriterKinds
  <2>8. vlWriter' \in [Writers -> WriterRecord] /\ vlWriter'["processor"].turn = turn
    BY <1>0, <2>1, <2>7, WritersStay
  <2> QED BY <1>0, <2>1, <2>2, <2>5, <2>6, <2>8 DEF ScheduleInOrder
<1>6. CASE DeprecateOrSunsetVersion \/ DayPasses \/ \E r \in HeaderReaders : AddResponseHeaders(r)
  <2>1. UNCHANGED <<vlSchedule, vlRejectedAs>> /\ vlDay' \in Nat \ {0}
    BY <1>0, <1>6 DEF DeprecateOrSunsetVersion, DayPasses, AddResponseHeaders
  <2>2. vlWriter' \in [Writers -> WriterRecord] /\ vlWriter'["processor"] = vlWriter["processor"]
    <3>1. CASE DeprecateOrSunsetVersion
      <4>1. PICK turn \in 1 .. 2 : WriterAt("admin", [at |-> "status", turn |-> turn])
        BY <3>1 DEF DeprecateOrSunsetVersion
      <4>2. [at |-> "status", turn |-> turn] \in WriterRecord /\ "admin" \in Writers /\ "processor" \in Writers \ {"admin"}
        BY <1>0, WriterKinds
      <4> QED BY <1>0, <4>1, <4>2, WritersStay
    <3>2. CASE DayPasses \/ \E r \in HeaderReaders : AddResponseHeaders(r)
      BY <1>0, <3>2 DEF DayPasses, AddResponseHeaders
    <3> QED BY <1>6, <3>1, <3>2
  <2> QED BY <2>1, <2>2 DEF ScheduleInOrder
<1>7. ASSUME NEW w \in Writers, WriteStatus(w) \/ WriteDeprecatedDate(w) \/ WriteSunsetDate(w)
      PROVE  ScheduleInOrder'
  <2>0. vlWriter[w] \in WriterRecord /\ UNCHANGED <<vlDay, vlRejectedAs>> /\ vlWriter[w].at # "idle"
    BY <1>0, <1>7 DEF WriteStatus, WriteDeprecatedDate, WriteSunsetDate
  <2>1. CASE Finished(w)
    <3>1. vlWriter' \in [Writers -> WriterRecord] /\ vlWriter'[w] = NoWriter /\ \A v \in Writers \ {w} : vlWriter'[v] = vlWriter[v]
      BY <1>0, <2>1, WriterKinds, WritersStay DEF Finished
    <3>2. CASE w = "admin"
      <4>1. vlSchedule' = vlSchedule /\ vlWriter'["processor"] = vlWriter["processor"]
        BY <1>0, <2>1, <3>1, <3>2 DEF Finished
      <4> QED BY <2>0, <3>1, <4>1 DEF ScheduleInOrder
    <3>3. CASE w = "processor"
      <4> DEFINE t == vlWriter["processor"].turn
                 done == [vlSchedule.transitions[t] EXCEPT !.status = "completed"]
      <4>1. /\ vlSchedule' = [vlSchedule EXCEPT !.transitions[t].status = "completed"]
            /\ vlWriter'["processor"].at = "idle"
        BY <2>1, <3>1, <3>3, WriterKinds DEF Finished
      <4>2. vlSchedule \in Schedule /\ t \in 1 .. 2 /\ (t = 2 => vlSchedule.transitions[1].status = "completed")
        BY <2>0, <3>3 DEF ScheduleInOrder
      <4>3. vlSchedule.transitions[t] \in Transition
        BY <4>2 DEF Schedule
      <4>4. done \in Transition /\ done.status = "completed" /\ done.day = vlSchedule.transitions[t].day
        BY <4>3 DEF Transition, TransitionStatuses
      <4> HIDE DEF t
      <4>5. vlSchedule'.transitions = [vlSchedule.transitions EXCEPT ![t] = done] /\ vlSchedule' = [vlSchedule EXCEPT !.transitions = [vlSchedule.transitions EXCEPT ![t] = done]]
        BY <4>1, <4>2 DEF Schedule
      <4> HIDE DEF done
      <4>6. vlSchedule' \in Schedule /\ vlSchedule'.transitions[t] = done /\ \A i \in 1 .. 2 : i # t => vlSchedule'.transitions[i] = vlSchedule.transitions[i]
        BY <4>2, <4>4, <4>5 DEF Schedule
      <4>7. \A i \in 1 .. 2 : /\ vlSchedule'.transitions[i].day = vlSchedule.transitions[i].day
                              /\ vlSchedule'.transitions[i].status \in {vlSchedule.transitions[i].status, "completed"}
        BY <4>4, <4>6
      <4>8. PlanInOrder(vlSchedule) /\ t \in {1, 2}
        BY <4>2 DEF ScheduleInOrder
      <4>9. PlanInOrder(vlSchedule')
        BY <4>2, <4>4, <4>6, <4>7, <4>8 DEF PlanInOrder
      <4> QED BY <2>0, <3>1, <4>1, <4>2, <4>6, <4>7, <4>9 DEF ScheduleInOrder
    <3> QED BY <1>0, <3>2, <3>3
  <2>2. CASE vlSchedule' = vlSchedule /\ \E at \in {"deprecated", "sunset"} : WriterAt(w, [vlWriter[w] EXCEPT !.at = at])
    <3>1. PICK at \in {"deprecated", "sunset"} : WriterAt(w, [vlWriter[w] EXCEPT !.at = at])
      BY <2>2
    <3>2. vlWriter' \in [Writers -> WriterRecord] /\ vlWriter'[w].turn = vlWriter[w].turn /\ \A v \in Writers \ {w} : vlWriter'[v] = vlWriter[v]
      <4> DEFINE d == [vlWriter[w] EXCEPT !.at = at]
      <4>1. d \in WriterRecord /\ d.turn = vlWriter[w].turn
          BY <2>0 DEF WriterRecord
      <4>2. WriterAt(w, d)
        BY <3>1
      <4> HIDE DEF d
      <4> QED BY <1>0, <4>1, <4>2, WritersStay
    <3> QED BY <1>0, <2>0, <2>2, <3>2 DEF ScheduleInOrder
  <2>3. Finished(w) \/ (vlSchedule' = vlSchedule /\ \E at \in {"deprecated", "sunset"} : WriterAt(w, [vlWriter[w] EXCEPT !.at = at]))
    BY <1>7 DEF WriteStatus, WriteDeprecatedDate, WriteSunsetDate
  <2> QED BY <2>1, <2>2, <2>3
<1> QED BY <1>0, <1>1, <1>2, <1>3, <1>4, <1>5, <1>6, <1>7 DEF VlNext

LEMMA VlInitially == VlInit => VlIInv
<1> SUFFICES ASSUME VlInit PROVE VlIInv
  OBVIOUS
<1>1. vlWriter \in [Writers -> WriterRecord] /\ \A w \in Writers : vlWriter[w].at = "idle"
  BY WriterKinds DEF VlInit, Writers
<1>2. NoSchedule \notin Schedule
  <2>1. DOMAIN NoSchedule.transitions = {}
    BY DEF NoSchedule
  <2>2. \A s \in Schedule : 1 \in DOMAIN s.transitions
    BY DEF Schedule
  <2> QED BY <2>1, <2>2
<1>3. DatesInOrder
  BY <1>1 DEF VlInit, DatesInOrder, VersionRecord, VersionStatuses
<1>4. ScheduleInOrder
  BY <1>1, <1>2 DEF VlInit, ScheduleInOrder, PlanInOrder, Writers
<1> QED BY <1>3, <1>4 DEF VlIInv

LEMMA LifecycleHolds == VlIInv => HeadersSafe /\ RejectedRests /\ OrderKept
<1> SUFFICES ASSUME VlIInv PROVE HeadersSafe /\ RejectedRests /\ OrderKept
  OBVIOUS
<1>1. HeadersSafe
  BY DEF VlIInv, DatesInOrder, HeadersSafe
<1>2. CASE vlSchedule = NoSchedule
  <2>1. DOMAIN vlSchedule.transitions = {}
    BY <1>2 DEF NoSchedule
  <2> QED BY <1>1, <2>1 DEF RejectedRests, OrderKept
<1>3. CASE vlSchedule \in Schedule
  <2>1. DOMAIN vlSchedule.transitions = 1 .. 2
    BY <1>3 DEF Schedule
  <2>2. RejectedRests
    BY <1>3, <2>1 DEF VlIInv, ScheduleInOrder, RejectedRests
  <2>3. vlSchedule.transitions[2].status = "completed" => vlSchedule.transitions[1].status = "completed"
    BY <1>3 DEF VlIInv, ScheduleInOrder, PlanInOrder
  <2>4. \A i \in 1 .. 2 : \A j \in 1 .. (i - 1) : i = 2 /\ j = 1
    OBVIOUS
  <2>5. OrderKept
    BY <2>1, <2>3, <2>4 DEF OrderKept
  <2> QED BY <1>1, <2>2, <2>5
<1> QED BY <1>2, <1>3 DEF VlIInv, ScheduleInOrder

(***************************************************************************)
(* The windows of the usage analytics.                                     *)
(***************************************************************************)
\* The newest window is kept, and no kept window is newer.
VwIInv ==
    /\ IsFiniteSet(DOMAIN vwWindows) /\ DOMAIN vwWindows \subseteq Nat \ {0}
    /\ Cardinality(DOMAIN vwWindows) <= RetentionCount
    /\ vwNewest \in Nat /\ (vwNewest = 0 => DOMAIN vwWindows = {}) /\ (vwNewest # 0 => vwNewest \in DOMAIN vwWindows)
    /\ \A w \in DOMAIN vwWindows : w <= vwNewest

\* Of a set of one window too many, evicting those of rank zero leaves the number kept, and the newest among them.
LEMMA OldestGoes ==
    ASSUME NEW D, IsFiniteSet(D), D \subseteq Nat, Cardinality(D) = RetentionCount + 1,
           NEW n \in D, \A v \in D : v <= n
    PROVE  LET kept == {v \in D : Cardinality({u \in D : u < v}) >= 1} IN
           n \in kept /\ Cardinality(kept) <= RetentionCount /\ IsFiniteSet(kept) /\ kept \subseteq D
<1> DEFINE below(v) == {u \in D : u < v}
           kept == {v \in D : Cardinality(below(v)) >= 1}
<1>0. RetentionCount \in Nat \ {0}
  BY VersioningAssumption
<1>1. \A v : IsFiniteSet(below(v)) /\ Cardinality(below(v)) \in Nat /\ (Cardinality(below(v)) = 0 => below(v) = {})
  <2> TAKE v
  <2>1. below(v) \subseteq D
    OBVIOUS
  <2>2. IsFiniteSet(below(v))
    BY <2>1, FS_Subset
  <2> QED BY <2>2, FS_CardinalityType, FS_EmptySet
<1>2. PICK m \in D : \A v \in D : m <= v
  <2>1. D # {}
    OBVIOUS
  <2> QED BY <2>1, LeastIsThere
<1>3. below(m) = {}
  <2>1. \A u \in D : m <= u /\ u \in Nat /\ m \in Nat
    BY <1>2
  <2>2. ASSUME NEW u \in below(m) PROVE FALSE
    <3>1. u \in D /\ u < m
      OBVIOUS
    <3> QED BY <2>1, <3>1
  <2> QED BY <2>2
<1>4. m \notin kept
  <2>1. Cardinality(below(m)) = 0
    BY <1>3, FS_EmptySet
  <2> QED BY <2>1
<1>5. kept \subseteq D \ {m} /\ kept \subseteq D
  BY <1>4
<1>6. IsFiniteSet(D \ {m}) /\ Cardinality(D \ {m}) = RetentionCount
  <2>1. Cardinality(D \ {m}) = Cardinality(D) - 1 /\ IsFiniteSet(D \ {m})
    BY FS_RemoveElement
  <2> QED BY <1>0, <2>1
<1>7. IsFiniteSet(kept) /\ Cardinality(kept) <= RetentionCount
  <2> HIDE DEF kept
  <2> QED BY <1>5, <1>6, FS_Subset
<1>8. n \in kept
  <2>1. \E u \in D : u # n
    <3> SUFFICES ASSUME \A u \in D : u = n PROVE FALSE
      OBVIOUS
    <3>1. D = {n}
      OBVIOUS
    <3>2. Cardinality(D) = 1
      BY <3>1, FS_Singleton
    <3> QED BY <1>0, <3>2
  <2>2. below(n) # {}
    BY <2>1
  <2>3. Cardinality(below(n)) >= 1
    <3> HIDE DEF below
    <3> QED BY <1>1, <2>2
  <2> QED BY <2>3
<1> QED BY <1>5, <1>7, <1>8

LEMMA VwStep == VwIInv /\ [VwNext]_vwVars => VwIInv'
<1> SUFFICES ASSUME VwIInv, [VwNext]_vwVars PROVE VwIInv'
  OBVIOUS
<1>1. CASE UNCHANGED vwVars
  BY <1>1 DEF vwVars, VwIInv
<1>2. ASSUME NEW window \in 1 .. LastWindow, ProcessAnalyticsEvent(window) PROVE VwIInv'
  <2> DEFINE kept == GetOrCreateWindow(window)
             all == DOMAIN vwWindows \cup {window}
             n == vwNewest'
  <2>0. window \in Nat \ {0} /\ RetentionCount \in Nat \ {0}
    BY VersioningAssumption
  <2>1. DOMAIN vwWindows' = DOMAIN kept
    BY <1>2 DEF ProcessAnalyticsEvent
  <2>2. n \in {vwNewest, window} /\ vwNewest <= n /\ window <= n /\ n \in Nat \ {0}
    <3>1. n = Max({vwNewest, window})
      BY <1>2 DEF ProcessAnalyticsEvent
    <3>2. vwNewest \in Nat
      BY DEF VwIInv
    <3>3. \E i \in {vwNewest, window} : \A j \in {vwNewest, window} : i >= j
      BY <2>0, <3>2
    <3>4. Max({vwNewest, window}) \in {vwNewest, window} /\ \A j \in {vwNewest, window} : Max({vwNewest, window}) >= j
      BY <3>3 DEF Max
    <3> QED BY <2>0, <3>1, <3>2, <3>4
  <2>3. all \subseteq Nat \ {0} /\ IsFiniteSet(all) /\ n \in all /\ \A v \in all : v <= n
    <3>1. IsFiniteSet(all)
      BY FS_AddElement DEF VwIInv
    <3>2. vwNewest # 0 => vwNewest \in all
      BY DEF VwIInv
    <3>3. n \in all
      BY <2>2, <3>2
    <3>4. \A v \in DOMAIN vwWindows : v \in Nat /\ v <= vwNewest /\ vwNewest \in Nat
      BY DEF VwIInv
    <3>5. \A v \in all : v <= n
      BY <2>0, <2>2, <3>4
    <3> QED BY <2>0, <3>1, <3>3, <3>5 DEF VwIInv
  <2>4. DOMAIN kept \subseteq all /\ n \in DOMAIN kept /\ IsFiniteSet(DOMAIN kept) /\ Cardinality(DOMAIN kept) <= RetentionCount
    <3>1. CASE window \in DOMAIN vwWindows
      BY <2>3, <3>1 DEF GetOrCreateWindow, VwIInv
    <3>2. CASE window \notin DOMAIN vwWindows
      <4> DEFINE wide == SetField(vwWindows, window, 0)
                 c == Cardinality(DOMAIN vwWindows)
      <4>1. kept = CleanupOldWindows(wide) /\ DOMAIN wide = all
        BY <3>2 DEF GetOrCreateWindow, SetField
      <4>2. Cardinality(all) = c + 1 /\ c \in Nat /\ c <= RetentionCount
        BY <3>2, FS_AddElement, FS_CardinalityType DEF VwIInv
      <4> HIDE DEF wide, c, all, kept, n
      <4>3. CASE c + 1 - RetentionCount <= 0
        <5>1. kept = wide
          <6>1. Cardinality(DOMAIN wide) - RetentionCount <= 0
            BY <2>0, <4>1, <4>2, <4>3
          <6> QED BY <4>1, <6>1, Zenon DEF CleanupOldWindows
        <5> QED BY <2>0, <2>3, <4>1, <4>2, <4>3, <5>1
      <4>4. CASE ~(c + 1 - RetentionCount <= 0)
        <5>1. Cardinality(all) = RetentionCount + 1 /\ Cardinality(all) - RetentionCount = 1
          BY <2>0, <4>2, <4>4
        <5>2. DOMAIN kept = {v \in all : Cardinality({u \in all : u < v}) >= 1}
          BY <4>1, <5>1 DEF CleanupOldWindows
        <5> QED BY <2>3, <5>1, <5>2, OldestGoes
      <4> QED BY <4>3, <4>4
    <3> QED BY <3>1, <3>2
  <2> HIDE DEF kept, all, n
  <2>5. n = vwNewest'
    BY DEF n
  <2> QED BY <2>1, <2>2, <2>3, <2>4, <2>5 DEF VwIInv
<1> QED BY <1>1, <1>2 DEF VwNext

LEMMA VwInitially == VwInit => VwIInv
<1>1. IsFiniteSet({}) /\ Cardinality({}) = 0
  BY FS_EmptySet
<1>2. DOMAIN <<>> = {}
  OBVIOUS
<1> QED BY <1>1, <1>2, VersioningAssumption DEF VwInit, VwIInv

LEMMA WindowsHold == VwIInv => NewestKept
BY DEF VwIInv, NewestKept

(***************************************************************************)
(* Users and their copies.                                                 *)
(***************************************************************************)
PageOfRows == UNION {[S -> UserRow] : S \in SUBSET Accounts}
UserPlaces == {"idle", "cached", "find", "fill", "read", "write", "email", "insert", "bulk", "dropUser", "dropAllLists",
               "dropLists", "dropStats", "cachedList", "list", "fillList", "cachedStats", "total", "byRole", "fillStats"}
UserCallType ==
    [at : UserPlaces, kind : UserKinds, of : Accounts, tenant : ListFilters, row : UserRow, field : UserFields, size : Nat,
     list : PageOfRows, stats : [total : Int, roles : Int], todo : SUBSET Accounts, overtaken : BOOLEAN]

UsTypes ==
    /\ usRow \in [Accounts -> UserRow] /\ usUser \in [Accounts -> UserRow]
    /\ usList \in [ListFilters -> PageOfRows] /\ usStats \in [ListFilters -> [total : Int, roles : Int]]
    /\ usCall \in [UserCalls -> UserCallType] /\ usCalls \in 0 .. MaxUserCalls
    /\ usLast \in [Accounts -> [profile : Nat, metadata : Nat]] /\ usUnchecked \subseteq Accounts

\* The copies a call will still drop because of what it wrote itself.
DropsUser(c, a) == c.at = "dropUser" /\ c.of = a
DropsList(c, t) ==
    \/ c.at \in {"dropUser", "dropAllLists", "bulk"}
    \/ c.at = "dropLists" /\ t \in DroppedTenants(c)
DropsStats(c, t) ==
    \/ c.at = "bulk"
    \/ /\ c.at \in {"dropLists", "dropStats"} \/ (c.at \in {"dropUser", "dropAllLists"} /\ c.kind = "delete")
       /\ t \in DroppedTenants(c)

UserCopied(a) ==
    \/ usUser[a] \in {AbsentUser, usRow[a]} \/ UserKey(a) \in usLate
    \/ \E r \in UserCalls : DropsUser(usCall[r], a)
ListCopied(t) ==
    \/ usList[t] = NoList \/ (\E n \in PageSizes : usList[t] = FirstPage(t, n)) \/ ListKeyOf(t) \in usLate
    \/ \E r \in UserCalls : DropsList(usCall[r], t)
StatsCopied(t) ==
    \/ usStats[t] \in {NoStats, [total |-> CountUsers(t), roles |-> CountUsers(t)]} \/ StatsKey(t) \in usLate
    \/ \E r \in UserCalls : DropsStats(usCall[r], t)

\* Nobody whose row was checked has the address.
NobodyHas(a) == \A b \in Accounts \ usUnchecked : usRow[b].state = "live" => ~SameEmail(b, a)
UserCallOK(c) ==
    /\ c.at \in {"cachedList", "list", "fillList"} => c.size \in PageSizes
    /\ c.at = "bulk" => c.kind = "bulk" /\ c.todo # {}
    /\ c.at = "dropUser" => c.kind \in {"update", "updateCurrent", "delete"}
    /\ c.at = "write" => c.row.state = "live"
    /\ c.at = "write" /\ ~c.overtaken =>
          /\ usRow[c.of].state # "none"
          /\ c.row.profile = usRow[c.of].profile /\ c.row.metadata = usRow[c.of].metadata
    /\ c.at = "insert" /\ ~c.overtaken => NobodyHas(c.of)

CopiesOK ==
    /\ \A a \in Accounts : UserCopied(a)
    /\ \A t \in AccountTenants : ListCopied(t) /\ StatsCopied(t)
RowsBegin == \A a \in Accounts : usRow[a].state = "none" => usRow[a] = AbsentUser

\* A field is the last one written, an address is its user's alone, for rows written with their checks; a call
\* about to write holds the row unless it was overtaken; and a copy is current or about to be dropped.
UsIInv ==
    /\ UsTypes /\ RowsBegin /\ \A r \in UserCalls : UserCallOK(usCall[r])
    /\ CopiesOK /\ EditsStay /\ EmailsApart

\* A page holds rows of users, and users are counted in naturals.
LEMMA PagesOfUsers ==
    ASSUME UsTypes, NEW t, NEW n
    PROVE  FirstPage(t, n) \in PageOfRows /\ CountUsers(t) \in Nat
<1>1. LiveIn(t) \subseteq Accounts /\ Listed(LiveIn(t), n) \subseteq Accounts
  BY DEF LiveIn, Listed
<1>2. FirstPage(t, n) \in [Listed(LiveIn(t), n) -> UserRow]
  BY <1>1 DEF FirstPage, UsTypes
<1>3. IsFiniteSet(LiveIn(t))
  BY <1>1, FS_Subset, UserServiceAssumption
<1>4. FirstPage(t, n) \in PageOfRows
  BY <1>1, <1>2 DEF PageOfRows
<1> QED BY <1>3, <1>4, FS_CardinalityType DEF CountUsers

LEMMA UserConstants ==
    /\ AbsentUser \in UserRow /\ NoList \in PageOfRows /\ NoStats \in [total : Int, roles : Int]
    /\ IdleUserCall \in UserCallType /\ IdleUserCall.at = "idle" /\ IdleUserCall.kind = "get"
    /\ IdleUserCall.tenant = "everybody" /\ AccountTenants \subseteq ListFilters
    /\ \A a \in Accounts : AccountTenant[a] \in AccountTenants /\ AccountTenant[a] # "everybody"
<1>1. AbsentUser \in UserRow
  BY UserServiceAssumption DEF AbsentUser, UserRow
<1>2. NoList \in [{} -> UserRow] /\ {} \in SUBSET Accounts
  BY DEF NoList
<1>3. NoList \in PageOfRows
  BY <1>2 DEF PageOfRows
<1>4. NoStats \in [total : Int, roles : Int]
  BY DEF NoStats
<1>5. (CHOOSE a \in Accounts : TRUE) \in Accounts
  BY UserServiceAssumption
<1>6. IdleUserCall \in UserCallType
  BY <1>1, <1>3, <1>4, <1>5 DEF IdleUserCall, UserCallType, UserPlaces, UserKinds, UserFields, ListFilters
<1>7. /\ IdleUserCall.at = "idle" /\ IdleUserCall.kind = "get" /\ IdleUserCall.tenant = "everybody"
      /\ AccountTenants \subseteq ListFilters
  BY DEF IdleUserCall, ListFilters
<1>8. \A a \in Accounts : AccountTenant[a] \in AccountTenants /\ AccountTenant[a] # "everybody"
  BY UserServiceAssumption DEF AccountTenants
<1> QED BY <1>1, <1>3, <1>4, <1>6, <1>7, <1>8

\* What a call of the user service is.
LEMMA UserCallFields ==
    ASSUME UsTypes, NEW r \in UserCalls
    PROVE  /\ usCall[r] \in UserCallType /\ usCall[r].at \in UserPlaces /\ usCall[r].kind \in UserKinds
           /\ usCall[r].of \in Accounts /\ usCall[r].tenant \in ListFilters /\ usCall[r].row \in UserRow
           /\ usCall[r].field \in UserFields /\ usCall[r].size \in Nat /\ usCall[r].list \in PageOfRows
           /\ usCall[r].stats \in [total : Int, roles : Int] /\ usCall[r].todo \in SUBSET Accounts
           /\ usCall[r].overtaken \in BOOLEAN
<1>1. usCall[r] \in UserCallType
  BY DEF UsTypes
<1>2. PICK c \in UserCallType : c = usCall[r]
  BY <1>1
<1> QED BY <1>2 DEF UserCallType

Dropping == {"dropUser", "dropAllLists", "dropLists", "dropStats", "bulk"}
SameDuty(c, d) == d.at = c.at /\ d.kind = c.kind /\ d.of = c.of

\* A copy stays current, or about to be dropped, when neither it nor its rows change.
LEMMA UserKept ==
    ASSUME NEW a, UserCopied(a), usUser'[a] = usUser[a], usRow'[a] = usRow[a],
           UserKey(a) \in usLate => UserKey(a) \in usLate',
           \A q \in UserCalls : DropsUser(usCall[q], a) => DropsUser(usCall'[q], a)
    PROVE  UserCopied(a)'
BY DEF UserCopied
LEMMA ListKept ==
    ASSUME NEW t, ListCopied(t), usList'[t] = usList[t], \A n \in PageSizes : FirstPage(t, n)' = FirstPage(t, n),
           ListKeyOf(t) \in usLate => ListKeyOf(t) \in usLate',
           \A q \in UserCalls : DropsList(usCall[q], t) => DropsList(usCall'[q], t)
    PROVE  ListCopied(t)'
BY DEF ListCopied
LEMMA StatsKept ==
    ASSUME NEW t, StatsCopied(t), usStats'[t] = usStats[t], CountUsers(t)' = CountUsers(t),
           StatsKey(t) \in usLate => StatsKey(t) \in usLate',
           \A q \in UserCalls : DropsStats(usCall[q], t) => DropsStats(usCall'[q], t)
    PROVE  StatsCopied(t)'
BY DEF StatsCopied

LEMMA DutiesKept ==
    ASSUME NEW q, SameDuty(usCall[q], usCall'[q]), NEW a, NEW t
    PROVE  /\ DropsUser(usCall[q], a) => DropsUser(usCall'[q], a)
           /\ DropsList(usCall[q], t) => DropsList(usCall'[q], t)
           /\ DropsStats(usCall[q], t) => DropsStats(usCall'[q], t)
BY DEF SameDuty, DropsUser, DropsList, DropsStats, DroppedTenants
LEMMA NoDuties ==
    ASSUME NEW c, c.at \notin Dropping, NEW a, NEW t
    PROVE  ~DropsUser(c, a) /\ ~DropsList(c, t) /\ ~DropsStats(c, t)
BY DEF Dropping, DropsUser, DropsList, DropsStats

\* What the rows of a tenant give depends on those rows.
LEMMA SameRows ==
    ASSUME NEW t, \A a \in Accounts : OfFilter(a, t) => usRow'[a] = usRow[a]
    PROVE  LiveIn(t)' = LiveIn(t) /\ CountUsers(t)' = CountUsers(t) /\ \A n : FirstPage(t, n)' = FirstPage(t, n)
<1>1. LiveIn(t)' = LiveIn(t)
  BY DEF LiveIn, OfFilter
<1>2. ASSUME NEW n PROVE FirstPage(t, n)' = FirstPage(t, n)
  <2>1. Listed(LiveIn(t)', n) = Listed(LiveIn(t), n)
    BY <1>1
  <2>2. \A a \in Listed(LiveIn(t), n) : usRow'[a] = usRow[a]
    BY DEF Listed, LiveIn
  <2> QED BY <2>1, <2>2 DEF FirstPage
<1> QED BY <1>1, <1>2 DEF CountUsers

\* One call moves.
LEMMA UserCallMoves ==
    ASSUME UsTypes, NEW r \in UserCalls, NEW c \in UserCallType, usCall' = [usCall EXCEPT ![r] = c]
    PROVE  /\ usCall' \in [UserCalls -> UserCallType] /\ usCall'[r] = c
           /\ \A q \in UserCalls \ {r} : usCall'[q] = usCall[q]
BY DEF UsTypes

\* No copy and no row changes, and the call that moves had nothing to drop.
LEMMA CopiesUntouched ==
    ASSUME UsTypes, CopiesOK, NEW r \in UserCalls, NEW c \in UserCallType, usCall' = [usCall EXCEPT ![r] = c],
           usCall[r].at \notin Dropping, UNCHANGED <<usRow, usUser, usList, usStats>>, usLate \subseteq usLate'
    PROVE  CopiesOK'
<1>1. \A q \in UserCalls \ {r} : usCall'[q] = usCall[q]
  BY UserCallMoves
<1>2. ASSUME NEW a, NEW t, NEW q \in UserCalls
      PROVE  /\ DropsUser(usCall[q], a) => DropsUser(usCall'[q], a)
             /\ DropsList(usCall[q], t) => DropsList(usCall'[q], t)
             /\ DropsStats(usCall[q], t) => DropsStats(usCall'[q], t)
  BY <1>1, NoDuties, Zenon
<1>3. ASSUME NEW a \in Accounts PROVE UserCopied(a)'
  <2>1. UserCopied(a)
    BY DEF CopiesOK
  <2> QED BY <1>2, <2>1, UserKept
<1>4. ASSUME NEW t \in AccountTenants PROVE ListCopied(t)' /\ StatsCopied(t)'
  <2>1. ListCopied(t) /\ StatsCopied(t)
    BY DEF CopiesOK
  <2>2. CountUsers(t)' = CountUsers(t) /\ \A n : FirstPage(t, n)' = FirstPage(t, n)
    BY SameRows
  <2>3. ListCopied(t)'
    BY <1>2, <2>1, <2>2, ListKept
  <2>4. StatsCopied(t)'
    BY <1>2, <2>1, <2>2, StatsKept
  <2> QED BY <2>3, <2>4
<1> QED BY <1>3, <1>4 DEF CopiesOK

\* A call moves and the rows stay.
LEMMA RowsUntouched ==
    ASSUME UsIInv, NEW r \in UserCalls, NEW c \in UserCallType, usCall' = [usCall EXCEPT ![r] = c], UserCallOK(c),
           UNCHANGED <<usRow, usLast, usUnchecked>>, usCalls' \in 0 .. MaxUserCalls,
           usUser' \in [Accounts -> UserRow], usList' \in [ListFilters -> PageOfRows],
           usStats' \in [ListFilters -> [total : Int, roles : Int]], CopiesOK'
    PROVE  UsIInv'
<1> USE DEF UsIInv
<1>1. /\ usCall' \in [UserCalls -> UserCallType] /\ usCall'[r] = c
      /\ \A q \in UserCalls \ {r} : usCall'[q] = usCall[q]
  BY UserCallMoves
<1>2. UsTypes'
  BY <1>1 DEF UsTypes
<1>3. ASSUME NEW d, UserCallOK(d) PROVE UserCallOK(d)'
  BY <1>3 DEF UserCallOK, NobodyHas, SameEmail
<1>4. ASSUME NEW q \in UserCalls PROVE UserCallOK(usCall[q])'
  <2>1. PICK d : d = usCall'[q]
    OBVIOUS
  <2>2. UserCallOK(d)
    BY <1>1, <2>1
  <2>3. UserCallOK(d)'
    BY <1>3, <2>2
  <2> QED BY <2>1, <2>3 DEF UserCallOK
<1>5. RowsBegin' /\ EditsStay' /\ EmailsApart'
  BY DEF RowsBegin, EditsStay, EmailsApart, SameEmail
<1> QED BY <1>2, <1>4, <1>5

LEMMA QuietMove ==
    ASSUME UsIInv, NEW r \in UserCalls, NEW c \in UserCallType, usCall' = [usCall EXCEPT ![r] = c], UserCallOK(c),
           usCall[r].at \notin Dropping, UNCHANGED <<usRow, usLast, usUnchecked>>, UNCHANGED usCaches,
           usCalls' \in 0 .. MaxUserCalls
    PROVE  UsIInv'
<1>1. UsTypes /\ CopiesOK
  BY DEF UsIInv
<1>2. UNCHANGED <<usRow, usUser, usList, usStats>> /\ usLate \subseteq usLate'
  BY DEF usCaches
<1>3. CopiesOK'
  BY <1>1, <1>2, CopiesUntouched
<1>4. /\ usUser' \in [Accounts -> UserRow] /\ usList' \in [ListFilters -> PageOfRows]
      /\ usStats' \in [ListFilters -> [total : Int, roles : Int]]
  BY <1>1, <1>2 DEF UsTypes
<1> QED BY <1>3, <1>4, RowsUntouched

\* A call at a place where it holds nothing.
Plain == {"idle", "cached", "find", "fill", "read", "email", "dropAllLists", "dropLists", "dropStats", "cachedStats",
          "total", "byRole", "fillStats"}
LEMMA PlainCalls ==
    ASSUME NEW c, c.at \in Plain
    PROVE  UserCallOK(c)
BY DEF UserCallOK, Plain
LEMMA CallGoesOn ==
    ASSUME UsTypes, NEW r \in UserCalls, NEW at \in UserPlaces, UserCallGoes(r, at)
    PROVE  \E c \in UserCallType : /\ c = [usCall[r] EXCEPT !.at = at] /\ c.at = at /\ c.kind = usCall[r].kind
                                   /\ c.of = usCall[r].of /\ c.size = usCall[r].size
                                   /\ usCall' = [usCall EXCEPT ![r] = c]
<1>1. PICK d \in UserCallType : d = usCall[r]
  BY UserCallFields
<1>2. [d EXCEPT !.at = at] \in UserCallType
  BY DEF UserCallType
<1>3. /\ [d EXCEPT !.at = at].at = at /\ [d EXCEPT !.at = at].kind = d.kind
      /\ [d EXCEPT !.at = at].of = d.of /\ [d EXCEPT !.at = at].size = d.size
  BY DEF UserCallType
<1>4. usCall' = [usCall EXCEPT ![r] = [d EXCEPT !.at = at]]
  BY <1>1 DEF UserCallGoes
<1> QED BY <1>1, <1>2, <1>3, <1>4

\* The two ways a quiet step of a call is taken most often.
LEMMA QuietEnd ==
    ASSUME UsIInv, NEW r \in UserCalls, CallEnds(r), usCall[r].at \notin Dropping,
           UNCHANGED <<usRow, usLast, usUnchecked>>, UNCHANGED usCaches, UNCHANGED usCalls
    PROVE  UsIInv'
<1>1. IdleUserCall \in UserCallType /\ IdleUserCall.at \in Plain
  BY UserConstants DEF Plain
<1>2. usCall' = [usCall EXCEPT ![r] = IdleUserCall]
  BY DEF CallEnds
<1>3. usCalls' \in 0 .. MaxUserCalls
  BY DEF UsIInv, UsTypes
<1> QED BY <1>1, <1>2, <1>3, PlainCalls, QuietMove
LEMMA QuietGo ==
    ASSUME UsIInv, NEW r \in UserCalls, NEW at \in Plain, UserCallGoes(r, at), usCall[r].at \notin Dropping,
           UNCHANGED <<usRow, usLast, usUnchecked>>, UNCHANGED usCaches, UNCHANGED usCalls
    PROVE  UsIInv'
<1>1. UsTypes /\ at \in UserPlaces
  BY DEF UsIInv, Plain, UserPlaces
<1>2. PICK c \in UserCallType : c.at = at /\ usCall' = [usCall EXCEPT ![r] = c]
  BY <1>1, CallGoesOn
<1>3. usCalls' \in 0 .. MaxUserCalls
  BY DEF UsIInv, UsTypes
<1>4. UserCallOK(c)
  BY <1>2, PlainCalls
<1> QED BY <1>2, <1>3, <1>4, QuietMove

LEMMA ArrivesKeeps ==
    ASSUME UsIInv, NEW r \in UserCalls, UserArrives(r)
    PROVE  UsIInv'
<1>1. PICK kind \in UserKinds, of \in Accounts, tenant \in ListFilters, field \in UserFields, size \in PageSizes :
          usCall' = [usCall EXCEPT ![r] = Request(kind, of, tenant, field, size)]
  BY DEF UserArrives
<1>2. PICK c : c = Request(kind, of, tenant, field, size)
  OBVIOUS
<1>3. UserHandler(kind) \in UserPlaces /\ UserHandler(kind) \notin {"dropUser", "write", "insert"}
  BY DEF UserHandler, UserPlaces, UserKinds
<1>3a. UserHandler(kind) = "bulk" => kind = "bulk"
  BY DEF UserHandler, UserKinds
<1>4. c \in UserCallType
  <2>1. PICK d \in UserCallType : d = IdleUserCall
    BY UserConstants
  <2>2. size \in Nat
    BY UserServiceAssumption
  <2> QED BY <1>2, <1>3, <2>1, <2>2 DEF UserCallType, Request
<1>5. UserCallOK(c)
  <2>1. c.at = UserHandler(kind) /\ c.kind = kind /\ c.size = size /\ c.todo = IF kind = "bulk" THEN Accounts ELSE {}
    <3>1. PICK d \in UserCallType : d = IdleUserCall
      BY UserConstants
    <3> QED BY <1>2, <3>1 DEF UserCallType, Request
  <2> QED BY <1>3, <1>3a, <2>1, UserServiceAssumption DEF UserCallOK
<1>6. /\ usCall[r].at \notin Dropping /\ UNCHANGED <<usRow, usLast, usUnchecked>> /\ UNCHANGED usCaches
      /\ usCalls < MaxUserCalls /\ usCalls' = usCalls + 1
  BY DEF UserArrives, CallAt, Dropping
<1>7. usCalls' \in 0 .. MaxUserCalls
  BY <1>6, UserServiceAssumption DEF UsIInv, UsTypes
<1>8. usCall' = [usCall EXCEPT ![r] = c]
  BY <1>1, <1>2
<1> QED BY <1>4, <1>5, <1>6, <1>7, <1>8, QuietMove

LEMMA CachedUserKeeps ==
    ASSUME UsIInv, NEW r \in UserCalls, GetCachedUser(r) \/ GetUserList(r) \/ GetCachedStats(r)
    PROVE  UsIInv'
<1>1. /\ UNCHANGED <<usRow, usLast, usUnchecked>> /\ UNCHANGED usCaches /\ UNCHANGED usCalls
      /\ usCall[r].at \in {"cached", "cachedList", "cachedStats"}
  BY DEF GetCachedUser, GetUserList, GetCachedStats, CallAt
<1>2. \/ CallEnds(r) \/ UserCallGoes(r, "find") \/ UserCallGoes(r, "read") \/ UserCallGoes(r, "total")
      \/ (usCall[r].at = "cachedList" /\ UserCallGoes(r, "list"))
  BY DEF GetCachedUser, GetUserList, GetCachedStats, AfterLookup, CallAt
<1>3. CASE CallEnds(r)
  BY <1>1, <1>3, QuietEnd DEF Dropping
<1>4. CASE \E at \in Plain : UserCallGoes(r, at)
  BY <1>1, <1>4, QuietGo DEF Dropping
<1>5. CASE usCall[r].at = "cachedList" /\ UserCallGoes(r, "list")
  <2>1. UsTypes /\ UserCallOK(usCall[r])
    BY DEF UsIInv
  <2>2. PICK c \in UserCallType : c.at = "list" /\ c.size = usCall[r].size /\ usCall' = [usCall EXCEPT ![r] = c]
    BY <1>5, <2>1, CallGoesOn DEF UserPlaces
  <2>3. UserCallOK(c)
    BY <1>5, <2>1, <2>2 DEF UserCallOK
  <2>4. usCalls' \in 0 .. MaxUserCalls
    BY <1>1, <2>1 DEF UsTypes
  <2> QED BY <1>1, <2>2, <2>3, <2>4, QuietMove DEF Dropping
<1> QED BY <1>2, <1>3, <1>4, <1>5 DEF Plain

\* FindUser and ReadUser: the row read is one to be copied, or the one to be written.
LEMMA FindKeeps ==
    ASSUME UsIInv, NEW r \in UserCalls, FindUser(r) \/ ReadUser(r)
    PROVE  UsIInv'
<1>1. /\ UNCHANGED <<usRow, usLast, usUnchecked>> /\ UNCHANGED usCaches /\ UNCHANGED usCalls
      /\ usCall[r].at \in {"find", "read"}
      /\ CallEnds(r) \/ FindByID(r, "fill") \/ FindByID(r, "write")
  BY DEF FindUser, ReadUser, CallAt
<1>2. CASE CallEnds(r)
  BY <1>1, <1>2, QuietEnd DEF Dropping
<1>3. ASSUME NEW at \in {"fill", "write"}, FindByID(r, at), ~CallEnds(r) PROVE UsIInv'
  <2>1. PICK d \in UserCallType : d = usCall[r]
    BY UserCallFields DEF UsIInv
  <2>2. PICK row \in UserRow : row = usRow[d.of]
    BY <2>1 DEF UsIInv, UsTypes, UserCallType
  <2>3. row.state = "live" /\ usCall' = [usCall EXCEPT ![r] = [d EXCEPT !.at = at, !.row = row, !.overtaken = FALSE]]
    BY <1>3, <2>1, <2>2 DEF FindByID
  <2>4. PICK c : c = [d EXCEPT !.at = at, !.row = row, !.overtaken = FALSE]
    OBVIOUS
  <2>5. c \in UserCallType /\ c.at = at /\ c.row = row /\ c.of = d.of
    BY <2>1, <2>2, <2>4 DEF UserCallType, UserPlaces
  <2>6. UserCallOK(c)
    BY <2>2, <2>3, <2>5 DEF UserCallOK
  <2>7. usCalls' \in 0 .. MaxUserCalls
    BY <1>1 DEF UsTypes, UsIInv
  <2> QED BY <1>1, <2>3, <2>4, <2>5, <2>6, <2>7, QuietMove DEF Dropping
<1> QED BY <1>1, <1>2, <1>3

\* FindByEmail: who goes on to insert has asked for the address, or marks that it could not.
LEMMA FindByEmailKeeps ==
    ASSUME UsIInv, NEW r \in UserCalls, FindByEmail(r)
    PROVE  UsIInv'
<1>1. /\ UNCHANGED <<usRow, usLast, usUnchecked>> /\ UNCHANGED usCaches /\ UNCHANGED usCalls
      /\ usCall[r].at = "email" /\ usCall[r].at \notin Dropping
  BY DEF FindByEmail, CallAt, Dropping
<1>2. usCalls' \in 0 .. MaxUserCalls
  BY <1>1 DEF UsTypes, UsIInv
<1>3. CASE CallEnds(r)
  BY <1>1, <1>3, QuietEnd
<1>4. CASE ~EmailTaken(usCall[r].of) /\ UserCallGoes(r, "insert")
  <2>1. PICK c \in UserCallType : c.at = "insert" /\ c.of = usCall[r].of /\ usCall' = [usCall EXCEPT ![r] = c]
    BY <1>4, CallGoesOn DEF UsIInv, UserPlaces
  <2>2. UserCallOK(c)
    BY <1>4, <2>1 DEF UserCallOK, NobodyHas, EmailTaken, SameEmail
  <2> QED BY <1>1, <1>2, <2>1, <2>2, QuietMove
<1>5. CASE usCall' = [usCall EXCEPT ![r].at = "insert", ![r].overtaken = TRUE]
  <2>1. PICK d \in UserCallType : d = usCall[r]
    BY UserCallFields DEF UsIInv
  <2>2. PICK c : c = [d EXCEPT !.at = "insert", !.overtaken = TRUE]
    OBVIOUS
  <2>3. c \in UserCallType /\ c.at = "insert" /\ c.overtaken
    BY <2>1, <2>2 DEF UserCallType, UserPlaces
  <2>4. UserCallOK(c)
    BY <2>3 DEF UserCallOK
  <2>5. usCall' = [usCall EXCEPT ![r] = c]
    BY <1>5, <2>1, <2>2 DEF UsIInv, UsTypes
  <2> QED BY <1>1, <1>2, <2>3, <2>4, <2>5, QuietMove
<1> QED BY <1>3, <1>4, <1>5 DEF FindByEmail

\* ListRows and GetStats: what was read is of the call alone.
LEMMA ListRowsKeeps ==
    ASSUME UsIInv, NEW r \in UserCalls, ListRows(r) \/ GetStats(r)
    PROVE  UsIInv'
<1>1. /\ UNCHANGED <<usRow, usLast, usUnchecked>> /\ UNCHANGED usCaches /\ UNCHANGED usCalls
      /\ usCall[r].at \in {"list", "total", "byRole"} /\ usCall[r].at \notin Dropping
  BY DEF ListRows, GetStats, CallAt, Dropping
<1>2. UsTypes /\ UserCallOK(usCall[r]) /\ usCalls' \in 0 .. MaxUserCalls
  BY <1>1 DEF UsIInv, UsTypes
<1>3. PICK d \in UserCallType : d = usCall[r]
  BY <1>2, UserCallFields
<1>4. CASE CallEnds(r)
  BY <1>1, <1>4, QuietEnd
<1>5. CASE /\ usCall[r].at = "list"
           /\ usCall' = [usCall EXCEPT ![r].at = "fillList", ![r].list = FirstPage(usCall[r].tenant, usCall[r].size)]
  <2>1. PICK page \in PageOfRows : page = FirstPage(d.tenant, d.size)
    BY <1>2, PagesOfUsers
  <2>2. PICK c : c = [d EXCEPT !.at = "fillList", !.list = page]
    OBVIOUS
  <2>3. c \in UserCallType /\ c.at = "fillList" /\ c.size = d.size
    BY <1>3, <2>1, <2>2 DEF UserCallType, UserPlaces
  <2>4. UserCallOK(c)
    BY <1>2, <1>3, <1>5, <2>3 DEF UserCallOK
  <2>5. usCall' = [usCall EXCEPT ![r] = c]
    BY <1>2, <1>3, <1>5, <2>1, <2>2 DEF UsTypes
  <2> QED BY <1>1, <1>2, <2>3, <2>4, <2>5, QuietMove
<1>6. ASSUME NEW at \in {"byRole", "fillStats"}, NEW n \in Nat,
             \/ usCall' = [usCall EXCEPT ![r].at = at, ![r].stats.total = n]
             \/ usCall' = [usCall EXCEPT ![r].at = at, ![r].stats.roles = n]
      PROVE  UsIInv'
  <2>1. PICK s \in [total : Int, roles : Int] : s = d.stats
    BY <1>3, <1>2, UserCallFields
  <2>2. PICK w \in [total : Int, roles : Int] :
           /\ w \in {[s EXCEPT !.total = n], [s EXCEPT !.roles = n]}
           /\ usCall' = [usCall EXCEPT ![r] = [d EXCEPT !.at = at, !.stats = w]]
    <3>1. [s EXCEPT !.total = n] \in [total : Int, roles : Int] /\ [s EXCEPT !.roles = n] \in [total : Int, roles : Int]
      OBVIOUS
    <3> QED BY <1>2, <1>3, <1>6, <2>1, <3>1 DEF UsTypes, UserCallType
  <2>3. PICK c : c = [d EXCEPT !.at = at, !.stats = w]
    OBVIOUS
  <2>4. c \in UserCallType /\ c.at = at
    BY <1>3, <2>2, <2>3 DEF UserCallType, UserPlaces
  <2>5. UserCallOK(c)
    BY <2>4, PlainCalls DEF Plain
  <2> QED BY <1>1, <1>2, <2>2, <2>3, <2>4, <2>5, QuietMove
<1>7. CountUsers(usCall[r].tenant) \in Nat
  BY <1>2, PagesOfUsers
<1> QED BY <1>4, <1>5, <1>6, <1>7 DEF ListRows, GetStats, CallAt

LEMMA KeysDiffer ==
    /\ \A a, b : UserKey(a) = UserKey(b) => a = b
    /\ \A t, u : (ListKeyOf(t) = ListKeyOf(u) \/ StatsKey(t) = StatsKey(u)) => t = u
    /\ \A a, t, u : UserKey(a) # ListKeyOf(t) /\ UserKey(a) # StatsKey(t) /\ ListKeyOf(t) # StatsKey(u)
BY DEF UserKey, ListKeyOf, StatsKey

LEMMA DutiesOfOthers ==
    ASSUME UsTypes, NEW r \in UserCalls, NEW c \in UserCallType, usCall' = [usCall EXCEPT ![r] = c],
           usCall[r].at \notin Dropping, NEW a, NEW t, NEW q \in UserCalls
    PROVE  /\ DropsUser(usCall[q], a) => DropsUser(usCall'[q], a)
           /\ DropsList(usCall[q], t) => DropsList(usCall'[q], t)
           /\ DropsStats(usCall[q], t) => DropsStats(usCall'[q], t)
<1>1. \A p \in UserCalls \ {r} : usCall'[p] = usCall[p]
  BY UserCallMoves
<1> QED BY <1>1, NoDuties, Zenon

\* Where a call goes when it has looked the user up.
LEMMA LookedUp ==
    ASSUME UsTypes, NEW r \in UserCalls, AfterLookup(r) \/ CallEnds(r)
    PROVE  \E c \in UserCallType : c.at \in Plain /\ usCall' = [usCall EXCEPT ![r] = c]
<1>1. CASE CallEnds(r)
  BY <1>1, UserConstants DEF CallEnds, Plain
<1>2. CASE UserCallGoes(r, "read")
  <2>1. PICK c \in UserCallType : c.at = "read" /\ usCall' = [usCall EXCEPT ![r] = c]
    BY <1>2, CallGoesOn DEF UserPlaces
  <2> QED BY <2>1 DEF Plain
<1> QED BY <1>1, <1>2 DEF AfterLookup

\* SetUser, SetUserList, SetStats: what is stored is current, or it is late.
LEMMA FillsKeep ==
    ASSUME UsIInv, NEW r \in UserCalls, SetUser(r) \/ SetUserList(r) \/ SetStats(r)
    PROVE  UsIInv'
<1>1. /\ UNCHANGED <<usRow, usLast, usUnchecked>> /\ UNCHANGED usCalls
      /\ usCall[r].at \in {"fill", "fillList", "fillStats"} /\ usCall[r].at \notin Dropping
      /\ AfterLookup(r) \/ CallEnds(r)
  BY DEF SetUser, SetUserList, SetStats, CallAt, Dropping
<1>2. UsTypes /\ CopiesOK /\ UserCallOK(usCall[r]) /\ usCalls' \in 0 .. MaxUserCalls
  BY <1>1 DEF UsIInv, UsTypes
<1>3. PICK c \in UserCallType : c.at \in Plain /\ usCall' = [usCall EXCEPT ![r] = c]
  BY <1>1, <1>2, LookedUp
<1>4. UserCallOK(c)
  BY <1>3, PlainCalls
<1>5. CASE UNCHANGED usCaches
  BY <1>1, <1>2, <1>3, <1>4, <1>5, QuietMove
<1>6. PICK d \in UserCallType : d = usCall[r]
  BY <1>2, UserCallFields
<1>7. ASSUME NEW t PROVE CountUsers(t)' = CountUsers(t) /\ \A n : FirstPage(t, n)' = FirstPage(t, n)
  BY <1>1, SameRows
<1>8. ASSUME NEW a, NEW t, NEW q \in UserCalls
      PROVE  /\ DropsUser(usCall[q], a) => DropsUser(usCall'[q], a)
             /\ DropsList(usCall[q], t) => DropsList(usCall'[q], t)
             /\ DropsStats(usCall[q], t) => DropsStats(usCall'[q], t)
  BY <1>1, <1>2, <1>3, DutiesOfOthers
<1>9. CASE /\ d.at = "fill" /\ usUser' = [usUser EXCEPT ![d.of] = d.row]
           /\ Fills(UserKey(d.of), d.row = usRow[d.of]) /\ UNCHANGED <<usList, usStats>>
  <2>1. d.of \in Accounts /\ d.row \in UserRow
    BY <1>6 DEF UserCallType
  <2>2. usUser' \in [Accounts -> UserRow] /\ usUser'[d.of] = d.row /\ \A a \in Accounts \ {d.of} : usUser'[a] = usUser[a]
    BY <1>2, <1>9, <2>1 DEF UsTypes
  <2>3. /\ d.row = usRow[d.of] \/ UserKey(d.of) \in usLate'
        /\ \A key \in usLate : key # UserKey(d.of) => key \in usLate'
    BY <1>9 DEF Fills
  <2>4. ASSUME NEW a \in Accounts PROVE UserCopied(a)'
    <3>1. CASE a = d.of
      BY <1>1, <2>2, <2>3, <3>1 DEF UserCopied
    <3>2. CASE a # d.of
      <4>1. UserCopied(a) /\ usUser'[a] = usUser[a] /\ usRow'[a] = usRow[a]
        BY <1>1, <1>2, <2>2, <3>2 DEF CopiesOK
      <4>2. UserKey(a) \in usLate => UserKey(a) \in usLate'
        BY <2>3, <3>2, KeysDiffer
      <4> QED BY <1>8, <4>1, <4>2, UserKept
    <3> QED BY <3>1, <3>2
  <2>5. ASSUME NEW t \in AccountTenants PROVE ListCopied(t)' /\ StatsCopied(t)'
    <3>1. ListCopied(t) /\ StatsCopied(t) /\ usList'[t] = usList[t] /\ usStats'[t] = usStats[t]
      BY <1>2, <1>9 DEF CopiesOK
    <3>2. /\ ListKeyOf(t) \in usLate => ListKeyOf(t) \in usLate'
          /\ StatsKey(t) \in usLate => StatsKey(t) \in usLate'
      BY <2>3, KeysDiffer
    <3>3. ListCopied(t)'
      BY <1>7, <1>8, <3>1, <3>2, ListKept
    <3>4. StatsCopied(t)'
      BY <1>7, <1>8, <3>1, <3>2, StatsKept
    <3> QED BY <3>3, <3>4
  <2>6. CopiesOK'
    BY <2>4, <2>5 DEF CopiesOK
  <2>7. usList' \in [ListFilters -> PageOfRows] /\ usStats' \in [ListFilters -> [total : Int, roles : Int]]
    BY <1>2, <1>9 DEF UsTypes
  <2> QED BY <1>1, <1>2, <1>3, <1>4, <2>2, <2>6, <2>7, RowsUntouched
<1>10. CASE /\ d.at = "fillList" /\ usList' = [usList EXCEPT ![d.tenant] = d.list]
            /\ Fills(ListKeyOf(d.tenant), d.list = FirstPage(d.tenant, d.size)) /\ UNCHANGED <<usUser, usStats>>
  <2>1. d.tenant \in ListFilters /\ d.list \in PageOfRows /\ d.size \in PageSizes
    BY <1>2, <1>6, <1>10 DEF UserCallType, UserCallOK
  <2>2. /\ usList' \in [ListFilters -> PageOfRows] /\ usList'[d.tenant] = d.list
        /\ \A t \in ListFilters \ {d.tenant} : usList'[t] = usList[t]
    BY <1>2, <1>10, <2>1 DEF UsTypes
  <2>3. /\ d.list = FirstPage(d.tenant, d.size) \/ ListKeyOf(d.tenant) \in usLate'
        /\ \A key \in usLate : key # ListKeyOf(d.tenant) => key \in usLate'
    BY <1>10 DEF Fills
  <2>4. ASSUME NEW a \in Accounts PROVE UserCopied(a)'
    <3>1. UserCopied(a) /\ usUser'[a] = usUser[a] /\ usRow'[a] = usRow[a]
      BY <1>1, <1>2, <1>10 DEF CopiesOK
    <3>2. UserKey(a) \in usLate => UserKey(a) \in usLate'
      BY <2>3, KeysDiffer
    <3> QED BY <1>8, <3>1, <3>2, UserKept
  <2>5. ASSUME NEW t \in AccountTenants PROVE ListCopied(t)'
    <3>1. CASE t = d.tenant
      <4>1. FirstPage(t, d.size)' = FirstPage(t, d.size)
        BY <1>7
      <4>2. usList'[t] = FirstPage(t, d.size)' \/ ListKeyOf(t) \in usLate'
        BY <2>2, <2>3, <3>1, <4>1
      <4> QED BY <2>1, <4>2 DEF ListCopied
    <3>2. CASE t # d.tenant
      <4>1. ListCopied(t) /\ usList'[t] = usList[t]
        BY <1>2, <2>2, <3>2, UserConstants DEF CopiesOK
      <4>2. ListKeyOf(t) \in usLate => ListKeyOf(t) \in usLate'
        BY <2>3, <3>2, KeysDiffer
      <4> QED BY <1>7, <1>8, <4>1, <4>2, ListKept
    <3> QED BY <3>1, <3>2
  <2>6. ASSUME NEW t \in AccountTenants PROVE StatsCopied(t)'
    <3>1. StatsCopied(t) /\ usStats'[t] = usStats[t]
      BY <1>2, <1>10 DEF CopiesOK
    <3>2. StatsKey(t) \in usLate => StatsKey(t) \in usLate'
      BY <2>3, KeysDiffer
    <3> QED BY <1>7, <1>8, <3>1, <3>2, StatsKept
  <2>7. CopiesOK'
    BY <2>4, <2>5, <2>6 DEF CopiesOK
  <2>8. usUser' \in [Accounts -> UserRow] /\ usStats' \in [ListFilters -> [total : Int, roles : Int]]
    BY <1>2, <1>10 DEF UsTypes
  <2> QED BY <1>1, <1>2, <1>3, <1>4, <2>2, <2>7, <2>8, RowsUntouched
<1>11. CASE /\ d.at = "fillStats" /\ usStats' = [usStats EXCEPT ![d.tenant] = d.stats]
            /\ Fills(StatsKey(d.tenant), d.stats = [total |-> CountUsers(d.tenant), roles |-> CountUsers(d.tenant)])
            /\ UNCHANGED <<usUser, usList>>
  <2>1. d.tenant \in ListFilters /\ d.stats \in [total : Int, roles : Int]
    BY <1>6 DEF UserCallType
  <2>2. /\ usStats' \in [ListFilters -> [total : Int, roles : Int]] /\ usStats'[d.tenant] = d.stats
        /\ \A t \in ListFilters \ {d.tenant} : usStats'[t] = usStats[t]
    BY <1>2, <1>11, <2>1 DEF UsTypes
  <2>3. /\ d.stats = [total |-> CountUsers(d.tenant), roles |-> CountUsers(d.tenant)] \/ StatsKey(d.tenant) \in usLate'
        /\ \A key \in usLate : key # StatsKey(d.tenant) => key \in usLate'
    BY <1>11 DEF Fills
  <2>4. ASSUME NEW a \in Accounts PROVE UserCopied(a)'
    <3>1. UserCopied(a) /\ usUser'[a] = usUser[a] /\ usRow'[a] = usRow[a]
      BY <1>1, <1>2, <1>11 DEF CopiesOK
    <3>2. UserKey(a) \in usLate => UserKey(a) \in usLate'
      BY <2>3, KeysDiffer
    <3> QED BY <1>8, <3>1, <3>2, UserKept
  <2>5. ASSUME NEW t \in AccountTenants PROVE StatsCopied(t)'
    <3>1. CASE t = d.tenant
      <4>1. CountUsers(t)' = CountUsers(t)
        BY <1>7
      <4>2. usStats'[t] = [total |-> CountUsers(t)', roles |-> CountUsers(t)'] \/ StatsKey(t) \in usLate'
        BY <2>2, <2>3, <3>1, <4>1
      <4> QED BY <4>2 DEF StatsCopied
    <3>2. CASE t # d.tenant
      <4>1. StatsCopied(t) /\ usStats'[t] = usStats[t]
        BY <1>2, <2>2, <3>2, UserConstants DEF CopiesOK
      <4>2. StatsKey(t) \in usLate => StatsKey(t) \in usLate'
        BY <2>3, <3>2, KeysDiffer
      <4> QED BY <1>7, <1>8, <4>1, <4>2, StatsKept
    <3> QED BY <3>1, <3>2
  <2>6. ASSUME NEW t \in AccountTenants PROVE ListCopied(t)'
    <3>1. ListCopied(t) /\ usList'[t] = usList[t]
      BY <1>2, <1>11 DEF CopiesOK
    <3>2. ListKeyOf(t) \in usLate => ListKeyOf(t) \in usLate'
      BY <2>3, KeysDiffer
    <3> QED BY <1>7, <1>8, <3>1, <3>2, ListKept
  <2>7. CopiesOK'
    BY <2>4, <2>5, <2>6 DEF CopiesOK
  <2>8. usUser' \in [Accounts -> UserRow] /\ usList' \in [ListFilters -> PageOfRows]
    BY <1>2, <1>11 DEF UsTypes
  <2> QED BY <1>1, <1>2, <1>3, <1>4, <2>2, <2>7, <2>8, RowsUntouched
<1> QED
  <2>1. CASE SetUser(r)
    BY <1>5, <1>6, <1>9, <2>1 DEF SetUser, CallAt, usCaches
  <2>2. CASE SetUserList(r)
    BY <1>5, <1>6, <1>10, <2>2 DEF SetUserList, CallAt, usCaches
  <2>3. CASE SetStats(r)
    BY <1>5, <1>6, <1>11, <2>3 DEF SetStats, CallAt, usCaches
  <2> QED BY <2>1, <2>2, <2>3

\* The next place of a call that drops copies.
LEMMA DroppingGoesOn ==
    ASSUME UsIInv, NEW r \in UserCalls, DropUser(r) \/ InvalidateUserCache(r) \/ InvalidateTenantCache(r)
    PROVE  \E c \in UserCallType :
              /\ usCall' = [usCall EXCEPT ![r] = c] /\ c.at \in Plain
              /\ \/ CallEnds(r) /\ c.at = "idle"
                 \/ /\ c.kind = usCall[r].kind /\ c.of = usCall[r].of
                    /\ \/ UserCallGoes(r, "dropAllLists") /\ c.at = "dropAllLists"
                       \/ UserCallGoes(r, "dropLists") /\ c.at = "dropLists"
                       \/ UserCallGoes(r, "dropStats") /\ c.at = "dropStats"
<1>1. \/ CallEnds(r) \/ UserCallGoes(r, "dropAllLists") \/ UserCallGoes(r, "dropLists") \/ UserCallGoes(r, "dropStats")
  BY DEF DropUser, InvalidateUserCache, InvalidateTenantCache
<1>2. CASE CallEnds(r)
  BY <1>2, UserConstants DEF CallEnds, Plain
<1>3. ASSUME NEW at \in {"dropAllLists", "dropLists", "dropStats"}, UserCallGoes(r, at)
      PROVE  \E c \in UserCallType : /\ usCall' = [usCall EXCEPT ![r] = c] /\ c.at = at
                                     /\ c.kind = usCall[r].kind /\ c.of = usCall[r].of
  BY <1>3, CallGoesOn DEF UsIInv, UserPlaces
<1> QED BY <1>1, <1>2, <1>3 DEF Plain

\* A copy is dropped in a call only for a reason that lasts until it is dropped, or its key is late.
LEMMA DropUserKeeps ==
    ASSUME UsIInv, NEW r \in UserCalls, DropUser(r)
    PROVE  UsIInv'
<1>1. /\ UNCHANGED <<usRow, usLast, usUnchecked, usList, usStats>> /\ UNCHANGED usCalls /\ usCall[r].at = "dropUser"
  BY DEF DropUser, CallAt
<1>2. UsTypes /\ CopiesOK /\ usCalls' \in 0 .. MaxUserCalls
  BY <1>1 DEF UsIInv, UsTypes
<1>3. PICK c \in UserCallType :
              /\ usCall' = [usCall EXCEPT ![r] = c] /\ c.at \in Plain
              /\ \/ CallEnds(r) /\ c.at = "idle"
                 \/ /\ c.kind = usCall[r].kind /\ c.of = usCall[r].of
                    /\ \/ UserCallGoes(r, "dropAllLists") /\ c.at = "dropAllLists"
                       \/ UserCallGoes(r, "dropLists") /\ c.at = "dropLists"
                       \/ UserCallGoes(r, "dropStats") /\ c.at = "dropStats"
  BY DroppingGoesOn
<1>4. usCall'[r] = c /\ \A q \in UserCalls \ {r} : usCall'[q] = usCall[q]
  BY <1>2, <1>3, UserCallMoves
<1>5. UserCallOK(c)
  BY <1>3, PlainCalls
<1>6. PICK a \in Accounts : a = usCall[r].of
  BY <1>2, UserCallFields
<1>7. ASSUME NEW t PROVE CountUsers(t)' = CountUsers(t) /\ \A n : FirstPage(t, n)' = FirstPage(t, n)
  BY <1>1, SameRows
<1>8. /\ usUser' \in [Accounts -> UserRow] /\ \A b \in Accounts : b # a => usUser'[b] = usUser[b]
      /\ usUser'[a] = AbsentUser \/ UserKey(a) \in usLate'
      /\ \A key \in usLate : key # UserKey(a) => key \in usLate'
  BY <1>2, <1>6, UserConstants DEF DropUser, UsTypes
<1>9. ASSUME NEW b \in Accounts PROVE UserCopied(b)'
  <2>1. CASE b = a
    BY <1>8, <2>1 DEF UserCopied
  <2>2. CASE b # a
    <3>1. UserCopied(b) /\ usUser'[b] = usUser[b] /\ usRow'[b] = usRow[b]
      BY <1>1, <1>2, <1>8, <2>2 DEF CopiesOK
    <3>2. UserKey(b) \in usLate => UserKey(b) \in usLate'
      BY <1>8, <2>2, KeysDiffer
    <3>3. \A q \in UserCalls : DropsUser(usCall[q], b) => DropsUser(usCall'[q], b)
      BY <1>4, <1>6, <2>2 DEF DropsUser
    <3> QED BY <3>1, <3>2, <3>3, UserKept
  <2> QED BY <2>1, <2>2
<1>10. \A t \in AccountTenants : ListKeyOf(t) \in usLate' \/ c.at = "dropAllLists"
  <2>1. CASE UserCallGoes(r, "dropAllLists")
    <3>1. usCall'[r].at = "dropAllLists"
      BY <1>2, <2>1, CallGoesOn, UserCallMoves DEF UserPlaces
    <3> QED BY <1>4, <3>1
  <2> QED BY <2>1 DEF DropUser
<1>11. usCall[r].kind = "delete" => c.at \in {"dropAllLists", "dropLists"} /\ c.kind = "delete" /\ c.of = usCall[r].of
  <2>1. usCall[r].kind = "delete" => UserCallGoes(r, "dropAllLists") \/ UserCallGoes(r, "dropLists")
    BY DEF DropUser
  <2>2. UserCallGoes(r, "dropAllLists") => usCall'[r].at = "dropAllLists" /\ usCall'[r].kind = usCall[r].kind /\ usCall'[r].of = usCall[r].of
    BY <1>2, CallGoesOn, UserCallMoves DEF UserPlaces
  <2>3. UserCallGoes(r, "dropLists") => usCall'[r].at = "dropLists" /\ usCall'[r].kind = usCall[r].kind /\ usCall'[r].of = usCall[r].of
    BY <1>2, CallGoesOn, UserCallMoves DEF UserPlaces
  <2> QED BY <1>4, <2>1, <2>2, <2>3
<1>12. ASSUME NEW t \in AccountTenants PROVE ListCopied(t)' /\ StatsCopied(t)'
  <2>1. ListCopied(t) /\ StatsCopied(t) /\ usList'[t] = usList[t] /\ usStats'[t] = usStats[t]
    BY <1>1, <1>2 DEF CopiesOK
  <2>2. ASSUME ListKeyOf(t) \in usLate' PROVE ListCopied(t)'
    BY <2>2 DEF ListCopied
  <2>3. ASSUME c.at = "dropAllLists" PROVE ListCopied(t)'
    <3>1. DropsList(usCall'[r], t)
      BY <1>4, <2>3 DEF DropsList
    <3> QED BY <3>1 DEF ListCopied
  <2>4. StatsCopied(t)'
    <3>1. StatsKey(t) \in usLate => StatsKey(t) \in usLate'
      BY <1>8, KeysDiffer
    <3>2. \A q \in UserCalls : DropsStats(usCall[q], t) => DropsStats(usCall'[q], t)
      BY <1>1, <1>4, <1>11 DEF DropsStats, DroppedTenants
    <3> QED BY <1>7, <2>1, <3>1, <3>2, StatsKept
  <2> QED BY <1>10, <2>2, <2>3, <2>4
<1>13. CopiesOK'
  BY <1>9, <1>12 DEF CopiesOK
<1>14. usList' \in [ListFilters -> PageOfRows] /\ usStats' \in [ListFilters -> [total : Int, roles : Int]]
  BY <1>1, <1>2 DEF UsTypes
<1> QED BY <1>1, <1>2, <1>3, <1>5, <1>8, <1>13, <1>14, RowsUntouched

LEMMA DropAllListsKeeps ==
    ASSUME UsIInv, NEW r \in UserCalls, InvalidateUserCache(r)
    PROVE  UsIInv'
<1>1. /\ UNCHANGED <<usRow, usLast, usUnchecked, usUser, usStats>> /\ UNCHANGED usCalls /\ usCall[r].at = "dropAllLists"
  BY DEF InvalidateUserCache, CallAt
<1>2. UsTypes /\ CopiesOK /\ usCalls' \in 0 .. MaxUserCalls
  BY <1>1 DEF UsIInv, UsTypes
<1>3. PICK c \in UserCallType : usCall' = [usCall EXCEPT ![r] = c] /\ c.at \in Plain
  BY DroppingGoesOn
<1>4. usCall'[r] = c /\ \A q \in UserCalls \ {r} : usCall'[q] = usCall[q]
  BY <1>2, <1>3, UserCallMoves
<1>5. UserCallOK(c)
  BY <1>3, PlainCalls
<1>6. /\ usList' \in [ListFilters -> PageOfRows]
      /\ \A t \in AccountTenants : usList'[t] = NoList \/ ListKeyOf(t) \in usLate'
      /\ \A key \in usLate : (\A t : key # ListKeyOf(t)) => key \in usLate'
  BY <1>2, UserConstants DEF InvalidateUserCache, UsTypes
<1>7. usCall[r].kind = "delete" => c.at = "dropLists" /\ c.kind = "delete" /\ c.of = usCall[r].of
  <2>1. usCall[r].kind = "delete" => UserCallGoes(r, "dropLists")
    BY DEF InvalidateUserCache
  <2>2. UserCallGoes(r, "dropLists") => usCall'[r].at = "dropLists" /\ usCall'[r].kind = usCall[r].kind /\ usCall'[r].of = usCall[r].of
    BY <1>2, CallGoesOn, UserCallMoves DEF UserPlaces
  <2> QED BY <1>4, <2>1, <2>2
<1>8. ASSUME NEW a \in Accounts PROVE UserCopied(a)'
  <2>1. UserCopied(a) /\ usUser'[a] = usUser[a] /\ usRow'[a] = usRow[a]
    BY <1>1, <1>2 DEF CopiesOK
  <2>2. UserKey(a) \in usLate => UserKey(a) \in usLate'
    BY <1>6, KeysDiffer
  <2>3. \A q \in UserCalls : DropsUser(usCall[q], a) => DropsUser(usCall'[q], a)
    BY <1>1, <1>4 DEF DropsUser
  <2> QED BY <2>1, <2>2, <2>3, UserKept
<1>9. ASSUME NEW t \in AccountTenants PROVE ListCopied(t)' /\ StatsCopied(t)'
  <2>1. StatsCopied(t) /\ usStats'[t] = usStats[t]
    BY <1>1, <1>2 DEF CopiesOK
  <2>2. StatsKey(t) \in usLate => StatsKey(t) \in usLate'
    BY <1>6, KeysDiffer
  <2>3. \A q \in UserCalls : DropsStats(usCall[q], t) => DropsStats(usCall'[q], t)
    BY <1>1, <1>4, <1>7 DEF DropsStats, DroppedTenants
  <2>4. CountUsers(t)' = CountUsers(t)
    BY <1>1, SameRows
  <2>5. StatsCopied(t)'
    BY <2>1, <2>2, <2>3, <2>4, StatsKept
  <2> QED BY <1>6, <2>5 DEF ListCopied
<1>10. CopiesOK'
  BY <1>8, <1>9 DEF CopiesOK
<1>11. usUser' \in [Accounts -> UserRow] /\ usStats' \in [ListFilters -> [total : Int, roles : Int]]
  BY <1>1, <1>2 DEF UsTypes
<1> QED BY <1>1, <1>2, <1>3, <1>5, <1>6, <1>10, <1>11, RowsUntouched

LEMMA DropTenantKeeps ==
    ASSUME UsIInv, NEW r \in UserCalls, InvalidateTenantCache(r)
    PROVE  UsIInv'
<1>1. /\ UNCHANGED <<usRow, usLast, usUnchecked, usUser>> /\ UNCHANGED usCalls
      /\ usCall[r].at \in {"dropLists", "dropStats"}
  BY DEF InvalidateTenantCache, CallAt
<1>2. UsTypes /\ CopiesOK /\ usCalls' \in 0 .. MaxUserCalls
  BY <1>1 DEF UsIInv, UsTypes
<1>3. PICK c \in UserCallType : usCall' = [usCall EXCEPT ![r] = c] /\ c.at \in Plain
  BY DroppingGoesOn
<1>4. usCall'[r] = c /\ \A q \in UserCalls \ {r} : usCall'[q] = usCall[q]
  BY <1>2, <1>3, UserCallMoves
<1>5. UserCallOK(c)
  BY <1>3, PlainCalls
<1>6. PICK ts : ts = DroppedTenants(usCall[r])
  OBVIOUS
<1>7. /\ usList' \in [ListFilters -> PageOfRows] /\ usStats' \in [ListFilters -> [total : Int, roles : Int]]
      /\ \A t \in ListFilters : t \notin ts => usList'[t] = usList[t] /\ usStats'[t] = usStats[t]
  BY <1>2, <1>6, UserConstants DEF InvalidateTenantCache, UsTypes
<1>8. \A key \in usLate : (\A t \in ts : key # ListKeyOf(t) /\ key # StatsKey(t)) => key \in usLate'
  BY <1>6 DEF InvalidateTenantCache
<1>9. ASSUME NEW a \in Accounts PROVE UserCopied(a)'
  <2>1. UserCopied(a) /\ usUser'[a] = usUser[a] /\ usRow'[a] = usRow[a]
    BY <1>1, <1>2 DEF CopiesOK
  <2>2. UserKey(a) \in usLate => UserKey(a) \in usLate'
    BY <1>8, KeysDiffer
  <2>3. \A q \in UserCalls : DropsUser(usCall[q], a) => DropsUser(usCall'[q], a)
    BY <1>1, <1>4 DEF DropsUser
  <2> QED BY <2>1, <2>2, <2>3, UserKept
<1>10. ASSUME NEW t, CountUsers(t)' = CountUsers(t), \A n : FirstPage(t, n)' = FirstPage(t, n),
              t \in AccountTenants, t \notin ts
       PROVE  ListCopied(t)' /\ StatsCopied(t)'
  <2>1. /\ ListCopied(t) /\ StatsCopied(t) /\ usList'[t] = usList[t] /\ usStats'[t] = usStats[t]
    BY <1>2, <1>7, <1>10, UserConstants DEF CopiesOK
  <2>2. /\ ListKeyOf(t) \in usLate => ListKeyOf(t) \in usLate'
        /\ StatsKey(t) \in usLate => StatsKey(t) \in usLate'
    BY <1>8, <1>10, KeysDiffer
  <2>3. /\ \A q \in UserCalls : DropsList(usCall[q], t) => DropsList(usCall'[q], t)
        /\ \A q \in UserCalls : DropsStats(usCall[q], t) => DropsStats(usCall'[q], t)
    BY <1>1, <1>4, <1>6, <1>10 DEF DropsList, DropsStats
  <2>4. ListCopied(t)'
    BY <1>10, <2>1, <2>2, <2>3, ListKept
  <2>5. StatsCopied(t)'
    BY <1>10, <2>1, <2>2, <2>3, StatsKept
  <2> QED BY <2>4, <2>5
<1>11. ASSUME NEW t \in AccountTenants, t \in ts PROVE ListCopied(t)' /\ StatsCopied(t)'
  <2>0. CountUsers(t)' = CountUsers(t) /\ \A n : FirstPage(t, n)' = FirstPage(t, n) /\ t \in ListFilters
    BY <1>1, SameRows, UserConstants
  <2>1. CASE /\ usCall[r].at = "dropLists" /\ UserCallGoes(r, "dropStats") /\ UNCHANGED usStats
             /\ usList' = [u \in ListFilters |-> IF u \in ts THEN NoList ELSE usList[u]]
             /\ usLate' = usLate \ {ListKeyOf(u) : u \in ts}
    <3>1. usList'[t] = NoList
      BY <1>11, <2>0, <2>1
    <3>2. usCall'[r].at = "dropStats" /\ usCall'[r].kind = usCall[r].kind /\ usCall'[r].of = usCall[r].of
      BY <1>2, <2>1, CallGoesOn, UserCallMoves DEF UserPlaces
    <3>3. DropsStats(usCall'[r], t)
      BY <1>6, <1>11, <3>2 DEF DropsStats, DroppedTenants
    <3> QED BY <3>1, <3>3 DEF ListCopied, StatsCopied
  <2>2. CASE /\ usCall[r].at = "dropStats" /\ UNCHANGED usList
             /\ usStats' = [u \in ListFilters |-> IF u \in ts THEN NoStats ELSE usStats[u]]
             /\ usLate' = usLate \ {StatsKey(u) : u \in ts}
    <3>1. usStats'[t] = NoStats
      BY <1>11, <2>0, <2>2
    <3>2. ListCopied(t) /\ usList'[t] = usList[t]
      BY <1>2, <2>2 DEF CopiesOK
    <3>3. ListKeyOf(t) \in usLate => ListKeyOf(t) \in usLate'
      BY <2>2, KeysDiffer
    <3>4. \A q \in UserCalls : DropsList(usCall[q], t) => DropsList(usCall'[q], t)
      BY <1>4, <2>2 DEF DropsList
    <3>5. ListCopied(t)'
      BY <2>0, <3>2, <3>3, <3>4, ListKept
    <3> QED BY <3>1, <3>5 DEF StatsCopied
  <2>3. CASE usLate' = usLate \cup UNION {TenantKeys(u) : u \in ts}
    <3>1. ListKeyOf(t) \in usLate' /\ StatsKey(t) \in usLate'
      BY <1>11, <2>3 DEF TenantKeys
    <3> QED BY <3>1 DEF ListCopied, StatsCopied
  <2> QED BY <1>6, <2>1, <2>2, <2>3 DEF InvalidateTenantCache, CallAt
<1>12. ASSUME NEW t \in AccountTenants PROVE ListCopied(t)' /\ StatsCopied(t)'
  <2>1. CountUsers(t)' = CountUsers(t) /\ \A n : FirstPage(t, n)' = FirstPage(t, n)
    BY <1>1, SameRows
  <2> QED BY <1>10, <1>11, <2>1
<1>13. CopiesOK'
  BY <1>9, <1>12 DEF CopiesOK
<1>14. usUser' \in [Accounts -> UserRow]
  BY <1>1, <1>2 DEF UsTypes
<1> QED BY <1>1, <1>2, <1>3, <1>5, <1>7, <1>13, <1>14, RowsUntouched

\* A copy that expires takes no call anywhere.
LEMMA ExpiryKeeps ==
    ASSUME UsIInv, CopyExpires
    PROVE  UsIInv'
<1> USE DEF UsIInv
<1>1. UNCHANGED <<usRow, usLast, usUnchecked, usCalls, usCall>> /\ UNCHANGED usStats
  BY DEF CopyExpires
<1>2. /\ usUser' \in [Accounts -> UserRow] /\ usList' \in [ListFilters -> PageOfRows]
      /\ \A a \in Accounts : usUser'[a] = AbsentUser \/ (usUser'[a] = usUser[a] /\ (UserKey(a) \in usLate => UserKey(a) \in usLate'))
      /\ \A t \in ListFilters : usList'[t] = NoList \/ (usList'[t] = usList[t] /\ (ListKeyOf(t) \in usLate => ListKeyOf(t) \in usLate'))
      /\ \A t : StatsKey(t) \in usLate => StatsKey(t) \in usLate'
  <2>1. CASE /\ \E a \in Accounts : /\ usUser' = [usUser EXCEPT ![a] = AbsentUser]
                                    /\ usLate' = usLate \ {UserKey(a)}
             /\ UNCHANGED <<usList, usStats>>
    BY <2>1, UserConstants, KeysDiffer DEF UsTypes
  <2>2. CASE /\ \E t \in ListFilters : usList' = [usList EXCEPT ![t] = NoList] /\ usLate' = usLate \ {ListKeyOf(t)}
             /\ UNCHANGED <<usUser, usStats>>
    <3>1. PICK u \in ListFilters : usList' = [usList EXCEPT ![u] = NoList] /\ usLate' = usLate \ {ListKeyOf(u)}
      BY <2>2
    <3>2. usList' \in [ListFilters -> PageOfRows] /\ usUser' \in [Accounts -> UserRow] /\ NoList \in PageOfRows
      BY <2>2, <3>1, UserConstants DEF UsTypes
    <3>3. usList'[u] = NoList /\ \A t \in ListFilters \ {u} : usList'[t] = usList[t]
      BY <3>1 DEF UsTypes
    <3>4. \A key \in usLate : key # ListKeyOf(u) => key \in usLate'
      BY <3>1
    <3>5. \A t \in ListFilters \ {u} : ListKeyOf(t) # ListKeyOf(u)
      BY KeysDiffer
    <3>6. /\ \A a : UserKey(a) # ListKeyOf(u)
          /\ \A t : StatsKey(t) # ListKeyOf(u)
      BY KeysDiffer
    <3> QED BY <2>2, <3>2, <3>3, <3>4, <3>5, <3>6
  <2> QED BY <2>1, <2>2 DEF CopyExpires
<1>3. ASSUME NEW a \in Accounts PROVE UserCopied(a)'
  <2>1. UserCopied(a)
    BY DEF CopiesOK
  <2> QED BY <1>1, <1>2, <2>1 DEF UserCopied, DropsUser
<1>4. ASSUME NEW t \in AccountTenants PROVE ListCopied(t)' /\ StatsCopied(t)'
  <2>1. ListCopied(t) /\ StatsCopied(t) /\ t \in ListFilters
    BY UserConstants DEF CopiesOK
  <2>2. CountUsers(t)' = CountUsers(t) /\ \A n : FirstPage(t, n)' = FirstPage(t, n)
    BY <1>1, SameRows
  <2>3. /\ \A q \in UserCalls : DropsList(usCall[q], t) => DropsList(usCall'[q], t)
        /\ \A q \in UserCalls : DropsStats(usCall[q], t) => DropsStats(usCall'[q], t)
    BY <1>1
  <2>4. StatsCopied(t)'
    BY <1>1, <1>2, <2>1, <2>2, <2>3, StatsKept
  <2>5. CASE usList'[t] = NoList
    BY <2>4, <2>5 DEF ListCopied
  <2>6. CASE usList'[t] = usList[t] /\ (ListKeyOf(t) \in usLate => ListKeyOf(t) \in usLate')
    <3>1. ListCopied(t)'
      BY <2>1, <2>2, <2>3, <2>6, ListKept
    <3> QED BY <2>4, <3>1
  <2> QED BY <1>2, <2>1, <2>5, <2>6
<1>5. CopiesOK'
  BY <1>3, <1>4 DEF CopiesOK
<1>6. UsTypes'
  BY <1>1, <1>2 DEF UsTypes
<1>7. ASSUME NEW q \in UserCalls PROVE UserCallOK(usCall[q])'
  BY <1>1 DEF UserCallOK, NobodyHas, SameEmail
<1>8. RowsBegin' /\ EditsStay' /\ EmailsApart'
  BY <1>1 DEF RowsBegin, EditsStay, EmailsApart, SameEmail
<1> QED BY <1>5, <1>6, <1>7, <1>8

\* A write marks the calls it overtakes, and changes nothing else of them.
Marked(r, c, S) ==
    [q \in UserCalls |-> IF q = r THEN c ELSE IF q \in S THEN [usCall[q] EXCEPT !.overtaken = TRUE] ELSE usCall[q]]
LEMMA WriterMoves ==
    ASSUME UsTypes, NEW r \in UserCalls, NEW c \in UserCallType, NEW S,
           usCall' = Marked(r, c, S)
    PROVE  /\ usCall' \in [UserCalls -> UserCallType] /\ usCall'[r] = c
           /\ \A q \in UserCalls \ {r} : /\ SameDuty(usCall[q], usCall'[q])
                                         /\ q \notin S => usCall'[q] = usCall[q]
                                         /\ q \in S => usCall'[q] = [usCall[q] EXCEPT !.overtaken = TRUE]
<1>1. ASSUME NEW d \in UserCallType
      PROVE  [d EXCEPT !.overtaken = TRUE] \in UserCallType /\ SameDuty(d, [d EXCEPT !.overtaken = TRUE])
  BY DEF UserCallType, SameDuty
<1>2. \A q \in UserCalls : usCall[q] \in UserCallType /\ SameDuty(usCall[q], usCall[q])
  BY DEF UsTypes, SameDuty
<1> QED BY <1>1, <1>2 DEF Marked

\* Who was not overtaken still holds the row, and still has an address nobody has.
LEMMA BystanderKept ==
    ASSUME NEW d \in UserCallType, UserCallOK(d), NEW e \in {d, [d EXCEPT !.overtaken = TRUE]},
           d.at = "write" /\ ~e.overtaken /\ usRow[d.of].state # "none" =>
              usRow'[d.of].profile = usRow[d.of].profile /\ usRow'[d.of].metadata = usRow[d.of].metadata
              /\ usRow'[d.of].state # "none",
           d.at = "insert" /\ ~e.overtaken /\ NobodyHas(d.of) => NobodyHas(d.of)'
    PROVE  UserCallOK(e)'
<1>1. /\ e.at = d.at /\ e.kind = d.kind /\ e.of = d.of /\ e.size = d.size /\ e.row = d.row /\ e.todo = d.todo
      /\ d.overtaken => e.overtaken
  BY DEF UserCallType
<1> QED BY <1>1 DEF UserCallOK

\* The user whose row changes apart, users, pages and counts stay what they were.
LEMMA OtherUsersKept ==
    ASSUME UsTypes, CopiesOK, NEW r \in UserCalls, NEW a \in Accounts, usCall[r].at \notin Dropping \/ usCall[r].at = "bulk",
           \A q \in UserCalls \ {r} : SameDuty(usCall[q], usCall'[q]),
           \A b \in Accounts \ {a} : usRow'[b] = usRow[b], UNCHANGED usCaches
    PROVE  /\ \A b \in Accounts \ {a} : UserCopied(b)'
           /\ usCall[r].at \notin Dropping =>
                 \A t \in AccountTenants : t # AccountTenant[a] => ListCopied(t)' /\ StatsCopied(t)'
<1>0. UNCHANGED <<usUser, usList, usStats, usLate>>
  BY DEF usCaches
<1>1. ASSUME NEW b \in Accounts \ {a} PROVE UserCopied(b)'
  <2>1. UserCopied(b) /\ usRow'[b] = usRow[b]
    BY DEF CopiesOK
  <2>2. ~DropsUser(usCall[r], b)
    BY DEF DropsUser, Dropping
  <2>3. \A q \in UserCalls : DropsUser(usCall[q], b) => DropsUser(usCall'[q], b)
    BY <2>2, DutiesKept, Zenon
  <2> QED BY <1>0, <2>1, <2>3, UserKept
<1>2. ASSUME usCall[r].at \notin Dropping, NEW t \in AccountTenants, t # AccountTenant[a]
      PROVE  ListCopied(t)' /\ StatsCopied(t)'
  <2>1. ListCopied(t) /\ StatsCopied(t)
    BY DEF CopiesOK
  <2>2. t # "everybody"
    BY UserServiceAssumption DEF AccountTenants
  <2>3. CountUsers(t)' = CountUsers(t) /\ \A n : FirstPage(t, n)' = FirstPage(t, n)
    BY <1>2, <2>2, SameRows DEF OfFilter
  <2>4. /\ \A q \in UserCalls : DropsList(usCall[q], t) => DropsList(usCall'[q], t)
        /\ \A q \in UserCalls : DropsStats(usCall[q], t) => DropsStats(usCall'[q], t)
    BY <1>2, DutiesKept, NoDuties, Zenon
  <2>5. ListCopied(t)'
    BY <1>0, <2>1, <2>3, <2>4, ListKept
  <2>6. StatsCopied(t)'
    BY <1>0, <2>1, <2>3, <2>4, StatsKept
  <2> QED BY <2>5, <2>6
<1> QED BY <1>1, <1>2

\* UpdateUser: the fields of the row as it was read are those of the row, but for who was overtaken.
LEMMA UpdateKeeps ==
    ASSUME UsIInv, NEW r \in UserCalls, UpdateUser(r)
    PROVE  UsIInv'
<1>0. UsTypes /\ CopiesOK /\ RowsBegin /\ EditsStay /\ EmailsApart /\ \A q \in UserCalls : UserCallOK(usCall[q])
  BY DEF UsIInv
<1>1. /\ UNCHANGED usCalls /\ UNCHANGED usCaches /\ usCall[r].at = "write" /\ usCall[r].at \notin Dropping
      /\ usCall[r].kind \in {"update", "updateCurrent"}
  BY DEF UpdateUser, CallAt, Dropping
<1>2. CASE CallEnds(r) /\ UNCHANGED <<usRow, usLast, usUnchecked>>
  BY <1>1, <1>2, QuietEnd
<1>3. PICK d \in UserCallType : d = usCall[r]
  BY <1>0, UserCallFields
<1>4. PICK a \in Accounts, old \in UserRow : a = d.of /\ old = d.row
  BY <1>3 DEF UserCallType
<1>5. PICK written : written = [old EXCEPT ![d.field] = usCalls]
  OBVIOUS
<1>6. /\ written \in UserRow /\ written.state = old.state
      /\ \A f \in UserFields : written[f] = IF f = d.field THEN usCalls ELSE old[f]
  <2>1. usCalls \in 0 .. MaxUserCalls /\ d.field \in {"profile", "metadata"}
    BY <1>0, <1>3 DEF UsTypes, UserCallType, UserFields
  <2>2. CASE d.field = "profile"
    BY <1>4, <1>5, <2>1, <2>2 DEF UserRow, UserFields
  <2>3. CASE d.field = "metadata"
    BY <1>4, <1>5, <2>1, <2>3 DEF UserRow, UserFields
  <2> QED BY <2>1, <2>2, <2>3
<1>7. old.state = "live"
  BY <1>0, <1>1, <1>3, <1>4 DEF UserCallOK
<1>8. CASE /\ usRow[a].state = "live" /\ usRow' = [usRow EXCEPT ![a] = written]
           /\ usLast' = [usLast EXCEPT ![a] = [@ EXCEPT ![d.field] = usCalls]]
           /\ usUnchecked' = IF d.overtaken THEN usUnchecked \cup {a} ELSE usUnchecked
           /\ Overtakes(r, "write", [d EXCEPT !.at = "dropUser"])
  <2>1. PICK c : c = [d EXCEPT !.at = "dropUser"]
    OBVIOUS
  <2>2. c \in UserCallType /\ c.at = "dropUser" /\ c.of = a /\ c.kind = d.kind
    BY <1>3, <1>4, <2>1 DEF UserCallType, UserPlaces
  <2>3. PICK S : S = {q \in UserCalls : usCall[q].of = a /\ usCall[q].at = "write"}
    OBVIOUS
  <2>4. usCall' = Marked(r, c, S)
    BY <1>3, <1>4, <1>8, <2>1, <2>3 DEF Overtakes, Marked
  <2>5. /\ usCall' \in [UserCalls -> UserCallType] /\ usCall'[r] = c
        /\ \A q \in UserCalls \ {r} : /\ SameDuty(usCall[q], usCall'[q])
                                      /\ q \notin S => usCall'[q] = usCall[q]
                                      /\ q \in S => usCall'[q] = [usCall[q] EXCEPT !.overtaken = TRUE]
    BY <1>0, <2>2, <2>4, WriterMoves
  <2>6. /\ usRow' \in [Accounts -> UserRow] /\ usRow'[a] = written /\ \A b \in Accounts \ {a} : usRow'[b] = usRow[b]
    BY <1>0, <1>6, <1>8 DEF UsTypes
  <2>7. /\ usLast' \in [Accounts -> [profile : Nat, metadata : Nat]]
        /\ \A b \in Accounts \ {a} : usLast'[b] = usLast[b]
        /\ \A f \in UserFields : usLast'[a][f] = IF f = d.field THEN usCalls ELSE usLast[a][f]
    <3>1. PICK l \in [profile : Nat, metadata : Nat] : l = usLast[a]
      BY <1>0 DEF UsTypes
    <3>2. PICK m : m = [l EXCEPT ![d.field] = usCalls]
      OBVIOUS
    <3>3. usCalls \in Nat /\ d.field \in {"profile", "metadata"}
      BY <1>0, <1>3, UserServiceAssumption DEF UsTypes, UserCallType, UserFields
    <3>4. m \in [profile : Nat, metadata : Nat] /\ \A f \in UserFields : m[f] = IF f = d.field THEN usCalls ELSE l[f]
      <4>1. CASE d.field = "profile"
        BY <3>2, <3>3, <4>1 DEF UserFields
      <4>2. CASE d.field = "metadata"
        BY <3>2, <3>3, <4>2 DEF UserFields
      <4> QED BY <3>3, <4>1, <4>2
    <3>5. usLast' = [usLast EXCEPT ![a] = m]
      BY <1>8, <3>1, <3>2
    <3> QED BY <1>0, <3>1, <3>4, <3>5 DEF UsTypes
  <2>8. UsTypes'
    <3>1. usUnchecked' \subseteq Accounts /\ UNCHANGED <<usUser, usList, usStats, usCalls>>
      BY <1>0, <1>1, <1>8 DEF UsTypes, usCaches
    <3> QED BY <1>0, <2>5, <2>6, <2>7, <3>1 DEF UsTypes
  <2>9. RowsBegin'
    BY <1>0, <1>6, <1>7, <2>6 DEF RowsBegin
  <2>10. \A b \in Accounts : usRow'[b].state = usRow[b].state
    BY <1>6, <1>7, <1>8, <2>6
  <2>11. EmailsApart' /\ \A b : NobodyHas(b) => NobodyHas(b)'
    BY <1>0, <1>8, <2>10 DEF EmailsApart, NobodyHas, SameEmail
  <2>12. EditsStay'
    <3>1. ASSUME NEW b \in Accounts \ usUnchecked', NEW f \in UserFields PROVE usRow'[b][f] = usLast'[b][f]
      <4>1. b \notin usUnchecked
        BY <1>8
      <4>2. usRow[b][f] = usLast[b][f]
        BY <1>0, <4>1 DEF EditsStay
      <4>3. CASE b # a
        BY <2>6, <2>7, <4>2, <4>3
      <4>4. CASE b = a
        <5>1. ~d.overtaken
          BY <1>8, <4>4
        <5>2. old.profile = usRow[a].profile /\ old.metadata = usRow[a].metadata
          BY <1>0, <1>1, <1>3, <1>4, <5>1 DEF UserCallOK
        <5>3. old[f] = usRow[a][f]
          BY <5>2 DEF UserFields
        <5> QED BY <1>6, <2>6, <2>7, <4>2, <4>4, <5>3
      <4> QED BY <4>3, <4>4
    <3> QED BY <3>1 DEF EditsStay
  <2>13. ASSUME NEW q \in UserCalls PROVE UserCallOK(usCall[q])'
    <3>1. CASE q = r
      <4>1. UserCallOK(c)'
        BY <1>1, <1>3, <2>2 DEF UserCallOK
      <4> QED BY <2>5, <3>1, <4>1 DEF UserCallOK
    <3>2. CASE q # r
      <4>1. PICK p \in UserCallType : p = usCall[q]
        BY <1>0, UserCallFields
      <4>2. PICK e : e = usCall'[q]
        OBVIOUS
      <4>3. e \in {p, [p EXCEPT !.overtaken = TRUE]} /\ (q \in S => e.overtaken)
        BY <2>5, <3>2, <4>1, <4>2 DEF UserCallType
      <4>4. p.at = "write" /\ ~e.overtaken => p.of # a
        BY <2>3, <4>1, <4>3
      <4>5. p.of \in Accounts /\ UserCallOK(p)
        BY <1>0, <4>1 DEF UserCallType
      <4>6. UserCallOK(e)'
        BY <2>6, <2>11, <4>3, <4>4, <4>5, BystanderKept
      <4> QED BY <4>2, <4>6 DEF UserCallOK
    <3> QED BY <3>1, <3>2
  <2>14. CopiesOK'
    <3>1. \A b \in Accounts \ {a} : UserCopied(b)'
      BY <1>0, <1>1, <2>5, <2>6, OtherUsersKept
    <3>2. UserCopied(a)'
      BY <2>2, <2>5 DEF UserCopied, DropsUser
    <3>3. ASSUME NEW t \in AccountTenants PROVE ListCopied(t)' /\ StatsCopied(t)'
      <4>1. ListCopied(t)'
        BY <2>2, <2>5 DEF ListCopied, DropsList
      <4>2. LiveIn(t)' = LiveIn(t)
        BY <2>10 DEF LiveIn, OfFilter
      <4>3. CountUsers(t)' = CountUsers(t)
        BY <4>2 DEF CountUsers
      <4>4. \A q \in UserCalls : DropsStats(usCall[q], t) => DropsStats(usCall'[q], t)
        BY <1>1, <2>5, DutiesKept, NoDuties, Zenon
      <4>5. StatsCopied(t) /\ UNCHANGED <<usStats, usLate>>
        BY <1>0, <1>1 DEF CopiesOK, usCaches
      <4>6. StatsCopied(t)'
        BY <4>3, <4>4, <4>5, StatsKept
      <4> QED BY <4>1, <4>6
    <3> QED BY <3>1, <3>2, <3>3 DEF CopiesOK
  <2> QED BY <2>8, <2>9, <2>11, <2>12, <2>13, <2>14 DEF UsIInv
<1> QED BY <1>2, <1>3, <1>4, <1>5, <1>8 DEF UpdateUser

\* DeleteUser: the fields stay, and the address is free again.
LEMMA DeleteKeeps ==
    ASSUME UsIInv, NEW r \in UserCalls, DeleteUser(r)
    PROVE  UsIInv'
<1>0. UsTypes /\ CopiesOK /\ RowsBegin /\ EditsStay /\ EmailsApart /\ \A q \in UserCalls : UserCallOK(usCall[q])
  BY DEF UsIInv
<1>1. /\ UNCHANGED <<usLast, usUnchecked, usCalls>> /\ UNCHANGED usCaches /\ usCall[r].at = "write"
      /\ usCall[r].at \notin Dropping /\ usCall[r].kind = "delete"
  BY DEF DeleteUser, CallAt, Dropping
<1>2. CASE CallEnds(r) /\ UNCHANGED usRow
  BY <1>1, <1>2, QuietEnd
<1>3. PICK a \in Accounts, old \in UserRow : a = usCall[r].of /\ old = usRow[a]
  BY <1>0, UserCallFields DEF UsTypes
<1>4. CASE /\ usRow[a].state = "live" /\ usRow' = [usRow EXCEPT ![a].state = "deleted"]
           /\ UserCallGoes(r, "dropUser")
  <2>1. PICK c \in UserCallType : c.at = "dropUser" /\ c.kind = "delete" /\ c.of = a /\ usCall' = [usCall EXCEPT ![r] = c]
    BY <1>0, <1>1, <1>3, <1>4, CallGoesOn DEF UserPlaces
  <2>2. /\ usCall' \in [UserCalls -> UserCallType] /\ usCall'[r] = c
        /\ \A q \in UserCalls \ {r} : usCall'[q] = usCall[q] /\ SameDuty(usCall[q], usCall'[q])
    BY <1>0, <2>1, UserCallMoves DEF SameDuty
  <2>3. PICK new : new = [old EXCEPT !.state = "deleted"]
    OBVIOUS
  <2>4. new \in UserRow /\ new.state = "deleted" /\ new.profile = old.profile /\ new.metadata = old.metadata
    BY <2>3 DEF UserRow
  <2>5. /\ usRow' \in [Accounts -> UserRow] /\ usRow'[a] = new /\ \A b \in Accounts \ {a} : usRow'[b] = usRow[b]
    BY <1>0, <1>3, <1>4, <2>3, <2>4 DEF UsTypes
  <2>6. UsTypes'
    BY <1>0, <1>1, <2>2, <2>5 DEF UsTypes, usCaches
  <2>7. RowsBegin'
    BY <1>0, <2>4, <2>5 DEF RowsBegin
  <2>8. EmailsApart' /\ \A b : NobodyHas(b) => NobodyHas(b)'
    <3>1. \A b \in Accounts : usRow'[b].state = "live" => usRow[b].state = "live"
      BY <2>4, <2>5
    <3> QED BY <1>0, <1>1, <3>1 DEF EmailsApart, NobodyHas, SameEmail
  <2>9. EditsStay'
    <3>1. \A b \in Accounts : usRow'[b].profile = usRow[b].profile /\ usRow'[b].metadata = usRow[b].metadata
      BY <1>3, <2>4, <2>5
    <3>2. \A b \in Accounts, f \in UserFields : usRow'[b][f] = usRow[b][f]
      BY <3>1 DEF UserFields
    <3> QED BY <1>0, <1>1, <3>2 DEF EditsStay
  <2>10. ASSUME NEW q \in UserCalls PROVE UserCallOK(usCall[q])'
    <3>1. CASE q = r
      <4>1. UserCallOK(c)'
        BY <2>1 DEF UserCallOK
      <4> QED BY <2>2, <3>1, <4>1 DEF UserCallOK
    <3>2. CASE q # r
      <4>1. PICK p \in UserCallType : p = usCall[q]
        BY <1>0, UserCallFields
      <4>2. p.of \in Accounts /\ UserCallOK(p)
        BY <1>0, <4>1 DEF UserCallType
      <4>3. usRow'[p.of].profile = usRow[p.of].profile /\ usRow'[p.of].metadata = usRow[p.of].metadata
            /\ (usRow[p.of].state # "none" => usRow'[p.of].state # "none")
        BY <1>3, <2>4, <2>5, <4>2
      <4>4. UserCallOK(p)'
        BY <2>8, <4>2, <4>3, BystanderKept
      <4> QED BY <2>2, <3>2, <4>1, <4>4 DEF UserCallOK
    <3> QED BY <3>1, <3>2
  <2>11. CopiesOK'
    <3>1. /\ \A b \in Accounts \ {a} : UserCopied(b)'
          /\ \A t \in AccountTenants : t # AccountTenant[a] => ListCopied(t)' /\ StatsCopied(t)'
      BY <1>0, <1>1, <2>2, <2>5, OtherUsersKept
    <3>2. UserCopied(a)'
      BY <2>1, <2>2 DEF UserCopied, DropsUser
    <3>3. ListCopied(AccountTenant[a])' /\ StatsCopied(AccountTenant[a])'
      <4>1. DropsList(usCall'[r], AccountTenant[a]) /\ DropsStats(usCall'[r], AccountTenant[a])
        BY <2>1, <2>2 DEF DropsList, DropsStats, DroppedTenants
      <4> QED BY <4>1 DEF ListCopied, StatsCopied
    <3> QED BY <3>1, <3>2, <3>3 DEF CopiesOK
  <2> QED BY <2>6, <2>7, <2>8, <2>9, <2>10, <2>11 DEF UsIInv
<1> QED BY <1>1, <1>2, <1>3, <1>4 DEF DeleteUser

\* A new row is one of today, and a call that held a row holds another.
LEMMA RowCreated ==
    ASSUME UsTypes, RowsBegin, NEW a \in Accounts, CreatesRow(a)
    PROVE  /\ usRow[a] = AbsentUser /\ usRow' \in [Accounts -> UserRow]
           /\ \A b \in Accounts \ {a} : usRow'[b] = usRow[b]
           /\ usRow'[a].state = "live" /\ usRow[a].state = "none"
           /\ usLast' \in [Accounts -> [profile : Nat, metadata : Nat]]
           /\ RowsBegin'
           /\ \A f \in UserFields : usRow'[a][f] = usLast'[a][f]
           /\ \A b \in Accounts \ {a} : usLast'[b] = usLast[b]
<1>1. usCalls \in 0 .. MaxUserCalls /\ usCalls \in Nat
  BY UserServiceAssumption DEF UsTypes
<1>2. PICK new \in UserRow : new = NewUser(usCalls)
  BY <1>1 DEF NewUser, UserRow
<1>3. new.state = "live" /\ new.profile = usCalls /\ new.metadata = usCalls
  BY <1>2 DEF NewUser
<1>4. /\ usRow' \in [Accounts -> UserRow] /\ usRow'[a] = new /\ \A b \in Accounts \ {a} : usRow'[b] = usRow[b]
  BY <1>2 DEF CreatesRow, UsTypes
<1>5. PICK l \in [profile : Nat, metadata : Nat] : l = [profile |-> usCalls, metadata |-> usCalls]
  BY <1>1
<1>6. /\ usLast' \in [Accounts -> [profile : Nat, metadata : Nat]] /\ usLast'[a] = l
      /\ \A b \in Accounts \ {a} : usLast'[b] = usLast[b]
  BY <1>5 DEF CreatesRow, UsTypes
<1>7. \A f \in UserFields : usRow'[a][f] = usLast'[a][f]
  BY <1>3, <1>4, <1>5, <1>6 DEF UserFields
<1>8. usRow[a].state = "none" /\ usRow[a] = AbsentUser
  BY DEF CreatesRow, RowsBegin
<1>9. RowsBegin'
  BY <1>3, <1>4 DEF RowsBegin
<1> QED BY <1>3, <1>4, <1>6, <1>7, <1>8, <1>9

\* What the table says stays said when a row is created whose address was checked, or that is noted.
LEMMA TableGrows ==
    ASSUME UsTypes, RowsBegin, EditsStay, EmailsApart, NEW a \in Accounts, CreatesRow(a),
           usUnchecked' = usUnchecked \/ usUnchecked' = usUnchecked \cup {a}, a \in usUnchecked' \/ NobodyHas(a)
    PROVE  /\ EditsStay' /\ EmailsApart'
           /\ \A d : NobodyHas(d) /\ (a \in usUnchecked' \/ ~SameEmail(a, d)) => NobodyHas(d)'
<1>1. /\ \A b \in Accounts \ {a} : usRow'[b] = usRow[b]
      /\ \A f \in UserFields : usRow'[a][f] = usLast'[a][f]
      /\ \A b \in Accounts \ {a} : usLast'[b] = usLast[b]
  BY RowCreated
<1>2. EditsStay'
  BY <1>1 DEF EditsStay
<1>3. EmailsApart'
  <2>1. ASSUME NEW x \in Accounts \ usUnchecked', NEW y \in Accounts \ usUnchecked', x # y,
               usRow'[x].state = "live", usRow'[y].state = "live", AccountEmail[x] = AccountEmail[y]
        PROVE FALSE
    <3>1. CASE x # a /\ y # a
      BY <1>1, <2>1, <3>1 DEF EmailsApart, SameEmail
    <3>2. CASE x = a
      BY <1>1, <2>1, <3>2 DEF NobodyHas, SameEmail
    <3>3. CASE y = a
      BY <1>1, <2>1, <3>3 DEF NobodyHas, SameEmail
    <3> QED BY <3>1, <3>2, <3>3
  <2> QED BY <2>1 DEF EmailsApart, SameEmail
<1>4. \A d : NobodyHas(d) /\ (a \in usUnchecked' \/ ~SameEmail(a, d)) => NobodyHas(d)'
  BY <1>1 DEF NobodyHas, SameEmail
<1> QED BY <1>2, <1>3, <1>4

\* The copy of a user whose row is new says that there was none.
LEMMA NewUserCopied ==
    ASSUME UsTypes, RowsBegin, CopiesOK, NEW a \in Accounts, CreatesRow(a), NEW r \in UserCalls, usCall[r].at # "dropUser",
           \A q \in UserCalls \ {r} : SameDuty(usCall[q], usCall'[q]), UNCHANGED usUser, UserKey(a) \in usLate => UserKey(a) \in usLate'
    PROVE  UserCopied(a)'
<1>1. UserCopied(a) /\ usRow[a] = AbsentUser
  BY RowCreated DEF CopiesOK
<1>2. \A q \in UserCalls : DropsUser(usCall[q], a) => DropsUser(usCall'[q], a)
  BY DutiesKept DEF DropsUser
<1> QED BY <1>1, <1>2 DEF UserCopied

LEMMA CreateKeeps ==
    ASSUME UsIInv, NEW r \in UserCalls, CreateUser(r)
    PROVE  UsIInv'
<1>0. UsTypes /\ CopiesOK /\ RowsBegin /\ EditsStay /\ EmailsApart /\ \A q \in UserCalls : UserCallOK(usCall[q])
  BY DEF UsIInv
<1>1. /\ UNCHANGED usCalls /\ UNCHANGED usCaches /\ usCall[r].at = "insert" /\ usCall[r].at \notin Dropping
  BY DEF CreateUser, CallAt, Dropping
<1>2. CASE CallEnds(r) /\ UNCHANGED <<usRow, usLast, usUnchecked>>
  BY <1>1, <1>2, QuietEnd
<1>3. PICK d \in UserCallType : d = usCall[r]
  BY <1>0, UserCallFields
<1>4. PICK a \in Accounts : a = d.of
  BY <1>3 DEF UserCallType
<1>5. CASE /\ CreatesRow(a)
           /\ usUnchecked' = IF d.overtaken THEN usUnchecked \cup {a} ELSE usUnchecked
           /\ usCall' = [q \in UserCalls |->
                IF q = r THEN [d EXCEPT !.at = "dropLists"]
                ELSE IF usCall[q].at = "insert" /\ SameEmail(usCall[q].of, a)
                     THEN [usCall[q] EXCEPT !.overtaken = TRUE] ELSE usCall[q]]
  <2>1. PICK c : c = [d EXCEPT !.at = "dropLists"]
    OBVIOUS
  <2>2. c \in UserCallType /\ c.at = "dropLists" /\ c.of = a /\ c.kind = d.kind
    BY <1>3, <1>4, <2>1 DEF UserCallType, UserPlaces
  <2>3. PICK S : S = {q \in UserCalls : usCall[q].at = "insert" /\ SameEmail(usCall[q].of, a)}
    OBVIOUS
  <2>4. usCall' = Marked(r, c, S)
    BY <1>5, <2>1, <2>3 DEF Marked
  <2>5. /\ usCall' \in [UserCalls -> UserCallType] /\ usCall'[r] = c
        /\ \A q \in UserCalls \ {r} : /\ SameDuty(usCall[q], usCall'[q])
                                      /\ q \notin S => usCall'[q] = usCall[q]
                                      /\ q \in S => usCall'[q] = [usCall[q] EXCEPT !.overtaken = TRUE]
    BY <1>0, <2>2, <2>4, WriterMoves
  <2>6. /\ usRow[a] = AbsentUser /\ usRow' \in [Accounts -> UserRow]
        /\ \A b \in Accounts \ {a} : usRow'[b] = usRow[b]
        /\ usRow'[a].state = "live" /\ usRow[a].state = "none"
        /\ usLast' \in [Accounts -> [profile : Nat, metadata : Nat]]
        /\ RowsBegin'
    BY <1>0, <1>5, RowCreated
  <2>7. UsTypes'
    <3>1. usUnchecked' \subseteq Accounts /\ UNCHANGED <<usUser, usList, usStats, usCalls>>
      BY <1>0, <1>1, <1>5 DEF UsTypes, usCaches
    <3> QED BY <1>0, <2>5, <2>6, <3>1 DEF UsTypes
  <2>8. /\ usUnchecked' = usUnchecked \/ usUnchecked' = usUnchecked \cup {a}
        /\ a \in usUnchecked' \/ NobodyHas(a)
    BY <1>0, <1>1, <1>3, <1>4, <1>5 DEF UserCallOK
  <2>9. /\ EditsStay' /\ EmailsApart'
        /\ \A b : NobodyHas(b) /\ (a \in usUnchecked' \/ ~SameEmail(a, b)) => NobodyHas(b)'
    BY <1>0, <1>5, <2>8, TableGrows
  <2>10. ASSUME NEW q \in UserCalls PROVE UserCallOK(usCall[q])'
    <3>1. CASE q = r
      <4>1. UserCallOK(c)'
        BY <2>2 DEF UserCallOK
      <4> QED BY <2>5, <3>1, <4>1 DEF UserCallOK
    <3>2. CASE q # r
      <4>1. PICK p \in UserCallType : p = usCall[q]
        BY <1>0, UserCallFields
      <4>2. PICK e : e = usCall'[q]
        OBVIOUS
      <4>3. e \in {p, [p EXCEPT !.overtaken = TRUE]} /\ (q \in S => e.overtaken)
        BY <2>5, <3>2, <4>1, <4>2 DEF UserCallType
      <4>4. p.at = "insert" /\ ~e.overtaken => ~SameEmail(a, p.of)
        BY <2>3, <4>1, <4>3 DEF SameEmail
      <4>5. p.of \in Accounts /\ UserCallOK(p)
        BY <1>0, <4>1 DEF UserCallType
      <4>6. p.at = "write" /\ ~e.overtaken /\ usRow[p.of].state # "none" =>
              usRow'[p.of].profile = usRow[p.of].profile /\ usRow'[p.of].metadata = usRow[p.of].metadata
              /\ usRow'[p.of].state # "none"
        BY <2>6, <4>5
      <4>7. p.at = "insert" /\ ~e.overtaken /\ NobodyHas(p.of) => NobodyHas(p.of)'
        BY <2>9, <4>4
      <4>8. UserCallOK(e)'
        BY <4>3, <4>5, <4>6, <4>7, BystanderKept
      <4> QED BY <4>2, <4>8 DEF UserCallOK
    <3> QED BY <3>1, <3>2
  <2>11. CopiesOK'
    <3>1. /\ \A b \in Accounts \ {a} : UserCopied(b)'
          /\ \A t \in AccountTenants : t # AccountTenant[a] => ListCopied(t)' /\ StatsCopied(t)'
      BY <1>0, <1>1, <2>5, <2>6, OtherUsersKept
    <3>2. UserCopied(a)'
      BY <1>0, <1>1, <1>5, <2>5, NewUserCopied DEF usCaches
    <3>3. ListCopied(AccountTenant[a])' /\ StatsCopied(AccountTenant[a])'
      <4>1. AccountTenant[a] \in DroppedTenants(c)
        BY <2>2 DEF DroppedTenants, AccountTenants
      <4>2. DropsList(usCall'[r], AccountTenant[a]) /\ DropsStats(usCall'[r], AccountTenant[a])
        BY <2>2, <2>5, <4>1 DEF DropsList, DropsStats
      <4> QED BY <4>2 DEF ListCopied, StatsCopied
    <3> QED BY <3>1, <3>2, <3>3 DEF CopiesOK
  <2> QED BY <2>6, <2>7, <2>9, <2>10, <2>11 DEF UsIInv
<1> QED BY <1>1, <1>2, <1>3, <1>4, <1>5 DEF CreateUser

\* BulkCreate: its rows are noted as unchecked, and one that fails leaves the keys of all tenants late.
LEMMA BulkKeeps ==
    ASSUME UsIInv, NEW r \in UserCalls, BulkCreate(r)
    PROVE  UsIInv'
<1>0. UsTypes /\ CopiesOK /\ RowsBegin /\ EditsStay /\ EmailsApart /\ \A q \in UserCalls : UserCallOK(usCall[q])
  BY DEF UsIInv
<1>1. UNCHANGED <<usCalls, usUser, usList, usStats>> /\ usCall[r].at = "bulk"
  BY DEF BulkCreate, CallAt
<1>2. PICK d \in UserCallType : d = usCall[r]
  BY <1>0, UserCallFields
<1>3. CASE /\ CallEnds(r) /\ usLate' = usLate \cup UNION {TenantKeys(t) : t \in AccountTenants}
           /\ UNCHANGED <<usRow, usLast, usUnchecked>>
  <2>1. /\ IdleUserCall \in UserCallType /\ usCall' = [usCall EXCEPT ![r] = IdleUserCall] /\ UserCallOK(IdleUserCall)
    BY <1>3, UserConstants, PlainCalls DEF CallEnds, Plain
  <2>2. \A q \in UserCalls \ {r} : usCall'[q] = usCall[q]
    BY <1>0, <2>1, UserCallMoves
  <2>3. ASSUME NEW b \in Accounts PROVE UserCopied(b)'
    <3>1. UserCopied(b) /\ (UserKey(b) \in usLate => UserKey(b) \in usLate')
      BY <1>0, <1>3 DEF CopiesOK
    <3>2. \A q \in UserCalls : DropsUser(usCall[q], b) => DropsUser(usCall'[q], b)
      BY <1>1, <2>2 DEF DropsUser
    <3> QED BY <1>1, <1>3, <3>1, <3>2, UserKept
  <2>4. ASSUME NEW t \in AccountTenants PROVE ListCopied(t)' /\ StatsCopied(t)'
    <3>1. ListKeyOf(t) \in usLate' /\ StatsKey(t) \in usLate'
      BY <1>3 DEF TenantKeys
    <3> QED BY <3>1 DEF ListCopied, StatsCopied
  <2>5. CopiesOK'
    BY <2>3, <2>4 DEF CopiesOK
  <2>6. /\ usUser' \in [Accounts -> UserRow] /\ usList' \in [ListFilters -> PageOfRows]
        /\ usStats' \in [ListFilters -> [total : Int, roles : Int]] /\ usCalls' \in 0 .. MaxUserCalls
    BY <1>0, <1>1 DEF UsTypes
  <2> QED BY <1>3, <2>1, <2>5, <2>6, RowsUntouched
<1>4. ASSUME NEW a \in d.todo, CreatesRow(a), usUnchecked' = usUnchecked \cup {a}, UNCHANGED usLate,
             usCall' = [usCall EXCEPT ![r] = [d EXCEPT !.todo = d.todo \ {a}, !.of = a,
                                                       !.at = IF d.todo = {a} THEN "dropLists" ELSE "bulk"]]
      PROVE  UsIInv'
  <2>0. a \in Accounts /\ d.kind = "bulk"
    BY <1>0, <1>1, <1>2 DEF UserCallType, UserCallOK
  <2>1. PICK c : c = [d EXCEPT !.todo = d.todo \ {a}, !.of = a, !.at = IF d.todo = {a} THEN "dropLists" ELSE "bulk"]
    OBVIOUS
  <2>2. /\ c \in UserCallType /\ c.at = (IF d.todo = {a} THEN "dropLists" ELSE "bulk") /\ c.kind = "bulk"
        /\ c.todo = d.todo \ {a}
    BY <2>0, <2>1 DEF UserCallType, UserPlaces
  <2>3. c.at \in {"dropLists", "bulk"} /\ (c.at = "bulk" => c.todo # {})
    BY <1>4, <2>2
  <2>4. /\ usCall' \in [UserCalls -> UserCallType] /\ usCall'[r] = c
        /\ \A q \in UserCalls \ {r} : usCall'[q] = usCall[q] /\ SameDuty(usCall[q], usCall'[q])
    BY <1>0, <1>4, <2>1, <2>2, UserCallMoves DEF SameDuty
  <2>6. /\ usRow[a] = AbsentUser /\ usRow' \in [Accounts -> UserRow]
        /\ \A b \in Accounts \ {a} : usRow'[b] = usRow[b]
        /\ usRow'[a].state = "live" /\ usRow[a].state = "none"
        /\ usLast' \in [Accounts -> [profile : Nat, metadata : Nat]]
        /\ RowsBegin'
    BY <1>0, <1>4, <2>0, RowCreated
  <2>7. UsTypes'
    BY <1>0, <1>1, <1>4, <2>0, <2>4, <2>6 DEF UsTypes
  <2>9. /\ EditsStay' /\ EmailsApart' /\ \A b : NobodyHas(b) => NobodyHas(b)'
    BY <1>0, <1>4, <2>0, TableGrows
  <2>10. ASSUME NEW q \in UserCalls PROVE UserCallOK(usCall[q])'
    <3>1. CASE q = r
      <4>1. UserCallOK(c)'
        BY <2>2, <2>3 DEF UserCallOK
      <4> QED BY <2>4, <3>1, <4>1 DEF UserCallOK
    <3>2. CASE q # r
      <4>1. PICK p \in UserCallType : p = usCall[q]
        BY <1>0, UserCallFields
      <4>5. p.of \in Accounts /\ UserCallOK(p)
        BY <1>0, <4>1 DEF UserCallType
      <4>6. p.at = "write" /\ ~p.overtaken /\ usRow[p.of].state # "none" =>
              usRow'[p.of].profile = usRow[p.of].profile /\ usRow'[p.of].metadata = usRow[p.of].metadata
              /\ usRow'[p.of].state # "none"
        BY <2>6, <4>5
      <4>7. p.at = "insert" /\ ~p.overtaken /\ NobodyHas(p.of) => NobodyHas(p.of)'
        BY <2>9
      <4>8. UserCallOK(p)'
        BY <4>5, <4>6, <4>7, BystanderKept
      <4> QED BY <2>4, <3>2, <4>1, <4>8 DEF UserCallOK
    <3> QED BY <3>1, <3>2
  <2>11. CopiesOK'
    <3>1. \A b \in Accounts \ {a} : UserCopied(b)'
      BY <1>0, <1>1, <1>4, <2>0, <2>4, <2>6, OtherUsersKept DEF usCaches
    <3>2. UserCopied(a)'
      BY <1>0, <1>1, <1>4, <2>0, <2>4, NewUserCopied
    <3>3. ASSUME NEW t \in AccountTenants PROVE ListCopied(t)' /\ StatsCopied(t)'
      <4>1. DropsList(usCall'[r], t) /\ DropsStats(usCall'[r], t)
        BY <2>2, <2>3, <2>4 DEF DropsList, DropsStats, DroppedTenants
      <4> QED BY <4>1 DEF ListCopied, StatsCopied
    <3> QED BY <3>1, <3>2, <3>3 DEF CopiesOK
  <2> QED BY <2>6, <2>7, <2>9, <2>10, <2>11 DEF UsIInv
<1> QED BY <1>2, <1>3, <1>4 DEF BulkCreate

LEMMA UsersStart == UsInit => UsIInv
<1> SUFFICES ASSUME UsInit PROVE UsIInv
  OBVIOUS
<1> USE DEF UsInit
<1>1. UsTypes
  BY UserConstants, UserServiceAssumption DEF UsTypes
<1>2. RowsBegin /\ EditsStay /\ EmailsApart
  BY DEF RowsBegin, EditsStay, EmailsApart, AbsentUser, UserFields
<1>3. \A r \in UserCalls : UserCallOK(usCall[r])
  BY UserConstants, PlainCalls DEF Plain
<1>4. CopiesOK
  BY UserConstants DEF CopiesOK, UserCopied, ListCopied, StatsCopied
<1> QED BY <1>1, <1>2, <1>3, <1>4 DEF UsIInv
LEMMA UsersStep == UsIInv /\ UsNext => UsIInv'
<1> SUFFICES ASSUME UsIInv, UsNext PROVE UsIInv'
  OBVIOUS
<1>1. ASSUME NEW r \in UserCalls, UserCallStep(r) PROVE UsIInv'
  BY <1>1, CachedUserKeeps, FindKeeps, FillsKeep, UpdateKeeps, DeleteKeeps, FindByEmailKeeps, CreateKeeps, BulkKeeps,
     DropUserKeeps, DropAllListsKeeps, DropTenantKeeps, ListRowsKeeps DEF UserCallStep
<1> QED BY <1>1, ArrivesKeeps, ExpiryKeeps DEF UsNext
LEMMA UsersStutter == UsIInv /\ UNCHANGED usVars => UsIInv'
<1> SUFFICES ASSUME UsIInv, UNCHANGED usVars PROVE UsIInv'
  OBVIOUS
<1> USE DEF usVars, UsIInv
<1>1. UsTypes' /\ RowsBegin' /\ EditsStay' /\ EmailsApart'
  BY DEF UsTypes, RowsBegin, EditsStay, EmailsApart, SameEmail
<1>2. ASSUME NEW r \in UserCalls PROVE UserCallOK(usCall[r])'
  BY DEF UserCallOK, NobodyHas, SameEmail
<1>3. ASSUME NEW a \in Accounts PROVE UserCopied(a)'
  BY UserKept DEF CopiesOK
<1>4. ASSUME NEW t \in AccountTenants PROVE ListCopied(t)' /\ StatsCopied(t)'
  <2>1. CountUsers(t)' = CountUsers(t) /\ \A n : FirstPage(t, n)' = FirstPage(t, n)
    BY SameRows
  <2>2. ListCopied(t)'
    BY <2>1, ListKept DEF CopiesOK
  <2>3. StatsCopied(t)'
    BY <2>1, StatsKept DEF CopiesOK
  <2> QED BY <2>2, <2>3
<1> QED BY <1>1, <1>2, <1>3, <1>4 DEF CopiesOK
LEMMA UsersAreSafe == UsIInv => UserServiceSafety
<1> SUFFICES ASSUME UsIInv PROVE UserServiceSafety
  OBVIOUS
<1>1. ASSUME NEW r \in UserCalls, NEW a, DropsUser(usCall[r], a) PROVE UserKey(a) \in Owes(usCall[r])
  BY <1>1 DEF DropsUser, Owes
<1>2. ASSUME NEW r \in UserCalls, NEW t \in AccountTenants, DropsList(usCall[r], t) PROVE ListKeyOf(t) \in Owes(usCall[r])
  <2>1. t \in ListFilters /\ (usCall[r].at = "bulk" => usCall[r].todo # {})
    BY UserConstants DEF UsIInv, UserCallOK
  <2> QED BY <1>2, <2>1 DEF DropsList, Owes, TenantKeys
<1>3. ASSUME NEW r \in UserCalls, NEW t \in AccountTenants, DropsStats(usCall[r], t) PROVE StatsKey(t) \in Owes(usCall[r])
  <2>1. usCall[r].at = "bulk" => usCall[r].todo # {}
    BY DEF UsIInv, UserCallOK
  <2> QED BY <1>3, <2>1 DEF DropsStats, Owes, TenantKeys
<1>4. CopiesAreCurrent
  BY <1>1, <1>2, <1>3, Zenon DEF UsIInv, CopiesOK, UserCopied, ListCopied, StatsCopied, Excused, CopiesAreCurrent
<1> QED BY <1>4 DEF UserServiceSafety, UsIInv

(***************************************************************************)
(* The multi-level cache.                                                  *)
(***************************************************************************)
CacheCopyType == [value : Nat, expires : Nat]
CachePlaces == {"idle", "L1", "L2", "L3", "promote1", "promote2"}
CacheCallType ==
    [at : CachePlaces, kind : {"get", "set", "delete"}, process : Processes, key : CachedKeys, size : Sizes, value : Nat]

MlTypes ==
    /\ mlL1 \in [Processes -> [CachedKeys -> CacheCopyType]] /\ mlL2 \in [Processes -> [CachedKeys -> CacheCopyType]]
    /\ mlL3 \in [CachedKeys -> CacheCopyType] /\ mlOpen \in [Processes -> BOOLEAN]
    /\ mlCall \in [CacheUsers -> CacheCallType] /\ mlNow \in Nat /\ mlOps \in 0 .. MaxCacheOps
    /\ mlWritten \in [1 .. MaxCacheOps -> [by : Processes, at : Nat]]
    /\ mlLast \in [Processes -> [CachedKeys -> Nat]]

\* A copy that was written lives at a level no longer than its stay there and in the levels below.
Lives(copy, n) == copy.value = 0 \/ copy.expires <= mlWritten[copy.value].at + n
Young(v, n) == v # 0 /\ mlNow <= mlWritten[v].at + n
L1OK(copy, p) == copy.value <= mlOps /\ (mlOpen[p] => Lives(copy, SetTTL + L2TTL + CleanWindow + L1TTL))
L2OK(copy, p) ==
    /\ copy.value <= mlOps
    /\ mlOpen[p] => Lives(copy, SetTTL + L2TTL) /\ (copy.value # 0 => mlNow <= copy.expires + CleanWindow)
L3OK(copy) == copy.value <= mlOps /\ Lives(copy, SetTTL) /\ (copy.value # 0 => mlNow <= copy.expires)
LevelsOK ==
    /\ \A p \in Processes, k \in CachedKeys : L1OK(mlL1[p][k], p) /\ L2OK(mlL2[p][k], p)
    /\ \A k \in CachedKeys : L3OK(mlL3[k])
CacheCallOK(c) ==
    /\ c.value <= mlOps
    /\ c.at # "idle" /\ c.kind = "set" => Young(c.value, 0) /\ mlWritten[c.value].by = c.process
    /\ c.at = "promote2" /\ mlOpen[c.process] => Young(c.value, SetTTL)
    /\ c.at = "promote1" /\ mlOpen[c.process] => Young(c.value, SetTTL + L2TTL + CleanWindow)

\* A value that the process wrote is the last it wrote.
Own(v, p, k) == v # 0 /\ mlWritten[v].by = p => v = mlLast[p][k]
BusyWith(c, p, k) == c.at # "idle" /\ c.process = p /\ c.key = k
WritesAt(p, k, places) ==
    \E u \in CacheUsers : BusyWith(mlCall[u], p, k) /\ mlCall[u].kind # "get" /\ mlCall[u].at \in places
CarriesOwn(c, p, k) ==
    /\ c.at \in {"promote1", "promote2"} => Own(c.value, p, k)
    /\ c.kind = "set" => c.size = "small" /\ c.value = mlLast[p][k]
OwnKept(p, k) ==
    /\ \A u, w \in CacheUsers : BusyWith(mlCall[u], p, k) /\ BusyWith(mlCall[w], p, k) => u = w
    /\ \A u \in CacheUsers : BusyWith(mlCall[u], p, k) => CarriesOwn(mlCall[u], p, k)
    /\ Own(mlL1[p][k].value, p, k) \/ WritesAt(p, k, {"L1"})
    /\ Own(mlL2[p][k].value, p, k) \/ WritesAt(p, k, {"L1", "L2"})
    /\ Own(mlL3[k].value, p, k) \/ WritesAt(p, k, {"L1", "L2", "L3"})

\* A copy is as young as its level allows, and the own writes of a process are the newest it kept, at every
\* level its own call has passed.
MlIInv ==
    /\ MlTypes /\ LevelsOK /\ \A u \in CacheUsers : CacheCallOK(mlCall[u])
    /\ \A p \in Processes, k \in CachedKeys : <<p, k>> \notin mlLoose => OwnKept(p, k)

LEMMA CacheConstants ==
    /\ NoCopy \in CacheCopyType /\ NoCopy.value = 0
    /\ NoCacheCall \in CacheCallType /\ NoCacheCall.at = "idle" /\ NoCacheCall.value = 0
    /\ {SetTTL, L1TTL, L2TTL, CleanWindow} \subseteq Nat /\ MaxCacheOps \in Nat /\ MaxTime \in Nat
<1>1. (CHOOSE p \in Processes : TRUE) \in Processes /\ (CHOOSE k \in CachedKeys : TRUE) \in CachedKeys
  BY CachingAssumption
<1>2. NoCacheCall \in CacheCallType /\ NoCacheCall.at = "idle" /\ NoCacheCall.value = 0
  BY <1>1 DEF NoCacheCall, CacheCallType, CachePlaces, Sizes
<1>3. NoCopy \in CacheCopyType /\ NoCopy.value = 0
  BY DEF NoCopy, CacheCopyType
<1> QED BY <1>2, <1>3, CachingAssumption

LEMMA CacheCallFields ==
    ASSUME NEW c \in CacheCallType
    PROVE  /\ c.at \in CachePlaces /\ c.kind \in {"get", "set", "delete"} /\ c.process \in Processes
           /\ c.key \in CachedKeys /\ c.size \in Sizes /\ c.value \in Nat
BY DEF CacheCallType

\* The first level after Set: the copy is there, and one other may be gone.
LEMMA FirstLevelSet ==
    ASSUME MlTypes, NEW p \in Processes, NEW k \in CachedKeys, NEW copy \in CacheCopyType, SetToL1(p, k, copy)
    PROVE  /\ mlL1' \in [Processes -> [CachedKeys -> CacheCopyType]] /\ mlL1'[p][k] = copy
           /\ \A q \in Processes, x \in CachedKeys : q # p \/ x # k => mlL1'[q][x] \in {mlL1[q][x], NoCopy}
<1>1. PICK f : /\ mlL1' = [mlL1 EXCEPT ![p] = f]
               /\ f \in [CachedKeys -> CacheCopyType] /\ f[k] = copy
               /\ \A x \in CachedKeys \ {k} : f[x] \in {mlL1[p][x], NoCopy}
  <2> DEFINE f == [x \in CachedKeys |-> IF x = k THEN copy
                      ELSE IF Len(mlRecent[p]) >= L1MaxEntries /\ x = Head(mlRecent[p]) THEN NoCopy ELSE mlL1[p][x]]
  <2>1. mlL1' = [mlL1 EXCEPT ![p] = f]
    BY DEF SetToL1
  <2>2. /\ f \in [CachedKeys -> CacheCopyType] /\ f[k] = copy
        /\ \A x \in CachedKeys \ {k} : f[x] \in {mlL1[p][x], NoCopy}
    <3>1. NoCopy \in CacheCopyType /\ mlL1[p] \in [CachedKeys -> CacheCopyType]
      BY CacheConstants DEF MlTypes
    <3> QED BY <3>1
  <2> QED BY <2>1, <2>2
<1>2. mlL1' \in [Processes -> [CachedKeys -> CacheCopyType]] /\ mlL1'[p] = f /\ \A q \in Processes \ {p} : mlL1'[q] = mlL1[q]
  BY <1>1 DEF MlTypes
<1> QED BY <1>1, <1>2

LEMMA FirstLevelDeleted ==
    ASSUME MlTypes, NEW p \in Processes, NEW k \in CachedKeys, DeleteFromL1(p, k)
    PROVE  /\ mlL1' \in [Processes -> [CachedKeys -> CacheCopyType]] /\ mlL1'[p][k] = NoCopy
           /\ \A q \in Processes, x \in CachedKeys : q # p \/ x # k => mlL1'[q][x] = mlL1[q][x]
<1>1. NoCopy \in CacheCopyType /\ mlL1[p] \in [CachedKeys -> CacheCopyType]
  BY CacheConstants DEF MlTypes
<1>2. mlL1' = [mlL1 EXCEPT ![p][k] = NoCopy]
  BY DEF DeleteFromL1
<1> QED BY <1>1, <1>2 DEF MlTypes
LEMMA SecondLevelSet ==
    ASSUME MlTypes, NEW p \in Processes, NEW k \in CachedKeys, NEW copy \in CacheCopyType, SetToL2(p, k, copy)
    PROVE  /\ mlL2' \in [Processes -> [CachedKeys -> CacheCopyType]] /\ mlL2'[p][k] = copy
           /\ \A q \in Processes, x \in CachedKeys : q # p \/ x # k => mlL2'[q][x] = mlL2[q][x]
<1>1. mlL2' = [mlL2 EXCEPT ![p][k] = copy]
  BY DEF SetToL2
<1> QED BY <1>1 DEF MlTypes

\* What was in order stays so while time stands and nothing is written.
LEMMA CellsStand ==
    ASSUME UNCHANGED <<mlNow, mlOps, mlWritten>>, \A p \in Processes : mlOpen'[p] => mlOpen[p], NEW copy, NEW p \in Processes
    PROVE  /\ L1OK(copy, p) => L1OK(copy, p)'
           /\ L2OK(copy, p) => L2OK(copy, p)'
           /\ L3OK(copy) => L3OK(copy)'
BY DEF L1OK, L2OK, L3OK, Lives
LEMMA NothingIsOK ==
    ASSUME MlTypes, NEW p
    PROVE  L1OK(NoCopy, p) /\ L2OK(NoCopy, p) /\ L3OK(NoCopy)
<1>1. mlOps \in Nat
  BY CacheConstants DEF MlTypes
<1> QED BY <1>1, CacheConstants DEF L1OK, L2OK, L3OK, Lives
LEMMA CallStands ==
    ASSUME UNCHANGED <<mlNow, mlOps, mlWritten>>, \A p \in Processes : mlOpen'[p] => mlOpen[p], NEW c \in CacheCallType,
           CacheCallOK(c)
    PROVE  CacheCallOK(c)'
<1>1. c.process \in Processes
  BY CacheCallFields
<1> QED BY <1>1 DEF CacheCallOK, Young

\* Own writes are kept where a call does not work, and where it does.
LEMMA OwnElsewhere ==
    ASSUME MlTypes, NEW u \in CacheUsers, NEW d \in CacheCallType, mlCall' = [mlCall EXCEPT ![u] = d],
           UNCHANGED <<mlWritten, mlLast>>, NEW p, NEW k,
           ~BusyWith(mlCall[u], p, k), ~BusyWith(d, p, k), OwnKept(p, k),
           Own(mlL1'[p][k].value, p, k) \/ mlL1'[p][k].value = mlL1[p][k].value,
           Own(mlL2'[p][k].value, p, k) \/ mlL2'[p][k].value = mlL2[p][k].value,
           Own(mlL3'[k].value, p, k) \/ mlL3'[k].value = mlL3[k].value
    PROVE  OwnKept(p, k)'
<1>1. mlCall'[u] = d /\ \A w \in CacheUsers \ {u} : mlCall'[w] = mlCall[w]
  BY DEF MlTypes
<1>2. \A w \in CacheUsers : BusyWith(mlCall'[w], p, k) => w # u /\ BusyWith(mlCall[w], p, k)
  BY <1>1
<1>3. ASSUME NEW w \in CacheUsers, BusyWith(mlCall'[w], p, k) PROVE CarriesOwn(mlCall[w], p, k)'
  <2>1. CarriesOwn(mlCall[w], p, k) /\ mlCall'[w] = mlCall[w]
    BY <1>1, <1>2, <1>3 DEF OwnKept
  <2> QED BY <2>1 DEF CarriesOwn, Own
<1>4. ASSUME NEW v, Own(v, p, k) PROVE Own(v, p, k)'
  BY <1>4 DEF Own
<1>5. ASSUME NEW P, WritesAt(p, k, P) PROVE WritesAt(p, k, P)'
  <2>1. PICK w \in CacheUsers : BusyWith(mlCall[w], p, k) /\ mlCall[w].kind # "get" /\ mlCall[w].at \in P
    BY <1>5 DEF WritesAt
  <2>2. mlCall'[w] = mlCall[w]
    BY <1>1, <2>1
  <2> QED BY <2>1, <2>2 DEF WritesAt, BusyWith
<1>6. /\ Own(mlL1[p][k].value, p, k)' \/ WritesAt(p, k, {"L1"})'
      /\ Own(mlL2[p][k].value, p, k)' \/ WritesAt(p, k, {"L1", "L2"})'
      /\ Own(mlL3[k].value, p, k)' \/ WritesAt(p, k, {"L1", "L2", "L3"})'
  <2>1. /\ Own(mlL1'[p][k].value, p, k) \/ WritesAt(p, k, {"L1"})
        /\ Own(mlL2'[p][k].value, p, k) \/ WritesAt(p, k, {"L1", "L2"})
        /\ Own(mlL3'[k].value, p, k) \/ WritesAt(p, k, {"L1", "L2", "L3"})
    BY DEF OwnKept
  <2> QED BY <1>5, <2>1 DEF Own
<1>7. \A x, w \in CacheUsers : BusyWith(mlCall'[x], p, k) /\ BusyWith(mlCall'[w], p, k) => x = w
  BY <1>2 DEF OwnKept
<1> QED BY <1>3, <1>6, <1>7 DEF OwnKept, BusyWith
LEMMA OwnHere ==
    ASSUME MlTypes, NEW u \in CacheUsers, NEW d \in CacheCallType, mlCall' = [mlCall EXCEPT ![u] = d],
           UNCHANGED <<mlWritten, mlLast>>, NEW p, NEW k,
           BusyWith(mlCall[u], p, k), OwnKept(p, k), BusyWith(d, p, k) => CarriesOwn(d, p, k),
           Own(mlL1'[p][k].value, p, k) \/ (BusyWith(d, p, k) /\ d.kind # "get" /\ d.at \in {"L1"}),
           Own(mlL2'[p][k].value, p, k) \/ (BusyWith(d, p, k) /\ d.kind # "get" /\ d.at \in {"L1", "L2"}),
           Own(mlL3'[k].value, p, k) \/ (BusyWith(d, p, k) /\ d.kind # "get" /\ d.at \in {"L1", "L2", "L3"})
    PROVE  OwnKept(p, k)'
<1>1. mlCall'[u] = d /\ \A w \in CacheUsers \ {u} : mlCall'[w] = mlCall[w]
  BY DEF MlTypes
<1>2. \A w \in CacheUsers : BusyWith(mlCall'[w], p, k) => w = u
  BY <1>1 DEF OwnKept
<1>3. ASSUME NEW w \in CacheUsers, BusyWith(mlCall'[w], p, k) PROVE CarriesOwn(mlCall[w], p, k)'
  <2>1. CarriesOwn(d, p, k)'
    BY <1>1, <1>2, <1>3 DEF CarriesOwn, Own
  <2> QED BY <1>1, <1>2, <1>3, <2>1 DEF CarriesOwn, Own
<1>4. /\ Own(mlL1[p][k].value, p, k)' \/ WritesAt(p, k, {"L1"})'
      /\ Own(mlL2[p][k].value, p, k)' \/ WritesAt(p, k, {"L1", "L2"})'
      /\ Own(mlL3[k].value, p, k)' \/ WritesAt(p, k, {"L1", "L2", "L3"})'
  BY <1>1 DEF Own, WritesAt, BusyWith
<1> QED BY <1>2, <1>3, <1>4 DEF OwnKept, BusyWith

LEMMA CacheMoves ==
    ASSUME MlIInv, NEW u \in CacheUsers, NEW d \in CacheCallType, mlCall' = [mlCall EXCEPT ![u] = d], CacheCallOK(d),
           UNCHANGED <<mlOpen, mlNow, mlOps, mlWritten, mlLast>>,
           mlL1' \in [Processes -> [CachedKeys -> CacheCopyType]], mlL2' \in [Processes -> [CachedKeys -> CacheCopyType]],
           mlL3' \in [CachedKeys -> CacheCopyType],
           \A p \in Processes, k \in CachedKeys : L1OK(mlL1'[p][k], p) /\ L2OK(mlL2'[p][k], p),
           \A k \in CachedKeys : L3OK(mlL3'[k]),
           \A p \in Processes, k \in CachedKeys : <<p, k>> \notin mlLoose' => OwnKept(p, k)'
    PROVE  MlIInv'
<1>0. MlTypes
  BY DEF MlIInv
<1>1. /\ mlCall' \in [CacheUsers -> CacheCallType] /\ mlCall'[u] = d
      /\ \A w \in CacheUsers \ {u} : mlCall'[w] = mlCall[w]
  BY <1>0 DEF MlTypes
<1>2. MlTypes'
  BY <1>0, <1>1 DEF MlTypes
<1>3. Processes # {}
  BY CachingAssumption
<1>4. ASSUME NEW p \in Processes, NEW k \in CachedKeys PROVE L1OK(mlL1[p][k], p)' /\ L2OK(mlL2[p][k], p)'
  BY DEF L1OK, L2OK, Lives
<1>5. ASSUME NEW k \in CachedKeys PROVE L3OK(mlL3[k])'
  BY DEF L3OK, Lives
<1>6. ASSUME NEW w \in CacheUsers PROVE CacheCallOK(mlCall[w])'
  <2>1. PICK e \in CacheCallType : e = mlCall'[w]
    BY <1>1
  <2>2. CacheCallOK(e)
    BY <1>1, <2>1 DEF MlIInv
  <2>3. CacheCallOK(e)'
    BY <2>2, CallStands
  <2> QED BY <2>1, <2>3 DEF CacheCallOK, Young
<1> QED BY <1>2, <1>4, <1>5, <1>6 DEF MlIInv, LevelsOK

\* A call that reads moves on: what it carries is as young as it must be, and own.
LEMMA ReadsKeep ==
    ASSUME MlIInv, NEW u \in CacheUsers, GetFromL1(u) \/ GetFromL2(u) \/ GetFromL3(u)
    PROVE  MlIInv'
<1>0. MlTypes /\ LevelsOK /\ CacheCallOK(mlCall[u])
  BY DEF MlIInv
<1>1. PICK c \in CacheCallType : c = mlCall[u]
  BY <1>0 DEF MlTypes
<1>2. PICK p \in Processes, k \in CachedKeys : p = c.process /\ k = c.key
  BY CacheCallFields
<1>3. /\ c.kind = "get" /\ c.at \in {"L1", "L2", "L3"}
      /\ UNCHANGED <<mlL1, mlL2, mlL3, mlOpen, mlNow, mlOps, mlWritten, mlLast, mlLoose>>
  BY <1>1 DEF GetFromL1, GetFromL2, GetFromL3, CacheAt, mlHistory
<1>4. SUFFICES ASSUME NEW d \in CacheCallType, mlCall' = [mlCall EXCEPT ![u] = d], CacheCallOK(d),
                      d.at = "idle" \/ (d.process = p /\ d.key = k /\ d.kind = "get"),
                      d.at \in {"promote1", "promote2"} =>
                         (OwnKept(p, k) /\ BusyWith(mlCall[u], p, k) => Own(d.value, p, k))
               PROVE  MlIInv'
  <2>1. CASE mlCall' = [mlCall EXCEPT ![u] = NoCacheCall]
    <3>1. CacheCallOK(NoCacheCall)
      BY <1>0, CacheConstants DEF CacheCallOK, MlTypes
    <3> QED BY <1>4, <2>1, <3>1, CacheConstants
  <2>2. ASSUME NEW at \in {"L2", "L3"}, CacheGoes(u, at) PROVE MlIInv'
    <3>1. PICK d : d = [c EXCEPT !.at = at]
      OBVIOUS
    <3>2. /\ d \in CacheCallType /\ d.at = at /\ d.process = p /\ d.key = k /\ d.kind = "get" /\ d.value = c.value
      BY <1>2, <1>3, <3>1 DEF CacheCallType, CachePlaces
    <3>3. CacheCallOK(d)
      BY <1>0, <1>1, <3>2 DEF CacheCallOK
    <3>4. mlCall' = [mlCall EXCEPT ![u] = d]
      BY <1>0, <1>1, <2>2, <3>1 DEF CacheGoes, MlTypes
    <3> QED BY <1>4, <3>2, <3>3, <3>4
  <2>3. ASSUME NEW at \in {"promote1", "promote2"}, NEW copy \in CacheCopyType, copy.value # 0, copy.value <= mlOps,
               mlCall' = [mlCall EXCEPT ![u].at = at, ![u].value = copy.value],
               at = "promote1" => copy = mlL2[p][k] /\ c.at = "L2", at = "promote2" => copy = mlL3[k] /\ c.at = "L3"
        PROVE  MlIInv'
    <3>1. PICK d : d = [c EXCEPT !.at = at, !.value = copy.value]
      OBVIOUS
    <3>2. /\ d \in CacheCallType /\ d.at = at /\ d.process = p /\ d.key = k /\ d.kind = "get" /\ d.value = copy.value
      BY <1>2, <1>3, <3>1 DEF CacheCallType, CachePlaces, CacheCopyType
    <3>3. mlCall' = [mlCall EXCEPT ![u] = d]
      BY <1>0, <1>1, <2>3, <3>1 DEF MlTypes
    <3>4. copy.value \in 1 .. MaxCacheOps /\ mlWritten[copy.value].at \in Nat /\ copy.expires \in Nat /\ mlNow \in Nat
          /\ {SetTTL, L1TTL, L2TTL, CleanWindow} \subseteq Nat
      <4>1. copy.value \in Nat /\ mlOps \in 0 .. MaxCacheOps /\ copy.expires \in Nat
        BY <1>0 DEF MlTypes, CacheCopyType
      <4>2. copy.value \in 1 .. MaxCacheOps
        BY <2>3, <4>1, CacheConstants
      <4> QED BY <1>0, <4>1, <4>2, CacheConstants DEF MlTypes
    <3>5. CacheCallOK(d)
      <4>1. CASE at = "promote1"
        <5>1. mlOpen[p] => mlNow <= copy.expires + CleanWindow /\ copy.expires <= mlWritten[copy.value].at + (SetTTL + L2TTL)
          BY <1>0, <2>3, <4>1 DEF LevelsOK, L2OK, Lives
        <5>2. mlOpen[p] => Young(copy.value, SetTTL + L2TTL + CleanWindow)
          BY <2>3, <3>4, <5>1 DEF Young
        <5> QED BY <2>3, <3>2, <4>1, <5>2 DEF CacheCallOK
      <4>2. CASE at = "promote2"
        <5>1. mlNow <= copy.expires /\ copy.expires <= mlWritten[copy.value].at + SetTTL
          BY <1>0, <2>3, <4>2 DEF LevelsOK, L3OK, Lives
        <5>2. Young(copy.value, SetTTL)
          BY <2>3, <3>4, <5>1 DEF Young
        <5> QED BY <2>3, <3>2, <4>2, <5>2 DEF CacheCallOK
      <4> QED BY <4>1, <4>2
    <3>6. ASSUME OwnKept(p, k), BusyWith(mlCall[u], p, k) PROVE Own(d.value, p, k)
      <4>1. \A P : ~WritesAt(p, k, P)
        BY <1>1, <1>3, <3>6 DEF OwnKept, WritesAt
      <4> QED BY <2>3, <3>2, <3>6, <4>1 DEF OwnKept
    <3> QED BY <1>4, <3>2, <3>3, <3>5, <3>6
  <2>4. CASE GetFromL1(u)
    BY <2>1, <2>2, <2>4 DEF GetFromL1
  <2>5. CASE GetFromL2(u)
    <3>1. mlL2[p][k] \in CacheCopyType /\ mlL2[p][k].value <= mlOps
      BY <1>0 DEF MlTypes, LevelsOK, L2OK
    <3> QED BY <1>1, <1>2, <2>2, <2>3, <2>5, <3>1 DEF GetFromL2, Process, KeyOf, CacheAt
  <2>6. CASE GetFromL3(u)
    <3>1. mlL3[k] \in CacheCopyType /\ mlL3[k].value <= mlOps
      BY <1>0 DEF MlTypes, LevelsOK, L3OK
    <3> QED BY <1>1, <1>2, <2>1, <2>3, <2>6, <3>1 DEF GetFromL3, Process, KeyOf, CacheAt
  <2> QED BY <2>4, <2>5, <2>6
<1>5. ASSUME NEW q \in Processes, NEW x \in CachedKeys, <<q, x>> \notin mlLoose' PROVE OwnKept(q, x)'
  <2>1. OwnKept(q, x)
    BY <1>3, <1>5 DEF MlIInv
  <2>2. CASE q = p /\ x = k
    <3>1. BusyWith(mlCall[u], q, x)
      BY <1>1, <1>2, <1>3, <2>2 DEF BusyWith
    <3>2. BusyWith(d, q, x) => CarriesOwn(d, q, x)
      BY <1>4, <2>1, <2>2, <3>1 DEF BusyWith, CarriesOwn
    <3>3. \A P : ~WritesAt(q, x, P)
      BY <1>1, <1>3, <2>1, <3>1 DEF OwnKept, WritesAt
    <3>4. Own(mlL1'[q][x].value, q, x) /\ Own(mlL2'[q][x].value, q, x) /\ Own(mlL3'[x].value, q, x)
      BY <1>3, <2>1, <3>3 DEF OwnKept
    <3> QED BY <1>0, <1>3, <1>4, <2>1, <3>1, <3>2, <3>4, OwnHere
  <2>3. CASE ~(q = p /\ x = k)
    <3>1. ~BusyWith(mlCall[u], q, x) /\ ~BusyWith(d, q, x)
      BY <1>1, <1>2, <1>4, <2>3 DEF BusyWith
    <3> QED BY <1>0, <1>3, <1>4, <2>1, <3>1, OwnElsewhere
  <2> QED BY <2>2, <2>3
<1>6. /\ mlL1' \in [Processes -> [CachedKeys -> CacheCopyType]] /\ mlL2' \in [Processes -> [CachedKeys -> CacheCopyType]]
      /\ mlL3' \in [CachedKeys -> CacheCopyType]
      /\ \A q \in Processes, x \in CachedKeys : L1OK(mlL1'[q][x], q) /\ L2OK(mlL2'[q][x], q)
      /\ \A x \in CachedKeys : L3OK(mlL3'[x])
  BY <1>0, <1>3 DEF MlTypes, LevelsOK
<1> QED BY <1>3, <1>4, <1>5, <1>6, CacheMoves

\* A call that changes levels does so where it works; elsewhere a copy may only go.
Works(u, d, p, k) ==
    /\ mlCall' = [mlCall EXCEPT ![u] = d] /\ CacheCallOK(d)
    /\ BusyWith(mlCall[u], p, k) /\ (d.at = "idle" \/ BusyWith(d, p, k))
    /\ UNCHANGED <<mlOpen, mlNow, mlOps, mlWritten, mlLast>> /\ mlLoose \subseteq mlLoose'
    /\ mlL1' \in [Processes -> [CachedKeys -> CacheCopyType]] /\ mlL2' \in [Processes -> [CachedKeys -> CacheCopyType]]
    /\ mlL3' \in [CachedKeys -> CacheCopyType]
LeavesTheRest(p, k) ==
    /\ \A q \in Processes, x \in CachedKeys : q # p \/ x # k =>
          mlL1'[q][x] \in {mlL1[q][x], NoCopy} /\ mlL2'[q][x] = mlL2[q][x]
    /\ \A x \in CachedKeys : x # k => mlL3'[x] = mlL3[x]
    /\ \A q \in Processes : q # p => mlL3'[k] = mlL3[k] \/ Own(mlL3'[k].value, q, k)
KeepsOwn(d, p, k) ==
    <<p, k>> \notin mlLoose' /\ OwnKept(p, k) =>
       /\ BusyWith(d, p, k) => CarriesOwn(d, p, k)
       /\ Own(mlL1'[p][k].value, p, k) \/ (BusyWith(d, p, k) /\ d.kind # "get" /\ d.at \in {"L1"})
       /\ Own(mlL2'[p][k].value, p, k) \/ (BusyWith(d, p, k) /\ d.kind # "get" /\ d.at \in {"L1", "L2"})
       /\ Own(mlL3'[k].value, p, k) \/ (BusyWith(d, p, k) /\ d.kind # "get" /\ d.at \in {"L1", "L2", "L3"})
LEMMA WorksMove ==
    ASSUME MlIInv, NEW u \in CacheUsers, NEW d \in CacheCallType, NEW p \in Processes, NEW k \in CachedKeys,
           Works(u, d, p, k), LeavesTheRest(p, k), KeepsOwn(d, p, k),
           L1OK(mlL1'[p][k], p), L2OK(mlL2'[p][k], p), L3OK(mlL3'[k])
    PROVE  MlIInv'
<1> USE DEF Works, LeavesTheRest, KeepsOwn
<1>0. MlTypes /\ LevelsOK
  BY DEF MlIInv
<1>1. ASSUME NEW q \in Processes, NEW x \in CachedKeys PROVE L1OK(mlL1'[q][x], q) /\ L2OK(mlL2'[q][x], q)
  <2>1. CASE q = p /\ x = k
    BY <2>1
  <2>2. CASE q # p \/ x # k
    BY <1>0, <2>2, NothingIsOK DEF LevelsOK
  <2> QED BY <2>1, <2>2
<1>2. ASSUME NEW x \in CachedKeys PROVE L3OK(mlL3'[x])
  BY <1>0 DEF LevelsOK
<1>3. ASSUME NEW q \in Processes, NEW x \in CachedKeys, <<q, x>> \notin mlLoose' PROVE OwnKept(q, x)'
  <2>1. OwnKept(q, x)
    BY <1>3 DEF MlIInv
  <2>2. CASE q = p /\ x = k
    BY <1>0, <1>3, <2>1, <2>2, OwnHere
  <2>3. CASE q # p \/ x # k
    <3>1. ~BusyWith(mlCall[u], q, x) /\ ~BusyWith(d, q, x)
      BY <2>3 DEF BusyWith
    <3>2. Own(NoCopy.value, q, x)
      BY CacheConstants DEF Own
    <3>3. Own(mlL1'[q][x].value, q, x) \/ mlL1'[q][x].value = mlL1[q][x].value
      BY <2>3, <3>2
    <3>4. Own(mlL2'[q][x].value, q, x) \/ mlL2'[q][x].value = mlL2[q][x].value
      BY <2>3
    <3>5. Own(mlL3'[x].value, q, x) \/ mlL3'[x].value = mlL3[x].value
      BY <2>3
    <3> QED BY <1>0, <2>1, <3>1, <3>3, <3>4, <3>5, OwnElsewhere
  <2> QED BY <2>2, <2>3
<1> QED BY <1>1, <1>2, <1>3, CacheMoves

\* The places a call goes to.
LEMMA CacheCallGoes ==
    ASSUME MlTypes, NEW u \in CacheUsers, NEW at \in CachePlaces, CacheGoes(u, at)
    PROVE  \E d \in CacheCallType : /\ mlCall' = [mlCall EXCEPT ![u] = d] /\ d.at = at
                                    /\ d.kind = mlCall[u].kind /\ d.process = mlCall[u].process /\ d.key = mlCall[u].key
                                    /\ d.value = mlCall[u].value /\ d.size = mlCall[u].size
<1>1. PICK c \in CacheCallType : c = mlCall[u]
  BY DEF MlTypes
<1>2. PICK d : d = [c EXCEPT !.at = at]
  OBVIOUS
<1>3. /\ d \in CacheCallType /\ d.at = at /\ d.kind = c.kind /\ d.process = c.process /\ d.key = c.key
      /\ d.value = c.value /\ d.size = c.size
  BY <1>2 DEF CacheCallType
<1>4. mlCall' = [mlCall EXCEPT ![u] = d]
  BY <1>1, <1>2 DEF CacheGoes, MlTypes
<1> QED BY <1>1, <1>3, <1>4

LEMMA CacheCallEnds ==
    ASSUME MlTypes, NEW u \in CacheUsers, mlCall' = [mlCall EXCEPT ![u] = NoCacheCall]
    PROVE  \E d \in CacheCallType : d.at = "idle" /\ CacheCallOK(d) /\ mlCall' = [mlCall EXCEPT ![u] = d]
<1>1. NoCacheCall \in CacheCallType /\ NoCacheCall.at = "idle" /\ NoCacheCall.value = 0 /\ mlOps \in Nat
  BY CacheConstants DEF MlTypes
<1>2. CacheCallOK(NoCacheCall)
  BY <1>1 DEF CacheCallOK
<1> QED BY <1>1, <1>2

\* What a promotion leaves at a level.
LEMMA CopyAges ==
    ASSUME MlTypes, NEW v \in Nat, v <= mlOps, NEW a \in Nat, Young(v, a), NEW b \in Nat
    PROVE  /\ v \in 1 .. MaxCacheOps /\ [value |-> v, expires |-> mlNow + b] \in CacheCopyType
           /\ Lives([value |-> v, expires |-> mlNow + b], a + b)
           /\ mlNow <= mlNow + b
<1>1. mlNow \in Nat /\ v \in 1 .. MaxCacheOps
  BY CacheConstants DEF MlTypes, Young
<1>2. mlWritten[v].at \in Nat
  BY <1>1 DEF MlTypes
<1> QED BY <1>1, <1>2 DEF Young, Lives, CacheCopyType

LEMMA PromoteKeeps ==
    ASSUME MlIInv, NEW u \in CacheUsers, Promote(u)
    PROVE  MlIInv'
<1>0. MlTypes /\ LevelsOK /\ CacheCallOK(mlCall[u])
  BY DEF MlIInv
<1>1. PICK c \in CacheCallType : c = mlCall[u]
  BY <1>0 DEF MlTypes
<1>2. PICK p \in Processes, k \in CachedKeys : p = c.process /\ k = c.key
  BY CacheCallFields
<1>3. /\ c.at \in {"promote1", "promote2"} /\ c.value \in Nat /\ c.value <= mlOps
      /\ UNCHANGED <<mlL3, mlOpen, mlNow, mlOps, mlWritten, mlLast, mlLoose>>
  BY <1>0, <1>1, CacheCallFields DEF Promote, CacheAt, mlHistory, CacheCallOK
<1>4. BusyWith(mlCall[u], p, k)
  BY <1>1, <1>2, <1>3 DEF BusyWith
<1>5. {SetTTL, L1TTL, L2TTL, CleanWindow} \subseteq Nat /\ mlNow \in Nat
  BY <1>0, CacheConstants DEF MlTypes
<1>6. L1OK(mlL1[p][k], p) /\ L2OK(mlL2[p][k], p) /\ L3OK(mlL3[k]) /\ mlL3 \in [CachedKeys -> CacheCopyType]
  BY <1>0 DEF LevelsOK, MlTypes
<1>8. OwnKept(p, k) => Own(c.value, p, k)
  BY <1>1, <1>3, <1>4 DEF OwnKept, CarriesOwn
<1>9. ASSUME c.at = "promote2", CacheGoes(u, "promote1"), UNCHANGED mlL1,
             SetToL2(p, k, [value |-> c.value, expires |-> mlNow + L2TTL])
      PROVE  MlIInv'
  <2>1. PICK d \in CacheCallType : /\ mlCall' = [mlCall EXCEPT ![u] = d] /\ d.at = "promote1"
                                   /\ d.kind = c.kind /\ d.process = p /\ d.key = k
                                   /\ d.value = c.value /\ d.size = c.size
    BY <1>0, <1>1, <1>2, <1>9, CacheCallGoes DEF CachePlaces
  <2>2. PICK copy : copy = [value |-> c.value, expires |-> mlNow + L2TTL]
    OBVIOUS
  <2>3. mlOpen[p] => Young(c.value, SetTTL)
    BY <1>0, <1>1, <1>2, <1>9 DEF CacheCallOK
  <2>4. copy \in CacheCopyType /\ copy.value = c.value /\ copy.expires = mlNow + L2TTL
    BY <1>3, <1>5, <2>2 DEF CacheCopyType
  <2>5. L2OK(copy, p)
    <3>1. ASSUME mlOpen[p] PROVE Lives(copy, SetTTL + L2TTL)
      BY <1>0, <1>3, <1>5, <2>2, <2>3, <3>1, CopyAges
    <3>2. mlNow <= mlNow + L2TTL + CleanWindow
      BY <1>5
    <3> QED BY <1>3, <2>4, <3>1, <3>2 DEF L2OK
  <2>6. CacheCallOK(d)
    <3>1. ASSUME mlOpen[p] PROVE Young(c.value, SetTTL + L2TTL + CleanWindow)
      <4>1. c.value \in 1 .. MaxCacheOps
        BY <1>0, <1>3, <1>5, <2>3, <3>1, CopyAges
      <4>2. mlWritten[c.value].at \in Nat
        BY <1>0, <4>1 DEF MlTypes
      <4> QED BY <1>5, <2>3, <3>1, <4>2 DEF Young
    <3>2. d.kind = "set" => Young(c.value, 0) /\ mlWritten[c.value].by = p
      BY <1>0, <1>1, <1>2, <1>9, <2>1 DEF CacheCallOK
    <3> QED BY <1>3, <2>1, <3>1, <3>2 DEF CacheCallOK
  <2>7. /\ mlL2' \in [Processes -> [CachedKeys -> CacheCopyType]] /\ mlL2'[p][k] = copy
        /\ \A q \in Processes, x \in CachedKeys : q # p \/ x # k => mlL2'[q][x] = mlL2[q][x]
    BY <1>0, <1>9, <2>2, <2>4, SecondLevelSet
  <2>8. BusyWith(d, p, k)
    BY <2>1 DEF BusyWith
  <2>9. ASSUME OwnKept(p, k)
        PROVE  /\ CarriesOwn(d, p, k)
               /\ Own(mlL1'[p][k].value, p, k) \/ (d.kind # "get" /\ d.at \in {"L1"})
               /\ Own(mlL2'[p][k].value, p, k) \/ (d.kind # "get" /\ d.at \in {"L1", "L2"})
               /\ Own(mlL3'[k].value, p, k) \/ (d.kind # "get" /\ d.at \in {"L1", "L2", "L3"})
    <3>1. CarriesOwn(c, p, k) /\ \A P : WritesAt(p, k, P) => c.at \in P
      BY <1>1, <1>4, <2>9 DEF OwnKept, WritesAt
    <3>2. CarriesOwn(d, p, k)
      BY <1>9, <2>1, <3>1 DEF CarriesOwn
    <3>3. Own(mlL1[p][k].value, p, k) /\ Own(mlL3[k].value, p, k)
      BY <1>9, <2>9, <3>1 DEF OwnKept
    <3> QED BY <1>3, <1>8, <1>9, <2>4, <2>7, <2>9, <3>2, <3>3
  <2>10. mlL1' \in [Processes -> [CachedKeys -> CacheCopyType]] /\ mlL3' \in [CachedKeys -> CacheCopyType] /\ mlL1'[p][k] = mlL1[p][k]
    BY <1>0, <1>3, <1>9 DEF MlTypes
  <2>11. LeavesTheRest(p, k)
    BY <1>3, <1>9, <2>7 DEF LeavesTheRest
  <2>12. L1OK(mlL1'[p][k], p) /\ L2OK(mlL2'[p][k], p) /\ L3OK(mlL3'[k])
    BY <1>3, <1>6, <2>5, <2>7, <2>10
  <2>13. KeepsOwn(d, p, k)
    BY <2>8, <2>9 DEF KeepsOwn
  <2>14. Works(u, d, p, k)
    BY <1>3, <1>4, <2>1, <2>6, <2>7, <2>8, <2>10 DEF Works
  <2> QED BY <2>11, <2>12, <2>13, <2>14, WorksMove
<1>10. ASSUME c.at = "promote1", mlCall' = [mlCall EXCEPT ![u] = NoCacheCall], UNCHANGED mlL2,
              SetToL1(p, k, [value |-> c.value, expires |-> mlNow + L1TTL])
       PROVE  MlIInv'
  <2>1. PICK d \in CacheCallType : d.at = "idle" /\ CacheCallOK(d) /\ mlCall' = [mlCall EXCEPT ![u] = d]
    BY <1>0, <1>10, CacheCallEnds
  <2>2. PICK copy : copy = [value |-> c.value, expires |-> mlNow + L1TTL]
    OBVIOUS
  <2>3. mlOpen[p] => Young(c.value, SetTTL + L2TTL + CleanWindow)
    BY <1>0, <1>1, <1>2, <1>10 DEF CacheCallOK
  <2>4. copy \in CacheCopyType /\ copy.value = c.value /\ copy.expires = mlNow + L1TTL
    BY <1>3, <1>5, <2>2 DEF CacheCopyType
  <2>5. L1OK(copy, p)
    <3>1. ASSUME mlOpen[p] PROVE Lives(copy, (SetTTL + L2TTL + CleanWindow) + L1TTL)
      BY <1>0, <1>3, <1>5, <2>2, <2>3, <3>1, CopyAges
    <3> QED BY <1>3, <2>4, <3>1 DEF L1OK
  <2>7. /\ mlL1' \in [Processes -> [CachedKeys -> CacheCopyType]] /\ mlL1'[p][k] = copy
        /\ \A q \in Processes, x \in CachedKeys : q # p \/ x # k => mlL1'[q][x] \in {mlL1[q][x], NoCopy}
    BY <1>0, <1>10, <2>2, <2>4, FirstLevelSet
  <2>8. ~BusyWith(d, p, k)
    BY <2>1 DEF BusyWith
  <2>9. ASSUME OwnKept(p, k)
        PROVE  Own(mlL1'[p][k].value, p, k) /\ Own(mlL2'[p][k].value, p, k) /\ Own(mlL3'[k].value, p, k)
    <3>1. CarriesOwn(c, p, k) /\ \A P : WritesAt(p, k, P) => c.at \in P
      BY <1>1, <1>4, <2>9 DEF OwnKept, WritesAt
    <3>2. Own(mlL2[p][k].value, p, k) /\ Own(mlL3[k].value, p, k)
      BY <1>10, <2>9, <3>1 DEF OwnKept
    <3> QED BY <1>3, <1>8, <1>10, <2>4, <2>7, <2>9, <3>2
  <2>10. mlL2' \in [Processes -> [CachedKeys -> CacheCopyType]] /\ mlL3' \in [CachedKeys -> CacheCopyType] /\ mlL2'[p][k] = mlL2[p][k]
    BY <1>0, <1>3, <1>10 DEF MlTypes
  <2>11. LeavesTheRest(p, k)
    BY <1>3, <1>10, <2>7 DEF LeavesTheRest
  <2>12. L1OK(mlL1'[p][k], p) /\ L2OK(mlL2'[p][k], p) /\ L3OK(mlL3'[k])
    BY <1>3, <1>6, <2>5, <2>7, <2>10
  <2>13. KeepsOwn(d, p, k)
    BY <2>8, <2>9 DEF KeepsOwn
  <2>14. Works(u, d, p, k)
    BY <1>3, <1>4, <2>1, <2>7, <2>10 DEF Works
  <2> QED BY <2>11, <2>12, <2>13, <2>14, WorksMove
<1> QED BY <1>1, <1>2, <1>9, <1>10 DEF Promote, Process, KeyOf, CacheAt

\* Set leaves at a level what is young, and the newest of its process.
LEMMA SetKeeps ==
    ASSUME MlIInv, NEW u \in CacheUsers, Set(u)
    PROVE  MlIInv'
<1>0. MlTypes /\ LevelsOK /\ CacheCallOK(mlCall[u])
  BY DEF MlIInv
<1>1. PICK c \in CacheCallType : c = mlCall[u]
  BY <1>0 DEF MlTypes
<1>2. PICK p \in Processes, k \in CachedKeys : p = c.process /\ k = c.key
  BY CacheCallFields
<1>3. /\ c.kind = "set" /\ c.at \in {"L1", "L2", "L3"}
      /\ UNCHANGED <<mlOpen, mlNow, mlOps, mlWritten, mlLast>> /\ mlLoose \subseteq mlLoose'
  BY <1>1 DEF Set, Loosens
<1>4. BusyWith(mlCall[u], p, k)
  BY <1>1, <1>2, <1>3 DEF BusyWith
<1>5. {SetTTL, L1TTL, L2TTL, CleanWindow} \subseteq Nat /\ mlNow \in Nat /\ mlOps \in Nat
  BY <1>0, CacheConstants DEF MlTypes
<1>6. L1OK(mlL1[p][k], p) /\ L2OK(mlL2[p][k], p) /\ L3OK(mlL3[k]) /\ L1OK(NoCopy, p) /\ L2OK(NoCopy, p) /\ L3OK(NoCopy)
  BY <1>0, NothingIsOK DEF LevelsOK
<1>7. OwnKept(p, k) =>
         /\ CarriesOwn(c, p, k)
         /\ Own(mlL1[p][k].value, p, k) \/ c.at = "L1"
         /\ Own(mlL2[p][k].value, p, k) \/ c.at \in {"L1", "L2"}
  <2>1. SUFFICES ASSUME OwnKept(p, k) PROVE CarriesOwn(c, p, k) /\ \A P : WritesAt(p, k, P) => c.at \in P
    BY DEF OwnKept
  <2> QED BY <1>1, <1>4, <2>1 DEF OwnKept, WritesAt
<1>8. Own(0, p, k) /\ NoCopy \in CacheCopyType /\ NoCopy.value = 0
  BY CacheConstants DEF Own
<1>9. c.value \in Nat /\ c.value <= mlOps /\ Young(c.value, 0) /\ mlWritten[c.value].by = p
  BY <1>0, <1>1, <1>2, <1>3, CacheCallFields DEF CacheCallOK
<1>10. OwnKept(p, k) => c.size = "small" /\ Own(c.value, p, k)
  BY <1>3, <1>7 DEF CarriesOwn, Own
<1>11. ASSUME NEW n \in Nat
       PROVE  \E copy \in CacheCopyType : /\ copy = [value |-> c.value, expires |-> mlNow + n] /\ copy.value = c.value
                                      /\ copy.expires = mlNow + n /\ Lives(copy, 0 + n)
  BY <1>0, <1>9, CopyAges
<1>12. c.value \in 1 .. MaxCacheOps /\ mlWritten[c.value].at \in Nat
  <2>1. c.value \in 1 .. MaxCacheOps
    BY <1>0, <1>9, CopyAges
  <2> QED BY <1>0, <2>1 DEF MlTypes
<1>13. ASSUME c.at = "L1", CacheGoes(u, "L2"), UNCHANGED <<mlL2, mlL3>>,
              IF ToL1(c.size) THEN SetToL1(p, k, [value |-> c.value, expires |-> mlNow + SetTTL]) ELSE UNCHANGED mlL1
       PROVE  MlIInv'
  <2>1. PICK d \in CacheCallType : /\ mlCall' = [mlCall EXCEPT ![u] = d] /\ d.at = "L2"
                                   /\ d.kind = c.kind /\ d.process = p /\ d.key = k
                                   /\ d.value = c.value /\ d.size = c.size
    BY <1>0, <1>1, <1>2, <1>13, CacheCallGoes DEF CachePlaces
  <2>2. CacheCallOK(d) /\ BusyWith(d, p, k)
    BY <1>0, <1>1, <1>2, <1>3, <2>1 DEF CacheCallOK, BusyWith
  <2>3. OwnKept(p, k) => CarriesOwn(d, p, k)
    BY <1>3, <1>7, <2>1 DEF CarriesOwn
  <2>4. PICK copy \in CacheCopyType : /\ copy = [value |-> c.value, expires |-> mlNow + SetTTL] /\ copy.value = c.value
                                 /\ copy.expires = mlNow + SetTTL /\ Lives(copy, 0 + SetTTL)
    BY <1>5, <1>11
  <2>5. /\ mlL1' \in [Processes -> [CachedKeys -> CacheCopyType]]
        /\ \A q \in Processes, x \in CachedKeys : q # p \/ x # k => mlL1'[q][x] \in {mlL1[q][x], NoCopy}
        /\ mlL1'[p][k] = IF ToL1(c.size) THEN copy ELSE mlL1[p][k]
    <3>1. CASE ToL1(c.size)
      <4>1. SetToL1(p, k, copy)
        BY <1>13, <2>4, <3>1
      <4> QED BY <1>0, <2>4, <3>1, <4>1, FirstLevelSet
    <3>2. CASE ~ToL1(c.size)
      BY <1>0, <1>13, <3>2 DEF MlTypes
    <3> QED BY <3>1, <3>2
  <2>6. mlL2' = mlL2 /\ mlL2' \in [Processes -> [CachedKeys -> CacheCopyType]]
    BY <1>0, <1>13 DEF MlTypes
  <2>7. mlL3' = mlL3 /\ mlL3' \in [CachedKeys -> CacheCopyType]
    BY <1>0, <1>13 DEF MlTypes
  <2>8. L1OK(copy, p)
    <3>1. copy.expires <= mlWritten[copy.value].at + (SetTTL + L2TTL + CleanWindow + L1TTL)
      BY <1>5, <1>9, <1>12, <2>4 DEF Young
    <3> QED BY <1>9, <2>4, <3>1 DEF L1OK, Lives
  <2>9. OwnKept(p, k) => mlL1'[p][k].value = c.value
    BY <1>10, <2>4, <2>5 DEF ToL1
  <2>20. LeavesTheRest(p, k)
    BY <2>5, <2>6, <2>7 DEF LeavesTheRest
  <2>21. L1OK(mlL1'[p][k], p) /\ L2OK(mlL2'[p][k], p) /\ L3OK(mlL3'[k])
    BY <1>6, <2>5, <2>6, <2>7, <2>8
  <2>22. KeepsOwn(d, p, k)
    BY <1>3, <1>10, <2>1, <2>2, <2>3, <2>9 DEF KeepsOwn
  <2>23. Works(u, d, p, k)
    BY <1>3, <1>4, <2>1, <2>2, <2>5, <2>6, <2>7 DEF Works
  <2> QED BY <2>20, <2>21, <2>22, <2>23, WorksMove
<1>14. ASSUME c.at = "L2", CacheGoes(u, "L3"), UNCHANGED <<mlL1, mlL3>>,
              IF ToL2(c.size) THEN SetToL2(p, k, [value |-> c.value, expires |-> mlNow + L2TTL]) ELSE UNCHANGED mlL2
       PROVE  MlIInv'
  <2>1. PICK d \in CacheCallType : /\ mlCall' = [mlCall EXCEPT ![u] = d] /\ d.at = "L3"
                                   /\ d.kind = c.kind /\ d.process = p /\ d.key = k
                                   /\ d.value = c.value /\ d.size = c.size
    BY <1>0, <1>1, <1>2, <1>14, CacheCallGoes DEF CachePlaces
  <2>2. CacheCallOK(d) /\ BusyWith(d, p, k)
    BY <1>0, <1>1, <1>2, <1>3, <2>1 DEF CacheCallOK, BusyWith
  <2>3. OwnKept(p, k) => CarriesOwn(d, p, k)
    BY <1>3, <1>7, <2>1 DEF CarriesOwn
  <2>4. PICK copy \in CacheCopyType : /\ copy = [value |-> c.value, expires |-> mlNow + L2TTL] /\ copy.value = c.value
                                 /\ copy.expires = mlNow + L2TTL /\ Lives(copy, 0 + L2TTL)
    BY <1>5, <1>11
  <2>6. /\ mlL2' \in [Processes -> [CachedKeys -> CacheCopyType]]
        /\ \A q \in Processes, x \in CachedKeys : q # p \/ x # k => mlL2'[q][x] = mlL2[q][x]
        /\ mlL2'[p][k] = IF ToL2(c.size) THEN copy ELSE mlL2[p][k]
    <3>1. CASE ToL2(c.size)
      <4>1. SetToL2(p, k, copy)
        BY <1>14, <2>4, <3>1
      <4> QED BY <1>0, <2>4, <3>1, <4>1, SecondLevelSet
    <3>2. CASE ~ToL2(c.size)
      BY <1>0, <1>14, <3>2 DEF MlTypes
    <3> QED BY <3>1, <3>2
  <2>8. L2OK(copy, p)
    <3>1. copy.expires <= mlWritten[copy.value].at + (SetTTL + L2TTL) /\ mlNow <= copy.expires + CleanWindow
      BY <1>5, <1>9, <1>12, <2>4 DEF Young
    <3> QED BY <1>9, <2>4, <3>1 DEF L2OK, Lives
  <2>9. OwnKept(p, k) => mlL2'[p][k].value = c.value
    BY <1>10, <2>4, <2>6 DEF ToL2
  <2>5. mlL1' = mlL1 /\ mlL1' \in [Processes -> [CachedKeys -> CacheCopyType]]
    BY <1>0, <1>14 DEF MlTypes
  <2>7. mlL3' = mlL3 /\ mlL3' \in [CachedKeys -> CacheCopyType]
    BY <1>0, <1>14 DEF MlTypes
  <2>20. LeavesTheRest(p, k)
    BY <2>5, <2>6, <2>7 DEF LeavesTheRest
  <2>21. L1OK(mlL1'[p][k], p) /\ L2OK(mlL2'[p][k], p) /\ L3OK(mlL3'[k])
    BY <1>6, <2>5, <2>6, <2>7, <2>8
  <2>22. KeepsOwn(d, p, k)
    BY <1>3, <1>7, <1>10, <1>14, <2>1, <2>2, <2>3, <2>5, <2>9 DEF KeepsOwn
  <2>23. Works(u, d, p, k)
    BY <1>3, <1>4, <2>1, <2>2, <2>5, <2>6, <2>7 DEF Works
  <2> QED BY <2>20, <2>21, <2>22, <2>23, WorksMove
<1>15. ASSUME c.at = "L3", mlCall' = [mlCall EXCEPT ![u] = NoCacheCall], UNCHANGED <<mlL1, mlL2>>,
              mlL3' = [mlL3 EXCEPT ![k] = [value |-> c.value, expires |-> mlNow + SetTTL]] \/ (mlL3' = mlL3 /\ <<p, k>> \in mlLoose')
       PROVE  MlIInv'
  <2>1. PICK d \in CacheCallType : d.at = "idle" /\ CacheCallOK(d) /\ mlCall' = [mlCall EXCEPT ![u] = d]
    BY <1>0, <1>15, CacheCallEnds
  <2>2. ~BusyWith(d, p, k)
    BY <2>1 DEF BusyWith
  <2>4. PICK copy \in CacheCopyType : /\ copy = [value |-> c.value, expires |-> mlNow + SetTTL] /\ copy.value = c.value
                                 /\ copy.expires = mlNow + SetTTL /\ Lives(copy, 0 + SetTTL)
    BY <1>5, <1>11
  <2>7. /\ mlL3' \in [CachedKeys -> CacheCopyType] /\ \A x \in CachedKeys : x # k => mlL3'[x] = mlL3[x]
        /\ mlL3'[k] = copy \/ (mlL3'[k] = mlL3[k] /\ <<p, k>> \in mlLoose')
    BY <1>0, <1>15, <2>4 DEF MlTypes
  <2>8. L3OK(copy)
    <3>1. copy.expires <= mlWritten[copy.value].at + SetTTL /\ mlNow <= copy.expires
      BY <1>5, <1>9, <1>12, <2>4 DEF Young
    <3> QED BY <1>9, <2>4, <3>1 DEF L3OK, Lives
  <2>9. \A q \in Processes : q # p => mlL3'[k] = mlL3[k] \/ Own(mlL3'[k].value, q, k)
    BY <1>9, <2>4, <2>7 DEF Own
  <2>10. OwnKept(p, k) /\ <<p, k>> \notin mlLoose' => Own(mlL3'[k].value, p, k)
    BY <1>10, <2>4, <2>7
  <2>5. mlL1' = mlL1 /\ mlL1' \in [Processes -> [CachedKeys -> CacheCopyType]]
    BY <1>0, <1>15 DEF MlTypes
  <2>6. mlL2' = mlL2 /\ mlL2' \in [Processes -> [CachedKeys -> CacheCopyType]]
    BY <1>0, <1>15 DEF MlTypes
  <2>20. LeavesTheRest(p, k)
    BY <2>5, <2>6, <2>7, <2>9 DEF LeavesTheRest
  <2>21. L1OK(mlL1'[p][k], p) /\ L2OK(mlL2'[p][k], p) /\ L3OK(mlL3'[k])
    BY <1>6, <2>5, <2>6, <2>7, <2>8
  <2>22. KeepsOwn(d, p, k)
    BY <1>7, <1>15, <2>2, <2>5, <2>6, <2>10 DEF KeepsOwn
  <2>23. Works(u, d, p, k)
    BY <1>3, <1>4, <2>1, <2>5, <2>6, <2>7 DEF Works
  <2> QED BY <2>20, <2>21, <2>22, <2>23, WorksMove
<1>16. <<p, k>> \in mlLoose' \/ ~Loosens(u)
  BY <1>1, <1>2 DEF Loosens, Process, KeyOf
<1> QED BY <1>1, <1>2, <1>13, <1>14, <1>15, <1>16 DEF Set

\* Delete leaves nothing at a level.
LEMMA CacheDeleteKeeps ==
    ASSUME MlIInv, NEW u \in CacheUsers, Delete(u)
    PROVE  MlIInv'
<1>0. MlTypes /\ LevelsOK /\ CacheCallOK(mlCall[u])
  BY DEF MlIInv
<1>1. PICK c \in CacheCallType : c = mlCall[u]
  BY <1>0 DEF MlTypes
<1>2. PICK p \in Processes, k \in CachedKeys : p = c.process /\ k = c.key
  BY CacheCallFields
<1>3. /\ c.kind = "delete" /\ c.at \in {"L1", "L2", "L3"}
      /\ UNCHANGED <<mlOpen, mlNow, mlOps, mlWritten, mlLast>> /\ mlLoose \subseteq mlLoose'
  BY <1>1 DEF Delete, Loosens
<1>4. BusyWith(mlCall[u], p, k)
  BY <1>1, <1>2, <1>3 DEF BusyWith
<1>5. {SetTTL, L1TTL, L2TTL, CleanWindow} \subseteq Nat /\ mlNow \in Nat /\ mlOps \in Nat
  BY <1>0, CacheConstants DEF MlTypes
<1>6. L1OK(mlL1[p][k], p) /\ L2OK(mlL2[p][k], p) /\ L3OK(mlL3[k]) /\ L1OK(NoCopy, p) /\ L2OK(NoCopy, p) /\ L3OK(NoCopy)
  BY <1>0, NothingIsOK DEF LevelsOK
<1>7. OwnKept(p, k) =>
         /\ CarriesOwn(c, p, k)
         /\ Own(mlL1[p][k].value, p, k) \/ c.at = "L1"
         /\ Own(mlL2[p][k].value, p, k) \/ c.at \in {"L1", "L2"}
  <2>1. SUFFICES ASSUME OwnKept(p, k) PROVE CarriesOwn(c, p, k) /\ \A P : WritesAt(p, k, P) => c.at \in P
    BY DEF OwnKept
  <2> QED BY <1>1, <1>4, <2>1 DEF OwnKept, WritesAt
<1>8. Own(0, p, k) /\ NoCopy \in CacheCopyType /\ NoCopy.value = 0
  BY CacheConstants DEF Own
<1>13. ASSUME c.at = "L1", CacheGoes(u, "L2"), UNCHANGED <<mlL2, mlL3>>, DeleteFromL1(p, k)
       PROVE  MlIInv'
  <2>1. PICK d \in CacheCallType : /\ mlCall' = [mlCall EXCEPT ![u] = d] /\ d.at = "L2"
                                   /\ d.kind = c.kind /\ d.process = p /\ d.key = k
                                   /\ d.value = c.value /\ d.size = c.size
    BY <1>0, <1>1, <1>2, <1>13, CacheCallGoes DEF CachePlaces
  <2>2. CacheCallOK(d) /\ BusyWith(d, p, k)
    BY <1>0, <1>1, <1>2, <1>3, <2>1 DEF CacheCallOK, BusyWith
  <2>3. OwnKept(p, k) => CarriesOwn(d, p, k)
    BY <1>3, <1>7, <2>1 DEF CarriesOwn
  <2>5. /\ mlL1' \in [Processes -> [CachedKeys -> CacheCopyType]]
        /\ \A q \in Processes, x \in CachedKeys : q # p \/ x # k => mlL1'[q][x] \in {mlL1[q][x], NoCopy}
        /\ mlL1'[p][k] = NoCopy
    BY <1>0, <1>13, FirstLevelDeleted
  <2>6. mlL2' = mlL2 /\ mlL2' \in [Processes -> [CachedKeys -> CacheCopyType]]
    BY <1>0, <1>13 DEF MlTypes
  <2>7. mlL3' = mlL3 /\ mlL3' \in [CachedKeys -> CacheCopyType]
    BY <1>0, <1>13 DEF MlTypes
  <2>20. LeavesTheRest(p, k)
    BY <2>5, <2>6, <2>7 DEF LeavesTheRest
  <2>21. L1OK(mlL1'[p][k], p) /\ L2OK(mlL2'[p][k], p) /\ L3OK(mlL3'[k])
    BY <1>6, <2>5, <2>6, <2>7
  <2>22. KeepsOwn(d, p, k)
    BY <1>3, <1>8, <2>1, <2>2, <2>3, <2>5 DEF KeepsOwn
  <2>23. Works(u, d, p, k)
    BY <1>3, <1>4, <2>1, <2>2, <2>5, <2>6, <2>7 DEF Works
  <2> QED BY <2>20, <2>21, <2>22, <2>23, WorksMove
<1>14. ASSUME c.at = "L2", CacheGoes(u, "L3"), UNCHANGED <<mlL1, mlL3>>,
              SetToL2(p, k, NoCopy)
       PROVE  MlIInv'
  <2>1. PICK d \in CacheCallType : /\ mlCall' = [mlCall EXCEPT ![u] = d] /\ d.at = "L3"
                                   /\ d.kind = c.kind /\ d.process = p /\ d.key = k
                                   /\ d.value = c.value /\ d.size = c.size
    BY <1>0, <1>1, <1>2, <1>14, CacheCallGoes DEF CachePlaces
  <2>2. CacheCallOK(d) /\ BusyWith(d, p, k)
    BY <1>0, <1>1, <1>2, <1>3, <2>1 DEF CacheCallOK, BusyWith
  <2>3. OwnKept(p, k) => CarriesOwn(d, p, k)
    BY <1>3, <1>7, <2>1 DEF CarriesOwn
  <2>6. /\ mlL2' \in [Processes -> [CachedKeys -> CacheCopyType]]
        /\ \A q \in Processes, x \in CachedKeys : q # p \/ x # k => mlL2'[q][x] = mlL2[q][x]
        /\ mlL2'[p][k] = NoCopy
    BY <1>0, <1>8, <1>14, SecondLevelSet
  <2>5. mlL1' = mlL1 /\ mlL1' \in [Processes -> [CachedKeys -> CacheCopyType]]
    BY <1>0, <1>14 DEF MlTypes
  <2>7. mlL3' = mlL3 /\ mlL3' \in [CachedKeys -> CacheCopyType]
    BY <1>0, <1>14 DEF MlTypes
  <2>20. LeavesTheRest(p, k)
    BY <2>5, <2>6, <2>7 DEF LeavesTheRest
  <2>21. L1OK(mlL1'[p][k], p) /\ L2OK(mlL2'[p][k], p) /\ L3OK(mlL3'[k])
    BY <1>6, <2>5, <2>6, <2>7
  <2>22. KeepsOwn(d, p, k)
    BY <1>3, <1>7, <1>8, <1>14, <2>1, <2>2, <2>3, <2>5, <2>6 DEF KeepsOwn
  <2>23. Works(u, d, p, k)
    BY <1>3, <1>4, <2>1, <2>2, <2>5, <2>6, <2>7 DEF Works
  <2> QED BY <2>20, <2>21, <2>22, <2>23, WorksMove
<1>15. ASSUME c.at = "L3", mlCall' = [mlCall EXCEPT ![u] = NoCacheCall], UNCHANGED <<mlL1, mlL2>>,
              mlL3' = [mlL3 EXCEPT ![k] = NoCopy] \/ (mlL3' = mlL3 /\ <<p, k>> \in mlLoose')
       PROVE  MlIInv'
  <2>1. PICK d \in CacheCallType : d.at = "idle" /\ CacheCallOK(d) /\ mlCall' = [mlCall EXCEPT ![u] = d]
    BY <1>0, <1>15, CacheCallEnds
  <2>2. ~BusyWith(d, p, k)
    BY <2>1 DEF BusyWith
  <2>7. /\ mlL3' \in [CachedKeys -> CacheCopyType] /\ \A x \in CachedKeys : x # k => mlL3'[x] = mlL3[x]
        /\ mlL3'[k] = NoCopy \/ (mlL3'[k] = mlL3[k] /\ <<p, k>> \in mlLoose')
    BY <1>0, <1>8, <1>15 DEF MlTypes
  <2>9. \A q \in Processes : q # p => mlL3'[k] = mlL3[k] \/ Own(mlL3'[k].value, q, k)
    BY <1>8, <2>7 DEF Own
  <2>10. OwnKept(p, k) /\ <<p, k>> \notin mlLoose' => Own(mlL3'[k].value, p, k)
    BY <1>8, <2>7
  <2>5. mlL1' = mlL1 /\ mlL1' \in [Processes -> [CachedKeys -> CacheCopyType]]
    BY <1>0, <1>15 DEF MlTypes
  <2>6. mlL2' = mlL2 /\ mlL2' \in [Processes -> [CachedKeys -> CacheCopyType]]
    BY <1>0, <1>15 DEF MlTypes
  <2>20. LeavesTheRest(p, k)
    BY <2>5, <2>6, <2>7, <2>9 DEF LeavesTheRest
  <2>21. L1OK(mlL1'[p][k], p) /\ L2OK(mlL2'[p][k], p) /\ L3OK(mlL3'[k])
    BY <1>6, <2>5, <2>6, <2>7
  <2>22. KeepsOwn(d, p, k)
    BY <1>7, <1>15, <2>2, <2>5, <2>6, <2>10 DEF KeepsOwn
  <2>23. Works(u, d, p, k)
    BY <1>3, <1>4, <2>1, <2>5, <2>6, <2>7 DEF Works
  <2> QED BY <2>20, <2>21, <2>22, <2>23, WorksMove
<1>16. <<p, k>> \in mlLoose' \/ ~Loosens(u)
  BY <1>1, <1>2 DEF Loosens, Process, KeyOf
<1> QED BY <1>1, <1>2, <1>13, <1>14, <1>15, <1>16 DEF Delete

\* Cleaning, and closing a process's cache, only takes copies away.
LEMMA CleaningKeeps ==
    ASSUME MlIInv, UNCHANGED <<mlL3, mlCall, mlNow, mlOps, mlWritten, mlLast, mlLoose>>,
           mlL1' \in [Processes -> [CachedKeys -> CacheCopyType]], mlL2' \in [Processes -> [CachedKeys -> CacheCopyType]],
           mlOpen' \in [Processes -> BOOLEAN], \A p \in Processes : mlOpen'[p] => mlOpen[p],
           \A p \in Processes, k \in CachedKeys :
              mlL1'[p][k] \in {mlL1[p][k], NoCopy} /\ mlL2'[p][k] \in {mlL2[p][k], NoCopy}
    PROVE  MlIInv'
<1>0. MlTypes /\ LevelsOK
  BY DEF MlIInv
<1>1. MlTypes'
  BY <1>0 DEF MlTypes
<1>2. ASSUME NEW p \in Processes, NEW k \in CachedKeys PROVE L1OK(mlL1[p][k], p)' /\ L2OK(mlL2[p][k], p)'
  <2>1. PICK x, y : x = mlL1'[p][k] /\ y = mlL2'[p][k]
    OBVIOUS
  <2>2. L1OK(x, p) /\ L2OK(y, p)
    BY <1>0, <2>1, NothingIsOK DEF LevelsOK
  <2>3. L1OK(x, p)' /\ L2OK(y, p)'
    BY <2>2, CellsStand
  <2> QED BY <2>1, <2>3 DEF L1OK, L2OK, Lives
<1>3. Processes # {}
  BY CachingAssumption
<1>4. ASSUME NEW k \in CachedKeys PROVE L3OK(mlL3[k])'
  <2>1. L3OK(mlL3[k])
    BY <1>0 DEF LevelsOK
  <2> QED BY <2>1 DEF L3OK, Lives
<1>5. ASSUME NEW u \in CacheUsers PROVE CacheCallOK(mlCall[u])'
  <2>1. PICK c \in CacheCallType : c = mlCall[u]
    BY <1>0 DEF MlTypes
  <2>2. CacheCallOK(c)'
    BY <2>1, CallStands DEF MlIInv
  <2> QED BY <2>1, <2>2 DEF CacheCallOK, Young
<1>6. ASSUME NEW p \in Processes, NEW k \in CachedKeys, <<p, k>> \notin mlLoose' PROVE OwnKept(p, k)'
  <2>1. OwnKept(p, k)
    BY <1>6 DEF MlIInv
  <2>2. mlL1'[p][k].value \in {mlL1[p][k].value, 0} /\ mlL2'[p][k].value \in {mlL2[p][k].value, 0}
    BY CacheConstants
  <2> QED BY <2>1, <2>2 DEF OwnKept, Own, CarriesOwn, WritesAt, BusyWith
<1> QED BY <1>1, <1>2, <1>4, <1>5, <1>6 DEF MlIInv, LevelsOK

LEMMA CleanersKeep ==
    ASSUME MlIInv, NEW p \in Processes,
           CleanExpiredL1Entries(p) \/ CleanBigCache(p) \/ CloseCache(p) \/ (\E k \in CachedKeys : CleansUp(p, k))
    PROVE  MlIInv'
<1>0. MlTypes
  BY DEF MlIInv
<1>1. UNCHANGED <<mlL3, mlCall, mlNow, mlOps, mlWritten, mlLast, mlLoose>>
  BY DEF CleanExpiredL1Entries, CleanBigCache, CloseCache, CleansUp, mlHistory
<1>2. mlOpen' \in [Processes -> BOOLEAN] /\ \A q \in Processes : mlOpen'[q] => mlOpen[q]
  BY <1>0 DEF CleanExpiredL1Entries, CleanBigCache, CloseCache, CleansUp, MlTypes
<1>3. NoCopy \in CacheCopyType
  BY CacheConstants
<1>4. /\ mlL1' \in [Processes -> [CachedKeys -> CacheCopyType]]
      /\ \A q \in Processes, k \in CachedKeys : mlL1'[q][k] \in {mlL1[q][k], NoCopy}
  <2>1. CASE CleanExpiredL1Entries(p)
    <3>1. mlL1' = [mlL1 EXCEPT ![p] = [k \in CachedKeys |-> IF Expired(mlL1[p][k]) THEN NoCopy ELSE mlL1[p][k]]]
      BY <1>0, <2>1 DEF CleanExpiredL1Entries, MlTypes
    <3> QED BY <1>0, <1>3, <3>1 DEF MlTypes
  <2>2. ASSUME NEW k \in CachedKeys, CleansUp(p, k)
        PROVE  /\ mlL1' \in [Processes -> [CachedKeys -> CacheCopyType]]
               /\ \A q \in Processes, x \in CachedKeys : mlL1'[q][x] \in {mlL1[q][x], NoCopy}
    BY <1>0, <2>2, FirstLevelDeleted DEF CleansUp
  <2>3. CASE UNCHANGED mlL1
    BY <1>0, <2>3 DEF MlTypes
  <2> QED BY <2>1, <2>2, <2>3 DEF CleanBigCache, CloseCache
<1>5. /\ mlL2' \in [Processes -> [CachedKeys -> CacheCopyType]]
      /\ \A q \in Processes, k \in CachedKeys : mlL2'[q][k] \in {mlL2[q][k], NoCopy}
  <2>1. CASE CleanBigCache(p)
    <3>1. mlL2' = [mlL2 EXCEPT ![p] = [k \in CachedKeys |-> IF Expired(mlL2[p][k]) THEN NoCopy ELSE mlL2[p][k]]]
      BY <1>0, <2>1 DEF CleanBigCache, MlTypes
    <3> QED BY <1>0, <1>3, <3>1 DEF MlTypes
  <2>2. CASE UNCHANGED mlL2
    BY <1>0, <2>2 DEF MlTypes
  <2> QED BY <2>1, <2>2 DEF CleanExpiredL1Entries, CleansUp, CloseCache
<1> QED BY <1>1, <1>2, <1>4, <1>5, CleaningKeeps

\* A tick is longer than a call, and what it would make too old is gone before it.
LEMMA CacheTickKeeps ==
    ASSUME MlIInv, CacheTick
    PROVE  MlIInv'
<1>0. MlTypes /\ LevelsOK
  BY DEF MlIInv
<1>1. /\ UNCHANGED <<mlL1, mlL2, mlOpen, mlCall, mlOps, mlWritten, mlLast, mlLoose>> /\ mlNow' = mlNow + 1
      /\ \A u \in CacheUsers : mlCall[u].at = "idle"
      /\ \A p \in Processes, k \in CachedKeys : mlOpen[p] /\ mlL2[p][k].value # 0 => mlNow < mlL2[p][k].expires + CleanWindow
      /\ mlL3' = [k \in CachedKeys |-> IF mlNow + 1 > mlL3[k].expires THEN NoCopy ELSE mlL3[k]]
  BY DEF CacheTick, CacheAt, mlHistory
<1>2. NoCopy \in CacheCopyType /\ NoCopy.value = 0 /\ CleanWindow \in Nat
  BY CacheConstants
<1>3. mlL3' \in [CachedKeys -> CacheCopyType] /\ \A k \in CachedKeys : mlL3'[k].value \in {mlL3[k].value, 0}
  BY <1>0, <1>1, <1>2 DEF MlTypes
<1>4. MlTypes'
  BY <1>0, <1>1, <1>3 DEF MlTypes
<1>5. ASSUME NEW p \in Processes, NEW k \in CachedKeys PROVE L1OK(mlL1[p][k], p)' /\ L2OK(mlL2[p][k], p)'
  <2>1. PICK x \in CacheCopyType, y \in CacheCopyType : x = mlL1[p][k] /\ y = mlL2[p][k]
    BY <1>0 DEF MlTypes
  <2>2. L1OK(x, p) /\ L2OK(y, p)
    BY <1>0, <2>1 DEF LevelsOK
  <2>3. mlOpen[p] /\ y.value # 0 => mlNow + 1 <= y.expires + CleanWindow
    <3>1. y.expires \in Nat /\ mlNow \in Nat
      BY <1>0 DEF MlTypes, CacheCopyType
    <3>2. mlOpen[p] /\ y.value # 0 => mlNow < y.expires + CleanWindow
      BY <1>1, <2>1
    <3> QED BY <1>2, <3>1, <3>2
  <2>4. L1OK(x, p)' /\ L2OK(y, p)'
    BY <1>1, <2>2, <2>3 DEF L1OK, L2OK, Lives
  <2> QED BY <1>1, <2>1, <2>4 DEF L1OK, L2OK, Lives
<1>6. ASSUME NEW k \in CachedKeys PROVE L3OK(mlL3[k])'
  <2>1. PICK x \in CacheCopyType : x = mlL3[k]
    BY <1>0 DEF MlTypes
  <2>2. L3OK(x) /\ x.expires \in Nat /\ mlNow \in Nat /\ mlOps \in Nat
    BY <1>0, <2>1, CacheConstants DEF LevelsOK, MlTypes, CacheCopyType
  <2>3. CASE mlNow + 1 > x.expires
    <3>1. mlL3'[k] = NoCopy
      BY <1>1, <2>1, <2>3
    <3> QED BY <1>1, <1>2, <2>2, <3>1 DEF L3OK, Lives
  <2>4. CASE ~(mlNow + 1 > x.expires)
    <3>1. mlL3'[k] = x /\ mlNow + 1 <= x.expires
      BY <1>1, <2>1, <2>2, <2>4
    <3> QED BY <1>1, <2>2, <3>1 DEF L3OK, Lives
  <2> QED BY <2>3, <2>4
<1>7. ASSUME NEW u \in CacheUsers PROVE CacheCallOK(mlCall[u])'
  <2>1. mlCall[u].at = "idle" /\ mlCall[u].value <= mlOps
    BY <1>1 DEF MlIInv, CacheCallOK
  <2> QED BY <1>1, <2>1 DEF CacheCallOK
<1>8. ASSUME NEW p \in Processes, NEW k \in CachedKeys, <<p, k>> \notin mlLoose' PROVE OwnKept(p, k)'
  <2>1. OwnKept(p, k)
    BY <1>1, <1>8 DEF MlIInv
  <2> QED BY <1>1, <1>3, <2>1 DEF OwnKept, Own, CarriesOwn, WritesAt, BusyWith
<1> QED BY <1>4, <1>5, <1>6, <1>7, <1>8 DEF MlIInv, LevelsOK

\* A new call: what it writes is the newest of its process, and what was written keeps its time and its writer.
LEMMA CacheCallKeeps ==
    ASSUME MlIInv, NEW u \in CacheUsers, CacheCall(u)
    PROVE  MlIInv'
<1>0. MlTypes /\ LevelsOK
  BY DEF MlIInv
<1>1. PICK kind \in CacheKinds, p \in Processes, k \in CachedKeys, size \in Sizes :
          /\ mlOpen[p] /\ (kind # "set" => size = "small")
          /\ mlCall' = [mlCall EXCEPT ![u] = CacheRequest(kind, p, k, size)]
          /\ mlWritten' = IF kind = "set" THEN [mlWritten EXCEPT ![mlOps + 1] = [by |-> p, at |-> mlNow]]
                          ELSE mlWritten
          /\ mlLast' = IF kind = "get" THEN mlLast
                       ELSE [mlLast EXCEPT ![p][k] = CacheRequest(kind, p, k, size).value]
          /\ mlLoose' = IF kind = "get" /\ Overlapping(u, p, k) = {} THEN mlLoose
                        ELSE IF Overlapping(u, p, k) = {} /\ size = "small" THEN mlLoose \ {<<p, k>>}
                        ELSE mlLoose \cup {<<p, k>>}
  BY DEF CacheCall
<1>2. /\ mlCall[u].at = "idle" /\ mlOps < MaxCacheOps /\ mlOps' = mlOps + 1 /\ mlOps \in Nat /\ mlOps + 1 \in 1 .. MaxCacheOps
      /\ UNCHANGED <<mlL1, mlL2, mlL3, mlOpen, mlNow>> /\ mlNow \in Nat /\ MaxCacheOps \in Nat
  BY <1>0, CacheConstants DEF CacheCall, CacheAt, MlTypes
<1>3. PICK d : d = CacheRequest(kind, p, k, size)
  OBVIOUS
<1>4. /\ d \in CacheCallType /\ d.at = "L1" /\ d.kind = kind /\ d.process = p /\ d.key = k /\ d.size = size
      /\ d.value = IF kind = "set" THEN mlOps + 1 ELSE 0
  BY <1>2, <1>3 DEF CacheCallType, CachePlaces, CacheKinds, CacheRequest
<1>5. /\ mlCall' \in [CacheUsers -> CacheCallType] /\ mlCall'[u] = d
      /\ \A w \in CacheUsers \ {u} : mlCall'[w] = mlCall[w]
  BY <1>0, <1>1, <1>3, <1>4 DEF MlTypes
<1>6. /\ mlWritten' \in [1 .. MaxCacheOps -> [by : Processes, at : Nat]]
      /\ \A v \in 1 .. mlOps : mlWritten'[v] = mlWritten[v]
      /\ kind = "set" => mlWritten'[mlOps + 1].by = p /\ mlWritten'[mlOps + 1].at = mlNow
  BY <1>0, <1>1, <1>2 DEF MlTypes
<1>7. /\ mlLast' \in [Processes -> [CachedKeys -> Nat]]
      /\ \A q \in Processes, x \in CachedKeys : q # p \/ x # k \/ kind = "get" => mlLast'[q][x] = mlLast[q][x]
      /\ kind = "set" => mlLast'[p][k] = mlOps + 1
  BY <1>0, <1>1, <1>2, <1>3, <1>4 DEF MlTypes, CacheKinds
<1>8. MlTypes'
  BY <1>0, <1>2, <1>5, <1>6, <1>7 DEF MlTypes
<1>9. ASSUME NEW v \in Nat, v <= mlOps, v # 0 PROVE mlWritten'[v] = mlWritten[v] /\ v <= mlOps'
  BY <1>2, <1>6, <1>9
<1>10. ASSUME NEW copy \in CacheCopyType, NEW q, mlOpen'[q] = mlOpen[q]
       PROVE  /\ L1OK(copy, q) => L1OK(copy, q)'
              /\ L2OK(copy, q) => L2OK(copy, q)'
              /\ L3OK(copy) => L3OK(copy)'
  <2>1. copy.value \in Nat
    BY DEF CacheCopyType
  <2>2. copy.value <= mlOps => copy.value <= mlOps' /\ (copy.value # 0 => mlWritten'[copy.value] = mlWritten[copy.value])
    BY <1>2, <1>9, <2>1
  <2> QED BY <1>2, <1>10, <2>2 DEF L1OK, L2OK, L3OK, Lives
<1>11. ASSUME NEW q \in Processes, NEW x \in CachedKeys PROVE L1OK(mlL1[q][x], q)' /\ L2OK(mlL2[q][x], q)'
  <2>1. PICK a \in CacheCopyType, b \in CacheCopyType : a = mlL1[q][x] /\ b = mlL2[q][x]
    BY <1>0 DEF MlTypes
  <2>2. L1OK(a, q)' /\ L2OK(b, q)'
    BY <1>0, <1>2, <1>10, <2>1 DEF LevelsOK
  <2> QED BY <1>2, <2>1, <2>2 DEF L1OK, L2OK, Lives
<1>12. ASSUME NEW x \in CachedKeys PROVE L3OK(mlL3[x])'
  <2>1. PICK a \in CacheCopyType : a = mlL3[x]
    BY <1>0 DEF MlTypes
  <2>2. L3OK(a)'
    BY <1>0, <1>1, <1>2, <1>10, <2>1 DEF LevelsOK
  <2> QED BY <1>2, <2>1, <2>2 DEF L3OK, Lives
<1>13. ASSUME NEW w \in CacheUsers PROVE CacheCallOK(mlCall[w])'
  <2>1. CASE w = u
    <3>1. CacheCallOK(d)'
      BY <1>2, <1>4, <1>6 DEF CacheCallOK, Young
    <3> QED BY <1>5, <2>1, <3>1 DEF CacheCallOK, Young
  <2>2. CASE w # u
    <3>1. PICK e \in CacheCallType : e = mlCall[w] /\ e = mlCall'[w]
      BY <1>0, <1>5, <2>2 DEF MlTypes
    <3>2. CacheCallOK(e) /\ e.value \in Nat
      BY <3>1, CacheCallFields DEF MlIInv
    <3>3. e.value <= mlOps' /\ (e.value # 0 => mlWritten'[e.value] = mlWritten[e.value])
      BY <1>9, <1>2, <3>2 DEF CacheCallOK
    <3>4. CacheCallOK(e)'
      BY <1>2, <3>2, <3>3 DEF CacheCallOK, Young
    <3> QED BY <3>1, <3>4 DEF CacheCallOK, Young
  <2> QED BY <2>1, <2>2
<1>14. ASSUME NEW q \in Processes, NEW x \in CachedKeys, <<q, x>> \notin mlLoose' PROVE OwnKept(q, x)'
  <2>1. CASE q # p \/ x # k
    <3>1. OwnKept(q, x)
      BY <1>1, <1>14, <2>1 DEF MlIInv
    <3>2. \A w \in CacheUsers : BusyWith(mlCall'[w], q, x) => w # u /\ mlCall'[w] = mlCall[w] /\ BusyWith(mlCall[w], q, x)
      BY <1>4, <1>5, <2>1 DEF BusyWith
    <3>3. ASSUME NEW v \in Nat, v <= mlOps, Own(v, q, x) PROVE Own(v, q, x)'
      BY <1>7, <1>9, <2>1, <3>3 DEF Own
    <3>4. ASSUME NEW w \in CacheUsers, BusyWith(mlCall'[w], q, x) PROVE CarriesOwn(mlCall[w], q, x)'
      <4>1. PICK e \in CacheCallType : e = mlCall[w] /\ e = mlCall'[w]
        BY <1>0, <3>2, <3>4 DEF MlTypes
      <4>2. CarriesOwn(e, q, x) /\ e.value \in Nat /\ e.value <= mlOps
        BY <3>1, <3>2, <3>4, <4>1, CacheCallFields DEF OwnKept, MlIInv, CacheCallOK
      <4>3. CarriesOwn(e, q, x)'
        BY <1>7, <2>1, <3>3, <4>2 DEF CarriesOwn
      <4> QED BY <4>1, <4>3 DEF CarriesOwn, Own
    <3>5. ASSUME NEW P, WritesAt(q, x, P) PROVE WritesAt(q, x, P)'
      <4>1. PICK w \in CacheUsers : BusyWith(mlCall[w], q, x) /\ mlCall[w].kind # "get" /\ mlCall[w].at \in P
        BY <3>5 DEF WritesAt
      <4>2. mlCall'[w] = mlCall[w]
        BY <1>2, <1>5, <4>1 DEF BusyWith
      <4> QED BY <4>1, <4>2 DEF WritesAt, BusyWith
    <3>6. /\ mlL1[q][x].value \in Nat /\ mlL1[q][x].value <= mlOps
          /\ mlL2[q][x].value \in Nat /\ mlL2[q][x].value <= mlOps
          /\ mlL3[x].value \in Nat /\ mlL3[x].value <= mlOps
      BY <1>0 DEF MlTypes, CacheCopyType, LevelsOK, L1OK, L2OK, L3OK
    <3>7. /\ Own(mlL1[q][x].value, q, x)' \/ WritesAt(q, x, {"L1"})'
          /\ Own(mlL2[q][x].value, q, x)' \/ WritesAt(q, x, {"L1", "L2"})'
          /\ Own(mlL3[x].value, q, x)' \/ WritesAt(q, x, {"L1", "L2", "L3"})'
      <4>1. /\ Own(mlL1[q][x].value, q, x) \/ WritesAt(q, x, {"L1"})
            /\ Own(mlL2[q][x].value, q, x) \/ WritesAt(q, x, {"L1", "L2"})
            /\ Own(mlL3[x].value, q, x) \/ WritesAt(q, x, {"L1", "L2", "L3"})
        BY <3>1 DEF OwnKept
      <4>2. PICK v1, v2, v3 : v1 = mlL1[q][x].value /\ v2 = mlL2[q][x].value /\ v3 = mlL3[x].value
        OBVIOUS
      <4>3. (Own(v1, q, x) => Own(v1, q, x)') /\ (Own(v2, q, x) => Own(v2, q, x)') /\ (Own(v3, q, x) => Own(v3, q, x)')
        BY <3>3, <3>6, <4>2
      <4>4. v1 = mlL1'[q][x].value /\ v2 = mlL2'[q][x].value /\ v3 = mlL3'[x].value
        BY <1>2, <4>2
      <4> QED BY <3>5, <4>1, <4>2, <4>3, <4>4 DEF Own
    <3>8. \A v, w \in CacheUsers : BusyWith(mlCall'[v], q, x) /\ BusyWith(mlCall'[w], q, x) => v = w
      BY <3>1, <3>2 DEF OwnKept
    <3> QED BY <3>4, <3>7, <3>8 DEF OwnKept, BusyWith
  <2>2. CASE q = p /\ x = k
    <3>1. Overlapping(u, p, k) = {} /\ (kind = "get" => <<p, k>> \notin mlLoose) /\ size = "small"
      BY <1>1, <1>14, <2>2
    <3>2. \A w \in CacheUsers : BusyWith(mlCall'[w], p, k) => w = u
      BY <1>5, <3>1 DEF Overlapping, BusyWith
    <3>3. BusyWith(mlCall'[u], p, k)
      BY <1>4, <1>5 DEF BusyWith
    <3>4. CarriesOwn(d, p, k)'
      BY <1>4, <1>7, <3>1 DEF CarriesOwn
    <3>5. CASE kind # "get"
      <4>1. /\ WritesAt(p, k, {"L1"})' /\ WritesAt(p, k, {"L1", "L2"})' /\ WritesAt(p, k, {"L1", "L2", "L3"})'
        BY <1>4, <1>5, <3>3, <3>5 DEF WritesAt, BusyWith
      <4> QED BY <1>5, <2>2, <3>2, <3>4, <4>1 DEF OwnKept, BusyWith, CarriesOwn, Own
    <3>6. CASE kind = "get"
      <4>1. OwnKept(p, k)
        BY <3>1, <3>6 DEF MlIInv
      <4>2. \A w \in CacheUsers : ~BusyWith(mlCall[w], p, k)
        BY <1>2, <3>1 DEF Overlapping, BusyWith
      <4>3. Own(mlL1[p][k].value, p, k) /\ Own(mlL2[p][k].value, p, k) /\ Own(mlL3[k].value, p, k)
        BY <4>1, <4>2 DEF OwnKept, WritesAt
      <4>4. Own(mlL1[p][k].value, p, k)' /\ Own(mlL2[p][k].value, p, k)' /\ Own(mlL3[k].value, p, k)'
        BY <1>1, <1>2, <3>6, <4>3 DEF Own
      <4> QED BY <1>5, <2>2, <3>2, <3>4, <4>4 DEF OwnKept, BusyWith, CarriesOwn, Own
    <3> QED BY <3>5, <3>6
  <2> QED BY <2>1, <2>2
<1> QED BY <1>8, <1>11, <1>12, <1>13, <1>14 DEF MlIInv, LevelsOK

LEMMA LevelsStart == MlInit => MlIInv
<1> SUFFICES ASSUME MlInit PROVE MlIInv
  OBVIOUS
<1> USE DEF MlInit
<1>1. (CHOOSE p \in Processes : TRUE) \in Processes
  BY CachingAssumption
<1>2. MlTypes
  BY <1>1, CacheConstants DEF MlTypes
<1>3. LevelsOK
  BY <1>2, NothingIsOK DEF LevelsOK
<1>4. \A u \in CacheUsers : CacheCallOK(mlCall[u])
  BY CacheConstants DEF CacheCallOK
<1>5. ASSUME NEW p \in Processes, NEW k \in CachedKeys PROVE OwnKept(p, k)
  <2>1. \A u \in CacheUsers : ~BusyWith(mlCall[u], p, k)
    BY CacheConstants DEF BusyWith
  <2>2. mlL1[p][k].value = 0 /\ mlL2[p][k].value = 0 /\ mlL3[k].value = 0
    BY CacheConstants
  <2> QED BY <2>1, <2>2 DEF OwnKept, Own
<1> QED BY <1>2, <1>3, <1>4, <1>5 DEF MlIInv
LEMMA LevelsStep == MlIInv /\ MlNext => MlIInv'
BY CacheCallKeeps, ReadsKeep, PromoteKeeps, SetKeeps, CacheDeleteKeeps, CleanersKeep, CacheTickKeeps DEF MlNext
LEMMA LevelsStutter == MlIInv /\ UNCHANGED mlVars => MlIInv'
<1> SUFFICES ASSUME MlIInv, UNCHANGED mlVars PROVE MlIInv'
  OBVIOUS
<1>1. UNCHANGED <<mlL3, mlCall, mlNow, mlOps, mlWritten, mlLast, mlLoose>> /\ UNCHANGED <<mlL1, mlL2, mlOpen>>
  BY DEF mlVars
<1> QED BY <1>1, CleaningKeeps DEF MlIInv, MlTypes
LEMMA LevelsAreSafe == MlIInv => LifeIsBounded /\ OwnWritesStay
<1> SUFFICES ASSUME MlIInv PROVE LifeIsBounded /\ OwnWritesStay
  OBVIOUS
<1>1. LifeIsBounded
  BY DEF MlIInv, LevelsOK, L1OK, L2OK, L3OK, Lives, LifeIsBounded
<1>2. ASSUME NEW p \in Processes, NEW k \in CachedKeys, <<p, k>> \notin mlLoose,
             \A u \in CacheUsers : ~(mlCall[u].at # "idle" /\ Process(u) = p /\ KeyOf(u) = k),
             NEW copy \in {mlL1[p][k], mlL2[p][k], mlL3[k]}, copy.value # 0, mlWritten[copy.value].by = p
      PROVE  copy.value = mlLast[p][k]
  <2>1. OwnKept(p, k)
    BY <1>2 DEF MlIInv
  <2>2. \A P : ~WritesAt(p, k, P)
    BY <1>2 DEF WritesAt, BusyWith, Process, KeyOf
  <2> QED BY <1>2, <2>1, <2>2 DEF OwnKept, Own
<1>3. OwnWritesStay
  BY <1>2 DEF OwnWritesStay
<1> QED BY <1>1, <1>3

(***************************************************************************)
(* The edge cache.                                                         *)
(***************************************************************************)
EdgeCallType ==
    [at : {"idle", "get", "delete", "set", "hangs"}, key : EdgeKeys, place : EdgeLocations, todo : SUBSET EdgeLocations,
     old : BOOLEAN]
EcIInv ==
    /\ ecCache \in [EdgeLocations -> [EdgeKeys -> {"none", "fresh", "old"}]]
    /\ ecStuck \subseteq EdgeLocations /\ ecEntries \in [EdgeLocations -> Int] /\ ecHealthy \subseteq EdgeLocations
    /\ ecCall \in [EdgeUsers -> EdgeCallType] /\ ecPurges \in Nat /\ ecAccepted \in Nat /\ ecPurged \in Nat
    /\ HangsOnlyWhenFull /\ EdgeCountsKept

LEMMA NoEdgeCallTyped == NoEdgeCall \in EdgeCallType /\ NoEdgeCall.at = "idle"
<1>1. (CHOOSE k \in EdgeKeys : TRUE) \in EdgeKeys /\ (CHOOSE l \in EdgeLocations : TRUE) \in EdgeLocations
  BY CachingAssumption
<1> QED BY <1>1 DEF NoEdgeCall, EdgeCallType
LEMMA HeldIsFinite == \A l : IsFiniteSet(HeldAt(l)) /\ Cardinality(HeldAt(l)) \in Nat
<1>1. ASSUME NEW l PROVE IsFiniteSet(HeldAt(l)) /\ Cardinality(HeldAt(l)) \in Nat
  <2>1. HeldAt(l) \subseteq EdgeKeys /\ IsFiniteSet(EdgeKeys)
    BY CachingAssumption DEF HeldAt
  <2> QED BY <2>1, FS_Subset, FS_CardinalityType
<1> QED BY <1>1

\* A request that leaves the maps alone: it moves on, and hangs nowhere new.
LEMMA EdgeRequestMoves ==
    ASSUME EcIInv, UNCHANGED <<ecCache, ecStuck, ecEntries>>, UNCHANGED <<ecPurges, ecAccepted, ecPurged>>,
           ecHealthy' \subseteq EdgeLocations,
           ecCall' = ecCall \/ \E u \in EdgeUsers, d \in EdgeCallType : d.at # "hangs" /\ ecCall' = [ecCall EXCEPT ![u] = d]
    PROVE  EcIInv'
<1>1. ecCall' \in [EdgeUsers -> EdgeCallType] /\ \A w \in EdgeUsers : ecCall'[w].at = "hangs" => ecCall'[w] = ecCall[w]
  BY DEF EcIInv
<1>2. \A l : HeldAt(l)' = HeldAt(l)
  BY DEF HeldAt
<1> QED BY <1>1, <1>2 DEF EcIInv, HangsOnlyWhenFull, EdgeCountsKept, EdgeAt

LEMMA EdgeReadsKeep ==
    ASSUME EcIInv, NEW u \in EdgeUsers, ServeFromCache(u) \/ GetAtEdge(u) \/ CacheResponse(u)
    PROVE  EcIInv'
<1>1. /\ UNCHANGED <<ecCache, ecStuck, ecEntries>> /\ UNCHANGED <<ecPurges, ecAccepted, ecPurged>>
      /\ ecHealthy' \subseteq EdgeLocations
  BY DEF EcIInv, ServeFromCache, GetAtEdge, CacheResponse, ecStore, ecQueueVars
<1>2. \E d \in EdgeCallType : d.at # "hangs" /\ ecCall' = [ecCall EXCEPT ![u] = d]
  <2>1. CASE ServeFromCache(u)
    <3>1. PICK k \in EdgeKeys, l \in ecHealthy :
             ecCall' = [ecCall EXCEPT ![u] = [NoEdgeCall EXCEPT !.at = "get", !.key = k, !.place = l]]
      BY <2>1 DEF ServeFromCache
    <3>2. [NoEdgeCall EXCEPT !.at = "get", !.key = k, !.place = l] \in EdgeCallType
      BY NoEdgeCallTyped DEF EdgeCallType, EcIInv
    <3>3. [NoEdgeCall EXCEPT !.at = "get", !.key = k, !.place = l].at = "get"
      BY NoEdgeCallTyped DEF EdgeCallType
    <3> QED BY <3>1, <3>2, <3>3
  <2>2. CASE CacheResponse(u)
    <3>1. PICK k \in EdgeKeys :
             ecCall' = [ecCall EXCEPT ![u] = [NoEdgeCall EXCEPT !.at = "set", !.key = k, !.todo = ecHealthy]]
      BY <2>2 DEF CacheResponse
    <3>2. [NoEdgeCall EXCEPT !.at = "set", !.key = k, !.todo = ecHealthy] \in EdgeCallType
      BY NoEdgeCallTyped DEF EdgeCallType, EcIInv
    <3>3. [NoEdgeCall EXCEPT !.at = "set", !.key = k, !.todo = ecHealthy].at = "set"
      BY NoEdgeCallTyped DEF EdgeCallType
    <3> QED BY <3>1, <3>2, <3>3
  <2>3. CASE GetAtEdge(u)
    <3>1. PICK c \in EdgeCallType : c = ecCall[u]
      BY DEF EcIInv
    <3>2. ecCall' = [ecCall EXCEPT ![u] = [c EXCEPT !.at = "delete"]] \/ ecCall' = [ecCall EXCEPT ![u] = NoEdgeCall]
      BY <2>3, <3>1 DEF GetAtEdge, EcIInv
    <3>3. [c EXCEPT !.at = "delete"] \in EdgeCallType /\ [c EXCEPT !.at = "delete"].at = "delete"
      BY DEF EdgeCallType
    <3> QED BY <3>2, <3>3, NoEdgeCallTyped
  <2> QED BY <2>1, <2>2, <2>3
<1> QED BY <1>1, <1>2, EdgeRequestMoves

\* One cell of one location changes: what it held may grow by a key or lose it.
LEMMA EdgeDeleteKeeps ==
    ASSUME EcIInv, NEW u \in EdgeUsers, DeleteAtEdge(u)
    PROVE  EcIInv'
<1>1. PICK c \in EdgeCallType : c = ecCall[u]
  BY DEF EcIInv
<1>2. PICK l \in EdgeLocations, k \in EdgeKeys : l = c.place /\ k = c.key
  BY DEF EdgeCallType
<1>3. /\ l \notin ecStuck /\ ecCall' = [ecCall EXCEPT ![u] = NoEdgeCall] /\ ecStuck' = ecStuck
      /\ ecCache' = [ecCache EXCEPT ![l][k] = "none"]
      /\ ecEntries' = IF ecCache[l][k] = "none" THEN ecEntries ELSE [ecEntries EXCEPT ![l] = @ - 1]
      /\ UNCHANGED <<ecHealthy, ecPurges, ecAccepted, ecPurged>>
  BY <1>1, <1>2 DEF DeleteAtEdge, ecQueueVars
<1>4. /\ ecCache' \in [EdgeLocations -> [EdgeKeys -> {"none", "fresh", "old"}]]
      /\ ecEntries' \in [EdgeLocations -> Int]
      /\ ecCall' \in [EdgeUsers -> EdgeCallType] /\ \A w \in EdgeUsers : ecCall'[w].at = "hangs" => ecCall'[w] = ecCall[w]
  BY <1>3, NoEdgeCallTyped DEF EcIInv
<1>5. \A m \in EdgeLocations \ {l} : HeldAt(m)' = HeldAt(m) /\ ecEntries'[m] = ecEntries[m]
  BY <1>3 DEF HeldAt, EcIInv
<1>6. HeldAt(l)' = HeldAt(l) \ {k}
  BY <1>3 DEF HeldAt, EcIInv
<1>7. ecEntries'[l] >= Cardinality(HeldAt(l))'
  <2>1. ecEntries[l] >= Cardinality(HeldAt(l)) /\ ecEntries[l] \in Int
    BY DEF EcIInv, EdgeCountsKept
  <2>2. IsFiniteSet(HeldAt(l)) /\ Cardinality(HeldAt(l)) \in Nat
    BY HeldIsFinite
  <2>3. Cardinality(HeldAt(l) \ {k}) = IF k \in HeldAt(l) THEN Cardinality(HeldAt(l)) - 1 ELSE Cardinality(HeldAt(l))
    BY <2>2, FS_RemoveElement
  <2>4. k \in HeldAt(l) <=> ecCache[l][k] # "none"
    BY DEF HeldAt
  <2>5. ecEntries'[l] = IF k \in HeldAt(l) THEN ecEntries[l] - 1 ELSE ecEntries[l]
    BY <1>3, <2>4 DEF EcIInv
  <2> QED BY <1>6, <2>1, <2>2, <2>3, <2>5
<1>8. HangsOnlyWhenFull'
  BY <1>3, <1>4, <1>5 DEF EcIInv, HangsOnlyWhenFull, EdgeAt
<1>9. EdgeCountsKept'
  BY <1>3, <1>5, <1>7 DEF EcIInv, EdgeCountsKept
<1> QED BY <1>3, <1>4, <1>8, <1>9 DEF EcIInv

LEMMA EdgeSetKeeps ==
    ASSUME EcIInv, NEW u \in EdgeUsers, SetAtEdge(u)
    PROVE  EcIInv'
<1>1. PICK c \in EdgeCallType : c = ecCall[u]
  BY DEF EcIInv
<1>2. c.key \in EdgeKeys /\ c.todo \subseteq EdgeLocations
  BY DEF EdgeCallType
<1>3. PICK l \in c.todo \ ecStuck :
          IF Cardinality(HeldAt(l)) >= EdgeCapacity
          THEN /\ ecStuck' = ecStuck \cup {l} /\ ecCall' = [ecCall EXCEPT ![u].at = "hangs", ![u].place = l]
               /\ UNCHANGED <<ecCache, ecEntries>>
          ELSE /\ ecCache' = [ecCache EXCEPT ![l][c.key] = "fresh"]
               /\ ecEntries' = [ecEntries EXCEPT ![l] = @ + 1]
               /\ ecCall' = [ecCall EXCEPT ![u] = IF c.todo = {l} THEN NoEdgeCall
                                                  ELSE [c EXCEPT !.todo = c.todo \ {l}]]
               /\ UNCHANGED ecStuck
  BY <1>1 DEF SetAtEdge
<1>4. UNCHANGED <<ecHealthy, ecPurges, ecAccepted, ecPurged>> /\ l \in EdgeLocations
  BY <1>2 DEF SetAtEdge, ecQueueVars
<1>5. CASE Cardinality(HeldAt(l)) >= EdgeCapacity
  <2>1. PICK d : d = [c EXCEPT !.at = "hangs", !.place = l]
    OBVIOUS
  <2>2. d \in EdgeCallType /\ d.place = l
    BY <1>4, <2>1 DEF EdgeCallType
  <2>3. ecCall' = [ecCall EXCEPT ![u] = d] /\ ecStuck' = ecStuck \cup {l} /\ UNCHANGED <<ecCache, ecEntries>>
    BY <1>1, <1>3, <1>5, <2>1 DEF EcIInv
  <2>4. \A m : HeldAt(m)' = HeldAt(m)
    BY <2>3 DEF HeldAt
  <2>5. ecCall' \in [EdgeUsers -> EdgeCallType] /\ ecCall'[u] = d /\ \A w \in EdgeUsers \ {u} : ecCall'[w] = ecCall[w]
    BY <2>2, <2>3 DEF EcIInv
  <2>6. HangsOnlyWhenFull'
    BY <1>5, <2>2, <2>3, <2>4, <2>5 DEF EcIInv, HangsOnlyWhenFull, EdgeAt
  <2>7. EdgeCountsKept'
    BY <1>4, <2>3, <2>4 DEF EcIInv, EdgeCountsKept
  <2> QED BY <1>4, <2>3, <2>5, <2>6, <2>7 DEF EcIInv
<1>6. CASE ~(Cardinality(HeldAt(l)) >= EdgeCapacity)
  <2>1. PICK d : d = IF c.todo = {l} THEN NoEdgeCall ELSE [c EXCEPT !.todo = c.todo \ {l}]
    OBVIOUS
  <2>2. d \in EdgeCallType /\ d.at # "hangs"
    <3>1. c.at = "set"
      BY <1>1 DEF SetAtEdge, EdgeAt
    <3> QED BY <1>2, <2>1, <3>1, NoEdgeCallTyped DEF EdgeCallType
  <2>3. /\ ecCall' = [ecCall EXCEPT ![u] = d] /\ ecStuck' = ecStuck
        /\ ecCache' = [ecCache EXCEPT ![l][c.key] = "fresh"]
        /\ ecEntries' = [ecEntries EXCEPT ![l] = @ + 1]
    BY <1>3, <1>6, <2>1
  <2>4. /\ ecCache' \in [EdgeLocations -> [EdgeKeys -> {"none", "fresh", "old"}]]
        /\ ecEntries' \in [EdgeLocations -> Int]
        /\ ecCall' \in [EdgeUsers -> EdgeCallType] /\ \A w \in EdgeUsers : ecCall'[w].at = "hangs" => ecCall'[w] = ecCall[w]
    BY <1>2, <2>2, <2>3 DEF EcIInv
  <2>5. \A m \in EdgeLocations \ {l} : HeldAt(m)' = HeldAt(m) /\ ecEntries'[m] = ecEntries[m]
    BY <2>3 DEF HeldAt, EcIInv
  <2>6. HeldAt(l)' = HeldAt(l) \cup {c.key}
    BY <1>2, <1>4, <2>3 DEF HeldAt, EcIInv
  <2>7. ecEntries'[l] >= Cardinality(HeldAt(l))'
    <3>1. ecEntries[l] >= Cardinality(HeldAt(l)) /\ ecEntries[l] \in Int
      BY <1>4 DEF EcIInv, EdgeCountsKept
    <3>2. IsFiniteSet(HeldAt(l)) /\ Cardinality(HeldAt(l)) \in Nat
      BY HeldIsFinite
    <3>3. Cardinality(HeldAt(l) \cup {c.key}) <= Cardinality(HeldAt(l)) + 1
      BY <3>2, FS_AddElement
    <3>4. Cardinality(HeldAt(l) \cup {c.key}) \in Nat
      BY <3>2, FS_AddElement, FS_CardinalityType
    <3>5. ecEntries'[l] = ecEntries[l] + 1
      BY <1>4, <2>3 DEF EcIInv
    <3> QED BY <2>6, <3>1, <3>2, <3>3, <3>4, <3>5
  <2>8. HangsOnlyWhenFull'
    BY <1>3, <2>3, <2>4, <2>5 DEF EcIInv, HangsOnlyWhenFull, EdgeAt
  <2>9. EdgeCountsKept'
    BY <1>4, <2>5, <2>7 DEF EcIInv, EdgeCountsKept
  <2> QED BY <1>4, <2>3, <2>4, <2>8, <2>9 DEF EcIInv
<1> QED BY <1>5, <1>6

LEMMA EdgeStart == EcInit => EcIInv
<1> SUFFICES ASSUME EcInit PROVE EcIInv
  OBVIOUS
<1> USE DEF EcInit
<1>1. ASSUME NEW l \in EdgeLocations PROVE Cardinality(HeldAt(l)) = 0
  <2>1. HeldAt(l) = {}
    BY DEF HeldAt
  <2> QED BY <2>1, FS_EmptySet
<1>2. HangsOnlyWhenFull /\ EdgeCountsKept
  BY <1>1, NoEdgeCallTyped DEF HangsOnlyWhenFull, EdgeCountsKept, EdgeAt
<1> QED BY <1>2, NoEdgeCallTyped DEF EcIInv
LEMMA EdgeStutter == EcIInv /\ UNCHANGED ecVars => EcIInv'
<1> SUFFICES ASSUME EcIInv, UNCHANGED ecVars PROVE EcIInv'
  OBVIOUS
<1>1. /\ UNCHANGED <<ecCache, ecStuck, ecEntries>> /\ UNCHANGED <<ecPurges, ecAccepted, ecPurged>>
      /\ ecHealthy' \subseteq EdgeLocations /\ ecCall' = ecCall
  BY DEF ecVars, EcIInv
<1> QED BY <1>1, EdgeRequestMoves
LEMMA EdgeStep == EcIInv /\ EcNext => EcIInv'
<1> SUFFICES ASSUME EcIInv, EcNext PROVE EcIInv'
  OBVIOUS
<1>1. ASSUME NEW l \in EdgeLocations, NEW k \in EdgeKeys, EntryExpires(l, k) PROVE EcIInv'
  <2>1. /\ ecCache[l][k] = "fresh" /\ ecCache' = [ecCache EXCEPT ![l][k] = "old"]
        /\ UNCHANGED <<ecStuck, ecEntries, ecCall, ecHealthy, ecPurges, ecAccepted, ecPurged>>
    BY <1>1 DEF EntryExpires, ecQueueVars
  <2>2. ecCache' \in [EdgeLocations -> [EdgeKeys -> {"none", "fresh", "old"}]]
    BY <2>1 DEF EcIInv
  <2>3. \A m \in EdgeLocations : HeldAt(m)' = HeldAt(m)
    BY <2>1 DEF HeldAt, EcIInv
  <2> QED BY <2>1, <2>2, <2>3 DEF EcIInv, HangsOnlyWhenFull, EdgeCountsKept, EdgeAt
<1>2. ASSUME NEW l \in EdgeLocations, CheckLocationHealth(l) PROVE EcIInv'
  <2>1. /\ UNCHANGED <<ecCache, ecStuck, ecEntries>> /\ UNCHANGED <<ecPurges, ecAccepted, ecPurged>>
        /\ ecHealthy' \subseteq EdgeLocations /\ ecCall' = ecCall
    BY <1>2 DEF CheckLocationHealth, ecStore, ecQueueVars, EcIInv
  <2> QED BY <2>1, EdgeRequestMoves
<1>3. CASE PerformHealthChecks \/ CloseEdge
  <2>1. /\ UNCHANGED <<ecCache, ecStuck, ecEntries>> /\ UNCHANGED <<ecPurges, ecAccepted, ecPurged>>
        /\ ecHealthy' \subseteq EdgeLocations /\ ecCall' = ecCall
    BY <1>3 DEF PerformHealthChecks, CloseEdge, ecStore, ecQueueVars, EcIInv
  <2> QED BY <2>1, EdgeRequestMoves
<1>4. CASE PurgeCache \/ ProcessPurgeQueue
  <2>1. UNCHANGED <<ecCache, ecStuck, ecEntries, ecCall, ecHealthy>>
    BY <1>4 DEF PurgeCache, ProcessPurgeQueue, ecStore
  <2>2. /\ ecPurges' \in Nat /\ ecAccepted' \in Nat /\ ecPurged' \in Nat
        /\ ecAccepted' = ecPurged' + ecPurges'
    <3>1. ecPurges \in Nat /\ ecAccepted \in Nat /\ ecPurged \in Nat /\ ecAccepted = ecPurged + ecPurges
      BY DEF EcIInv, EdgeCountsKept
    <3>2. CASE PurgeCache
      <4>1. \/ UNCHANGED <<ecPurges, ecAccepted, ecPurged>>
            \/ ecPurges' = ecPurges + 1 /\ ecAccepted' = ecAccepted + 1 /\ ecPurged' = ecPurged
        BY <3>2 DEF PurgeCache
      <4> QED BY <3>1, <4>1
    <3>3. CASE ProcessPurgeQueue
      <4>1. \/ UNCHANGED <<ecPurges, ecAccepted, ecPurged>>
            \/ ecPurges > 0 /\ ecPurges' = ecPurges - 1 /\ ecPurged' = ecPurged + 1 /\ ecAccepted' = ecAccepted
        BY <3>3 DEF ProcessPurgeQueue
      <4> QED BY <3>1, <4>1
    <3> QED BY <1>4, <3>2, <3>3
  <2>3. \A m : HeldAt(m)' = HeldAt(m)
    BY <2>1 DEF HeldAt
  <2> QED BY <2>1, <2>2, <2>3 DEF EcIInv, HangsOnlyWhenFull, EdgeCountsKept, EdgeAt
<1> QED BY <1>1, <1>2, <1>3, <1>4, EdgeReadsKeep, EdgeDeleteKeeps, EdgeSetKeeps DEF EcNext
LEMMA EdgeIsSafe == EcIInv => HangsOnlyWhenFull /\ EdgeCountsKept
BY DEF EcIInv

(***************************************************************************)
(* The browser client: its tokens.                                         *)
(***************************************************************************)
FetchType ==
    [at : {"idle", "sent", "refreshing", "resent", "done", "failed", "auth error"}, with : Nat, attempt : Nat]
\* A refresh that overlaps no other offers the token that was issued last.
FcTIInv ==
    /\ fcIssued \in Nat /\ fcRefresh = fcIssued /\ fcAccess \in Nat /\ fcExpiredUpTo \in Nat
    /\ fcCalls \in [Calls -> FetchType] /\ fcFaults \in Nat /\ fcOverlapped \in BOOLEAN
    /\ ~fcOverlapped => \A c \in Refreshing : fcCalls[c].with = fcIssued /\ \A d \in Refreshing : c = d
    /\ AuthErrorIsEarned

LEMMA StaysPositive == \A a, b \in Nat : b >= a /\ a > 0 => b > 0
OBVIOUS
LEMMA FaultsGrow ==
    ASSUME fcFaults \in Nat, ClientFault
    PROVE  fcFaults' \in Nat /\ fcFaults' >= fcFaults /\ fcFaults' > 0
<1>1. fcFaults' = fcFaults + 1
  BY DEF ClientFault
<1> QED BY <1>1

LEMMA FetchMoves ==
    ASSUME FcTIInv, NEW c \in Calls, NEW e \in FetchType, fcCalls' = [fcCalls EXCEPT ![c] = e],
           fcFaults' \in Nat, fcFaults' >= fcFaults, fcOverlapped' \in BOOLEAN, fcOverlapped => fcOverlapped',
           fcIssued' \in Nat, fcRefresh' = fcIssued', fcAccess' \in Nat, UNCHANGED fcExpiredUpTo,
           e.at = "auth error" => fcFaults' > 0 \/ fcOverlapped',
           ~fcOverlapped' => \/ UNCHANGED fcIssued /\ e.at # "refreshing"
                             \/ UNCHANGED fcIssued /\ Refreshing = {} /\ e.with = fcIssued
                             \/ c \in Refreshing /\ e.at # "refreshing"
    PROVE  FcTIInv'
<1>1. /\ fcCalls' \in [Calls -> FetchType] /\ fcCalls'[c] = e /\ \A d \in Calls \ {c} : fcCalls'[d] = fcCalls[d]
  BY DEF FcTIInv
<1>2. ASSUME ~fcOverlapped', NEW d \in Refreshing' PROVE fcCalls'[d].with = fcIssued' /\ \A x \in Refreshing' : d = x
  <2>1. ~fcOverlapped
    BY <1>2
  <2>2. \A x \in Calls \ {c} : x \in Refreshing' <=> x \in Refreshing
    BY <1>1 DEF Refreshing
  <2>3. c \in Refreshing' <=> e.at = "refreshing"
    BY <1>1 DEF Refreshing
  <2>4. d \in Calls /\ \A x \in Refreshing' : x \in Calls
    BY <1>2 DEF Refreshing
  <2>5. \A x, y \in Refreshing : fcCalls[x].with = fcIssued /\ x = y
    BY <2>1 DEF FcTIInv
  <2>6. CASE UNCHANGED fcIssued /\ e.at # "refreshing"
    BY <1>1, <1>2, <2>2, <2>3, <2>4, <2>5, <2>6
  <2>7. CASE UNCHANGED fcIssued /\ Refreshing = {} /\ e.with = fcIssued
    BY <1>1, <1>2, <2>2, <2>3, <2>4, <2>5, <2>7
  <2>8. CASE c \in Refreshing /\ e.at # "refreshing"
    BY <1>1, <1>2, <2>2, <2>3, <2>4, <2>5, <2>8
  <2> QED BY <1>2, <2>6, <2>7, <2>8
<1>3. AuthErrorIsEarned'
  <2>1. AuthErrorIsEarned /\ fcFaults \in Nat
    BY DEF FcTIInv
  <2>2. SUFFICES ASSUME NEW d \in Calls, fcCalls'[d].at = "auth error" PROVE fcFaults' > 0 \/ fcOverlapped'
    BY DEF AuthErrorIsEarned
  <2>3. CASE d = c
    BY <1>1, <2>2, <2>3
  <2>4. CASE d # c
    <3>1. fcFaults > 0 \/ fcOverlapped
      BY <1>1, <2>1, <2>2, <2>4 DEF AuthErrorIsEarned
    <3> QED BY <2>1, <3>1, StaysPositive, Zenon
  <2> QED BY <2>3, <2>4
<1>4. fcExpiredUpTo' \in Nat
  BY DEF FcTIInv
<1> QED BY <1>1, <1>2, <1>3, <1>4 DEF FcTIInv

LEMMA TokensStart == FcInit => FcTIInv
<1> SUFFICES ASSUME FcInit PROVE FcTIInv
  OBVIOUS
<1>1. /\ fcIssued = 1 /\ fcExpiredUpTo = 0 /\ fcAccess = 1 /\ fcRefresh = 1 /\ fcFaults = 0 /\ fcOverlapped = FALSE
      /\ fcCalls \in [Calls -> FetchType] /\ \A c \in Calls : fcCalls[c].at = "idle"
  BY DEF FcInit, IdleFetch, FetchType
<1> QED BY <1>1 DEF FcTIInv, Refreshing, AuthErrorIsEarned
LEMMA TokensStand == FcTIInv /\ UNCHANGED fcTokenVars /\ fcFaults' \in Nat /\ fcFaults' >= fcFaults => FcTIInv'
<1> SUFFICES ASSUME FcTIInv, UNCHANGED fcTokenVars, fcFaults' \in Nat, fcFaults' >= fcFaults PROVE FcTIInv'
  OBVIOUS
<1>1. UNCHANGED <<fcIssued, fcExpiredUpTo, fcAccess, fcRefresh, fcCalls, fcOverlapped>> /\ fcFaults \in Nat
  BY DEF fcTokenVars, FcTIInv
<1>2. fcFaults > 0 => fcFaults' > 0
  BY <1>1
<1>3. AuthErrorIsEarned'
  <2>1. AuthErrorIsEarned
    BY DEF FcTIInv
  <2> QED BY <1>1, <1>2, <2>1, Zenon DEF AuthErrorIsEarned
<1> QED BY <1>1, <1>3 DEF FcTIInv, Refreshing
LEMMA TokensStep == FcTIInv /\ FcTokensNext => FcTIInv' /\ fcFaults' \in Nat /\ fcFaults' >= fcFaults
<1> SUFFICES ASSUME FcTIInv, FcTokensNext PROVE FcTIInv' /\ fcFaults' \in Nat /\ fcFaults' >= fcFaults
  OBVIOUS
<1>0. fcFaults \in Nat /\ fcIssued \in Nat /\ fcAccess \in Nat /\ fcOverlapped \in BOOLEAN /\ fcRefresh = fcIssued
  BY DEF FcTIInv
<1>1. CASE AccessTokenExpires
  <2>1. UNCHANGED <<fcIssued, fcAccess, fcRefresh, fcCalls, fcOverlapped, fcFaults>> /\ fcExpiredUpTo' = fcIssued
    BY <1>1 DEF AccessTokenExpires
  <2>2. AuthErrorIsEarned'
    BY <2>1 DEF FcTIInv, AuthErrorIsEarned
  <2>3. FcTIInv'
    BY <1>0, <2>1, <2>2 DEF FcTIInv, Refreshing
  <2> QED BY <1>0, <2>1, <2>3
<1>2. ASSUME NEW c \in Calls, RequestStarts(c) \/ ExecuteRequest(c) \/ RefreshAuthToken(c) \/ ProcessResponse(c)
      PROVE  FcTIInv' /\ fcFaults' \in Nat /\ fcFaults' >= fcFaults
  <2>1. PICK b \in FetchType : b = fcCalls[c]
    BY DEF FcTIInv
  <2>2. b.with \in Nat /\ b.attempt \in Nat
    BY DEF FetchType
  <2>3. ASSUME NEW at \in {"done", "failed", "auth error"}, FetchGoes(c, at),
               at = "auth error" => fcFaults' > 0 \/ fcOverlapped',
               fcFaults' \in Nat, fcFaults' >= fcFaults, UNCHANGED <<fcIssued, fcExpiredUpTo, fcAccess, fcRefresh, fcOverlapped>>
        PROVE  FcTIInv'
    <3>1. PICK e : e = [b EXCEPT !.at = at]
      OBVIOUS
    <3>2. e \in FetchType /\ e.at = at
      BY <3>1 DEF FetchType
    <3>3. fcCalls' = [fcCalls EXCEPT ![c] = e]
      BY <2>1, <2>3, <3>1 DEF FetchGoes, FcTIInv
    <3> QED BY <1>0, <2>3, <3>2, <3>3, FetchMoves
  <2>4. ASSUME NEW n \in Nat, FetchSends(c, n), fcFaults' \in Nat, fcFaults' >= fcFaults,
               UNCHANGED <<fcIssued, fcExpiredUpTo, fcAccess, fcRefresh, fcOverlapped>>
        PROVE  FcTIInv'
    <3>1. PICK e : e = [at |-> "sent", with |-> fcAccess, attempt |-> n]
      OBVIOUS
    <3>2. e \in FetchType /\ e.at = "sent"
      BY <1>0, <3>1 DEF FetchType
    <3>3. fcCalls' = [fcCalls EXCEPT ![c] = e]
      BY <2>4, <3>1 DEF FetchSends
    <3> QED BY <1>0, <2>4, <3>2, <3>3, FetchMoves
  <2>5. ASSUME ExecuteWithRetry(c), fcFaults' \in Nat, fcFaults' >= fcFaults,
               UNCHANGED <<fcIssued, fcExpiredUpTo, fcAccess, fcRefresh, fcOverlapped>>
        PROVE  FcTIInv'
    <3>1. CASE FetchSends(c, b.attempt + 1)
      BY <2>2, <2>4, <2>5, <3>1
    <3>2. CASE FetchGoes(c, "failed")
      BY <2>3, <2>5, <3>2
    <3> QED BY <2>1, <2>5, <3>1, <3>2 DEF ExecuteWithRetry
  <2>6. CASE RequestStarts(c)
    <3>1. FetchSends(c, 1) /\ UNCHANGED <<fcIssued, fcExpiredUpTo, fcAccess, fcRefresh, fcOverlapped, fcFaults>>
      BY <2>6 DEF RequestStarts
    <3> QED BY <1>0, <2>4, <3>1
  <2>7. CASE ExecuteRequest(c)
    <3>1. UNCHANGED <<fcIssued, fcExpiredUpTo, fcAccess, fcRefresh>>
      BY <2>7 DEF ExecuteRequest
    <3>2. CASE FetchGoes(c, "done") /\ UNCHANGED <<fcFaults, fcOverlapped>>
      BY <1>0, <2>3, <3>1, <3>2
    <3>3. CASE ClientFault /\ ExecuteWithRetry(c) /\ UNCHANGED fcOverlapped
      <4>1. fcFaults' \in Nat /\ fcFaults' >= fcFaults
        BY <1>0, <3>3, FaultsGrow
      <4>2. FcTIInv'
        BY <2>5, <3>1, <3>3, <4>1
      <4> QED BY <4>1, <4>2
    <3>4. CASE /\ fcCalls' = [fcCalls EXCEPT ![c].at = "refreshing", ![c].with = fcRefresh]
               /\ UNCHANGED fcFaults /\ fcOverlapped' = (fcOverlapped \/ Refreshing # {})
      <4>1. PICK e : e = [b EXCEPT !.at = "refreshing", !.with = fcIssued]
        OBVIOUS
      <4>2. e \in FetchType /\ e.at = "refreshing" /\ e.with = fcIssued
        BY <1>0, <4>1 DEF FetchType
      <4>3. fcCalls' = [fcCalls EXCEPT ![c] = e]
        BY <1>0, <2>1, <3>4, <4>1 DEF FcTIInv
      <4>4. fcOverlapped' \in BOOLEAN /\ (fcOverlapped => fcOverlapped') /\ (~fcOverlapped' => Refreshing = {})
        BY <1>0, <3>4
      <4>5. /\ fcIssued' \in Nat /\ fcRefresh' = fcIssued' /\ fcAccess' \in Nat
            /\ fcFaults' \in Nat /\ fcFaults' >= fcFaults
        BY <1>0, <3>1, <3>4
      <4>6. FcTIInv'
        BY <3>1, <4>2, <4>3, <4>4, <4>5, FetchMoves
      <4> QED BY <4>5, <4>6
    <3> QED BY <2>7, <3>2, <3>3, <3>4 DEF ExecuteRequest
  <2>8. CASE ProcessResponse(c)
    <3>1. UNCHANGED <<fcIssued, fcExpiredUpTo, fcAccess, fcRefresh, fcOverlapped, fcFaults>>
          /\ (FetchGoes(c, "done") \/ ExecuteWithRetry(c))
      BY <2>8 DEF ProcessResponse
    <3>2. fcFaults' \in Nat /\ fcFaults' >= fcFaults
      BY <1>0, <3>1
    <3>3. FcTIInv'
      BY <2>3, <2>5, <3>1, <3>2
    <3> QED BY <3>2, <3>3
  <2>9. CASE RefreshAuthToken(c)
    <3>1. UNCHANGED <<fcExpiredUpTo, fcOverlapped>> /\ fcCalls[c].at = "refreshing" /\ c \in Refreshing
      BY <2>9 DEF RefreshAuthToken, Refreshing
    <3>2. CASE /\ fcIssued' = fcIssued + 1 /\ fcAccess' = fcIssued + 1 /\ fcRefresh' = fcIssued + 1
               /\ fcCalls' = [fcCalls EXCEPT ![c].at = "resent", ![c].with = fcIssued + 1] /\ UNCHANGED fcFaults
      <4>1. PICK e : e = [b EXCEPT !.at = "resent", !.with = fcIssued + 1]
        OBVIOUS
      <4>2. e \in FetchType /\ e.at = "resent"
        <5>1. fcIssued + 1 \in Nat
          BY <1>0
        <5> QED BY <4>1, <5>1 DEF FetchType
      <4>3. fcCalls' = [fcCalls EXCEPT ![c] = e]
        BY <1>0, <2>1, <3>2, <4>1 DEF FcTIInv
      <4>4. /\ fcIssued' \in Nat /\ fcRefresh' = fcIssued' /\ fcAccess' \in Nat
            /\ fcFaults' \in Nat /\ fcFaults' >= fcFaults /\ fcOverlapped' \in BOOLEAN /\ (fcOverlapped => fcOverlapped')
        BY <1>0, <3>1, <3>2
      <4>5. FcTIInv'
        BY <3>1, <4>2, <4>3, <4>4, FetchMoves
      <4> QED BY <4>4, <4>5
    <3>3. CASE fcCalls[c].with # fcIssued /\ FetchGoes(c, "auth error") /\ UNCHANGED <<fcIssued, fcAccess, fcRefresh, fcFaults>>
      <4>1. fcOverlapped
        BY <3>1, <3>3 DEF FcTIInv
      <4>2. fcFaults' \in Nat /\ fcFaults' >= fcFaults
        <5>1. fcFaults' = fcFaults
          BY <3>3
        <5>2. fcFaults >= fcFaults
          BY <1>0
        <5> QED BY <1>0, <5>1, <5>2, Zenon
      <4>3. fcOverlapped'
        BY <3>1, <4>1, Zenon
      <4>4. FcTIInv'
        BY <2>3, <3>1, <3>3, <4>2, <4>3
      <4> QED BY <4>2, <4>4
    <3>4. CASE ClientFault /\ FetchGoes(c, "auth error") /\ UNCHANGED <<fcIssued, fcAccess, fcRefresh>>
      <4>1. fcFaults' \in Nat /\ fcFaults' >= fcFaults /\ fcFaults' > 0
        BY <1>0, <3>4, FaultsGrow
      <4>2. FcTIInv'
        BY <2>3, <3>1, <3>4, <4>1
      <4> QED BY <4>1, <4>2
    <3> QED BY <2>9, <3>2, <3>3, <3>4 DEF RefreshAuthToken
  <2> QED BY <1>2, <2>6, <2>7, <2>8, <2>9
<1> QED BY <1>1, <1>2 DEF FcTokensNext

(***************************************************************************)
(* Its offline queue.                                                      *)
(***************************************************************************)
IsQueue(queue) ==
    DOMAIN queue \subseteq Queued /\ \A id \in DOMAIN queue : queue[id] \in 0 .. MaxFetchAttempts - 1 /\ fcAdded[id] # 0
Attempts(closes) == MaxFetchAttempts * (1 + closes)
\* A request in the queue may be sent once more, and so often as its attempts allow.
QueuedOK(id) ==
    /\ fcApplied[id] <= fcSent[id] /\ fcSent[id] <= 1 + fcFaults + fcCloses /\ fcSent[id] <= Attempts(fcCloses)
    /\ fcAdded[id] = 0 => fcSent[id] = 0
    /\ id \in DOMAIN fcQueue /\ id \notin fcPass.handling =>
          /\ fcSent[id] <= fcFaults + fcCloses
          /\ fcSent[id] + MaxFetchAttempts <= Attempts(fcCloses) + fcQueue[id]
    /\ id \in DOMAIN fcPass.pending =>
          IF id \in fcPass.handling THEN fcSent[id] + MaxFetchAttempts <= Attempts(fcCloses) + fcPass.pending[id] + 1
          ELSE /\ fcSent[id] <= fcFaults + fcCloses
               /\ fcSent[id] + MaxFetchAttempts <= Attempts(fcCloses) + fcPass.pending[id]
PassOK ==
    /\ IsQueue(fcPass.pending) /\ fcPass.handling \subseteq DOMAIN fcPass.pending
    /\ \A x, y \in fcPass.handling : x = y
    /\ fcPass.on \in BOOLEAN /\ (fcPass.on <=> DOMAIN fcPass.pending # {})
QueueTypes ==
    /\ fcAdded \in [Queued -> Nat] /\ fcSent \in [Queued -> Nat] /\ fcApplied \in [Queued -> Nat]
    /\ fcCloses \in Nat /\ fcFaults \in Nat
FcQIInv == QueueTypes /\ IsQueue(fcQueue) /\ IsQueue(fcStored) /\ PassOK /\ \A id \in Queued : QueuedOK(id)

LEMMA AttemptsGrow ==
    ASSUME NEW closes \in Nat
    PROVE  /\ Attempts(closes) \in Nat /\ Attempts(closes + 1) = Attempts(closes) + MaxFetchAttempts
           /\ MaxFetchAttempts <= Attempts(closes) /\ MaxFetchAttempts \in Nat \ {0}
<1>1. MaxFetchAttempts \in Nat \ {0}
  BY FrontendAssumption
<1>2. \A m \in Nat, n \in Nat : m * (1 + n) \in Nat /\ m * (1 + (n + 1)) = m * (1 + n) + m /\ m <= m * (1 + n)
  <2>1. ASSUME NEW m \in Nat, NEW n \in Nat PROVE m * (1 + n) \in Nat /\ m * (1 + (n + 1)) = m * (1 + n) + m /\ m <= m * (1 + n)
    <3>1. m * n \in Nat /\ m * (1 + n) = m + m * n /\ m * (1 + (n + 1)) = m + m * n + m
      OBVIOUS
    <3> QED BY <3>1
  <2> QED BY <2>1
<1> QED BY <1>1, <1>2 DEF Attempts

LEMMA FirstIsThere ==
    ASSUME QueueTypes, NEW queue, IsQueue(queue), DOMAIN queue # {}
    PROVE  FirstOf(queue) \in DOMAIN queue
<1> DEFINE I == {fcAdded[id] : id \in DOMAIN queue}
<1>1. I \subseteq Nat /\ I # {}
  BY DEF QueueTypes, IsQueue
<1>2. Min(I) \in I /\ \A j \in I : Min(I) <= j
  BY <1>1, LeastIsThere
<1>3. PICK id \in DOMAIN queue : fcAdded[id] = Min(I)
  BY <1>2
<1>4. \A o \in DOMAIN queue : fcAdded[id] <= fcAdded[o]
  BY <1>2, <1>3
<1> HIDE DEF I
<1> QED BY <1>4 DEF FirstOf

LEMMA RemovedIsQueue ==
    ASSUME NEW queue, NEW id, IsQueue(queue)
    PROVE  /\ IsQueue(RemoveFromQueue(queue, id)) /\ DOMAIN RemoveFromQueue(queue, id) = DOMAIN queue \ {id}
           /\ \A o \in DOMAIN queue \ {id} : RemoveFromQueue(queue, id)[o] = queue[o]
BY DEF RemoveFromQueue, IsQueue
LEMMA NoPassFields == NoPass.on = FALSE /\ NoPass.handling = {} /\ DOMAIN NoPass.pending = {} /\ IsQueue(NoPass.pending)
BY DEF NoPass, NoQueue, IsQueue
LEMMA PassFields ==
    ASSUME NEW pending, NEW handling
    PROVE  /\ PassOver(pending, handling).on = TRUE /\ PassOver(pending, handling).pending = pending
           /\ PassOver(pending, handling).handling = handling
BY DEF PassOver

\* What a request is allowed stays allowed while nothing is sent and it is in no more places.
LEMMA RequestStands ==
    ASSUME FcQIInv, NEW id \in Queued, UNCHANGED <<fcSent, fcApplied, fcAdded, fcCloses>>,
           fcFaults' \in Nat, fcFaults' >= fcFaults,
           id \in DOMAIN fcQueue' => id \in DOMAIN fcQueue /\ fcQueue'[id] = fcQueue[id],
           id \in DOMAIN fcPass'.pending => id \in DOMAIN fcPass.pending /\ fcPass'.pending[id] = fcPass.pending[id],
           id \in fcPass'.handling <=> id \in fcPass.handling
    PROVE  QueuedOK(id)'
<1>1. QueuedOK(id) /\ fcFaults \in Nat /\ fcCloses \in Nat /\ fcSent[id] \in Nat /\ fcApplied[id] \in Nat
  BY DEF FcQIInv, QueueTypes
<1>2. Attempts(fcCloses)' = Attempts(fcCloses) /\ Attempts(fcCloses) \in Nat
  BY <1>1, AttemptsGrow DEF Attempts
<1> QED BY <1>1, <1>2 DEF QueuedOK

LEMMA AddRequestKeeps ==
    ASSUME FcQIInv, NEW id \in Queued, AddRequest(id)
    PROVE  FcQIInv'
<1>1. /\ fcAdded[id] = 0 /\ fcAdded' = [fcAdded EXCEPT ![id] = Cardinality({o \in Queued : fcAdded[o] # 0}) + 1]
      /\ fcQueue' = [o \in DOMAIN fcQueue \cup {id} |-> IF o = id THEN 0 ELSE fcQueue[o]] /\ fcStored' = fcQueue'
      /\ UNCHANGED <<fcPass, fcSent, fcApplied, fcCloses, fcFaults>>
  BY DEF AddRequest
<1>2. Cardinality({o \in Queued : fcAdded[o] # 0}) \in Nat
  <2>1. IsFiniteSet({o \in Queued : fcAdded[o] # 0})
    BY FrontendAssumption, FS_Subset
  <2> QED BY <2>1, FS_CardinalityType
<1>3. fcAdded' \in [Queued -> Nat] /\ fcAdded'[id] # 0 /\ \A o \in Queued \ {id} : fcAdded'[o] = fcAdded[o]
  BY <1>1, <1>2 DEF FcQIInv, QueueTypes
<1>4. MaxFetchAttempts \in Nat \ {0}
  BY FrontendAssumption
<1>5. IsQueue(fcQueue)' /\ IsQueue(fcStored)'
  <2>1. DOMAIN fcQueue' = DOMAIN fcQueue \cup {id} /\ fcQueue'[id] = 0 /\ \A o \in DOMAIN fcQueue \ {id} : fcQueue'[o] = fcQueue[o]
    BY <1>1
  <2>2. 0 \in 0 .. MaxFetchAttempts - 1
    BY <1>4
  <2>3. DOMAIN fcQueue \subseteq Queued /\ \A o \in DOMAIN fcQueue : fcQueue[o] \in 0 .. MaxFetchAttempts - 1 /\ fcAdded[o] # 0
    BY DEF FcQIInv, IsQueue
  <2>4. \A o \in DOMAIN fcQueue' : o \in Queued /\ fcQueue'[o] \in 0 .. MaxFetchAttempts - 1 /\ fcAdded'[o] # 0
    BY <1>3, <2>1, <2>2, <2>3
  <2> QED BY <1>1, <2>4 DEF IsQueue
<1>6. PassOK'
  BY <1>1, <1>3 DEF FcQIInv, PassOK, IsQueue
<1>7. QueueTypes'
  BY <1>1, <1>3 DEF FcQIInv, QueueTypes
<1>8. ASSUME NEW o \in Queued PROVE QueuedOK(o)'
  <2>1. /\ QueuedOK(o) /\ fcSent[o] \in Nat /\ fcFaults \in Nat /\ fcCloses \in Nat
    BY DEF FcQIInv, QueueTypes
  <2>2. Attempts(fcCloses)' = Attempts(fcCloses) /\ Attempts(fcCloses) \in Nat /\ MaxFetchAttempts <= Attempts(fcCloses)
    BY <1>1, <2>1, AttemptsGrow DEF Attempts
  <2>3. CASE o = id
    <3>1. fcSent[id] = 0 /\ id \notin DOMAIN fcPass.pending /\ fcQueue'[id] = 0
      BY <1>1, <2>1, <2>3 DEF QueuedOK, FcQIInv, PassOK, IsQueue
    <3> QED BY <1>1, <1>4, <2>1, <2>2, <2>3, <3>1 DEF QueuedOK
  <2>4. CASE o # id
    <3>1. /\ o \in DOMAIN fcQueue' => o \in DOMAIN fcQueue /\ fcQueue'[o] = fcQueue[o]
          /\ fcAdded'[o] = fcAdded[o]
      BY <1>1, <1>3, <2>4
    <3> QED BY <1>1, <2>1, <2>2, <3>1 DEF QueuedOK
  <2> QED BY <2>3, <2>4
<1> QED BY <1>5, <1>6, <1>7, <1>8 DEF FcQIInv

LEMMA StartPassKeeps == FcQIInv /\ StartPass => FcQIInv'
<1> SUFFICES ASSUME FcQIInv, StartPass PROVE FcQIInv'
  OBVIOUS
<1>1. /\ DOMAIN fcQueue # {} /\ fcPass' = PassOver(fcQueue, {}) /\ ~fcPass.on
      /\ UNCHANGED <<fcQueue, fcStored, fcSent, fcApplied, fcCloses, fcAdded, fcFaults>>
  BY DEF StartPass
<1>2. fcPass'.on /\ fcPass'.pending = fcQueue /\ fcPass'.handling = {} /\ fcPass.handling = {}
  BY <1>1, PassFields DEF FcQIInv, PassOK
<1>3. PassOK' /\ QueueTypes' /\ IsQueue(fcQueue)' /\ IsQueue(fcStored)'
  BY <1>1, <1>2 DEF FcQIInv, PassOK, QueueTypes, IsQueue
<1>4. ASSUME NEW o \in Queued PROVE QueuedOK(o)'
  <2>1. QueuedOK(o) /\ fcCloses \in Nat
    BY DEF FcQIInv, QueueTypes
  <2>2. Attempts(fcCloses)' = Attempts(fcCloses)
    BY <1>1 DEF Attempts
  <2> QED BY <1>1, <1>2, <2>1, <2>2 DEF QueuedOK
<1> QED BY <1>3, <1>4 DEF FcQIInv

LEMMA SendQueuedKeeps == FcQIInv /\ SendQueued => FcQIInv'
<1> SUFFICES ASSUME FcQIInv, SendQueued PROVE FcQIInv'
  OBVIOUS
<1>1. PICK id : /\ id = FirstOf(fcPass.pending) /\ fcSent' = [fcSent EXCEPT ![id] = @ + 1]
                /\ fcApplied' = fcApplied \/ fcApplied' = [fcApplied EXCEPT ![id] = @ + 1]
                /\ fcPass' = PassOver(fcPass.pending, {id})
  BY DEF SendQueued
<1>2. fcPass.on /\ fcPass.handling = {} /\ UNCHANGED <<fcQueue, fcStored, fcCloses, fcAdded, fcFaults>>
  BY DEF SendQueued
<1>3. /\ id \in DOMAIN fcPass.pending /\ id \in Queued /\ fcAdded[id] # 0 /\ fcPass.pending[id] \in 0 .. MaxFetchAttempts - 1
  BY <1>1, <1>2, FirstIsThere DEF FcQIInv, PassOK, IsQueue
<1>4. fcPass'.on /\ fcPass'.pending = fcPass.pending /\ fcPass'.handling = {id}
  BY <1>1, PassFields
<1>5. /\ fcSent' \in [Queued -> Nat] /\ fcApplied' \in [Queued -> Nat] /\ fcSent'[id] = fcSent[id] + 1
      /\ fcApplied'[id] <= fcApplied[id] + 1
      /\ \A o \in Queued \ {id} : fcSent'[o] = fcSent[o] /\ fcApplied'[o] = fcApplied[o]
  BY <1>1, <1>3 DEF FcQIInv, QueueTypes
<1>6. PassOK' /\ QueueTypes' /\ IsQueue(fcQueue)' /\ IsQueue(fcStored)'
  BY <1>2, <1>3, <1>4, <1>5 DEF FcQIInv, PassOK, QueueTypes, IsQueue
<1>7. ASSUME NEW o \in Queued PROVE QueuedOK(o)'
  <2>1. /\ QueuedOK(o) /\ fcSent[o] \in Nat /\ fcApplied[o] \in Nat /\ fcFaults \in Nat /\ fcCloses \in Nat
        /\ fcApplied'[o] \in Nat
    BY <1>5 DEF FcQIInv, QueueTypes
  <2>2. Attempts(fcCloses)' = Attempts(fcCloses) /\ Attempts(fcCloses) \in Nat /\ MaxFetchAttempts \in Nat \ {0}
    BY <1>2, <2>1, AttemptsGrow DEF Attempts
  <2>3. CASE o = id
    BY <1>2, <1>3, <1>4, <1>5, <2>1, <2>2, <2>3 DEF QueuedOK
  <2>4. CASE o # id
    BY <1>2, <1>4, <1>5, <2>1, <2>2, <2>4 DEF QueuedOK
  <2> QED BY <2>3, <2>4
<1> QED BY <1>6, <1>7 DEF FcQIInv

LEMMA ProcessQueueKeeps == FcQIInv /\ ProcessQueue => FcQIInv' /\ fcFaults' \in Nat /\ fcFaults' >= fcFaults
<1> SUFFICES ASSUME FcQIInv, ProcessQueue PROVE FcQIInv' /\ fcFaults' \in Nat /\ fcFaults' >= fcFaults
  OBVIOUS
<1>0. PICK id \in fcPass.handling :
         /\ \/ fcQueue' = RemoveFromQueue(fcQueue, id) /\ UNCHANGED fcFaults
            \/ /\ ClientFault
               /\ fcQueue' = IF fcPass.pending[id] + 1 >= MaxFetchAttempts THEN RemoveFromQueue(fcQueue, id)
                             ELSE [o \in DOMAIN fcQueue |-> IF o = id THEN fcPass.pending[id] + 1 ELSE fcQueue[o]]
         /\ fcPass' = IF DOMAIN RemoveFromQueue(fcPass.pending, id) = {} THEN NoPass
                      ELSE PassOver(RemoveFromQueue(fcPass.pending, id), {})
         /\ fcStored' = IF DOMAIN RemoveFromQueue(fcPass.pending, id) = {} THEN fcQueue' ELSE fcStored
  BY DEF ProcessQueue
<1>1. PICK left : left = RemoveFromQueue(fcPass.pending, id)
  OBVIOUS
<1>2. UNCHANGED <<fcSent, fcApplied, fcCloses, fcAdded>>
  BY DEF ProcessQueue
<1>3. /\ id \in DOMAIN fcPass.pending /\ id \in Queued /\ fcAdded[id] # 0 /\ fcPass.pending[id] \in 0 .. MaxFetchAttempts - 1
      /\ fcPass.handling = {id} /\ IsQueue(fcPass.pending) /\ IsQueue(fcQueue) /\ IsQueue(fcStored)
  BY DEF FcQIInv, PassOK, IsQueue
<1>4. /\ IsQueue(left) /\ DOMAIN left = DOMAIN fcPass.pending \ {id} /\ \A o \in DOMAIN left : left[o] = fcPass.pending[o]
  <2>1. /\ IsQueue(RemoveFromQueue(fcPass.pending, id)) /\ DOMAIN RemoveFromQueue(fcPass.pending, id) = DOMAIN fcPass.pending \ {id}
        /\ \A o \in DOMAIN fcPass.pending \ {id} : RemoveFromQueue(fcPass.pending, id)[o] = fcPass.pending[o]
    BY <1>3, RemovedIsQueue
  <2> QED BY <1>1, <2>1
<1>5. /\ fcPass'.on \in BOOLEAN /\ (fcPass'.on <=> DOMAIN left # {})
      /\ fcPass'.handling = {} /\ IsQueue(fcPass'.pending)
      /\ DOMAIN fcPass'.pending = DOMAIN left /\ \A o \in DOMAIN left : fcPass'.pending[o] = left[o]
  <2>1. CASE DOMAIN left = {}
    <3>1. fcPass' = NoPass
      BY <1>0, <1>1, <2>1
    <3> QED BY <2>1, <3>1, NoPassFields
  <2>2. CASE DOMAIN left # {}
    <3>1. fcPass' = PassOver(left, {})
      BY <1>0, <1>1, <2>2
    <3>2. fcPass'.on = TRUE /\ fcPass'.pending = left /\ fcPass'.handling = {}
      <4>1. PassOver(left, {}).on = TRUE /\ PassOver(left, {}).pending = left /\ PassOver(left, {}).handling = {}
        BY DEF PassOver
      <4> QED BY <3>1, <4>1, Zenon
    <3>3. fcPass'.on \in BOOLEAN /\ (fcPass'.on <=> DOMAIN left # {})
      BY <2>2, <3>2, Zenon
    <3>4. IsQueue(fcPass'.pending) /\ DOMAIN fcPass'.pending = DOMAIN left /\ \A o \in DOMAIN left : fcPass'.pending[o] = left[o]
      BY <1>4, <3>2
    <3> QED BY <3>2, <3>3, <3>4, Zenon
  <2> QED BY <2>1, <2>2
<1>6. /\ IsQueue(fcQueue') /\ DOMAIN fcQueue' \subseteq DOMAIN fcQueue /\ \A o \in DOMAIN fcQueue' \ {id} : fcQueue'[o] = fcQueue[o]
      /\ id \in DOMAIN fcQueue' => ClientFault /\ fcQueue'[id] = fcPass.pending[id] + 1
  <2>1. CASE fcQueue' = RemoveFromQueue(fcQueue, id)
    <3>1. /\ IsQueue(RemoveFromQueue(fcQueue, id)) /\ DOMAIN RemoveFromQueue(fcQueue, id) = DOMAIN fcQueue \ {id}
          /\ \A o \in DOMAIN fcQueue \ {id} : RemoveFromQueue(fcQueue, id)[o] = fcQueue[o]
      BY <1>3, RemovedIsQueue
    <3> QED BY <2>1, <3>1
  <2>2. CASE /\ ClientFault /\ ~(fcPass.pending[id] + 1 >= MaxFetchAttempts)
             /\ fcQueue' = [o \in DOMAIN fcQueue |-> IF o = id THEN fcPass.pending[id] + 1 ELSE fcQueue[o]]
    <3>1. MaxFetchAttempts \in Nat
      BY FrontendAssumption
    <3>2. fcPass.pending[id] + 1 \in 0 .. MaxFetchAttempts - 1
      BY <1>3, <2>2, <3>1
    <3> QED BY <1>3, <2>2, <3>2 DEF IsQueue
  <2> QED BY <1>0, <2>1, <2>2
<1>7. fcFaults \in Nat /\ fcFaults' \in Nat /\ fcFaults' >= fcFaults /\ (ClientFault => fcFaults' = fcFaults + 1)
  BY <1>0, FaultsGrow DEF FcQIInv, QueueTypes, ClientFault
<1>8. IsQueue(fcQueue)' /\ IsQueue(fcStored)' /\ PassOK' /\ QueueTypes'
  <2>1. \A queue : IsQueue(queue) => DOMAIN queue \subseteq Queued /\ \A o \in DOMAIN queue : queue[o] \in 0 .. MaxFetchAttempts - 1 /\ fcAdded'[o] # 0
    BY <1>2 DEF IsQueue
  <2>2. IsQueue(fcStored')
    BY <1>0, <1>3, <1>6
  <2>3. IsQueue(fcQueue)' /\ IsQueue(fcStored)' /\ IsQueue(fcPass.pending)'
    BY <1>5, <1>6, <2>1, <2>2 DEF IsQueue
  <2> QED BY <1>2, <1>5, <1>7, <2>3 DEF PassOK, QueueTypes, FcQIInv
<1>9. ASSUME NEW o \in Queued PROVE QueuedOK(o)'
  <2>1. /\ QueuedOK(o) /\ fcSent[o] \in Nat /\ fcApplied[o] \in Nat /\ fcCloses \in Nat
    BY DEF FcQIInv, QueueTypes
  <2>2. Attempts(fcCloses)' = Attempts(fcCloses) /\ Attempts(fcCloses) \in Nat /\ MaxFetchAttempts \in Nat \ {0}
    BY <1>2, <2>1, AttemptsGrow DEF Attempts
  <2>3. CASE o = id
    <3>1. o \notin DOMAIN fcPass'.pending /\ o \in fcPass.handling /\ o \notin fcPass'.handling
      BY <1>3, <1>4, <1>5, <2>3
    <3> QED BY <1>2, <1>3, <1>6, <1>7, <2>1, <2>2, <2>3, <3>1 DEF QueuedOK
  <2>4. CASE o # id
    <3>1. /\ o \in DOMAIN fcPass'.pending => o \in DOMAIN fcPass.pending /\ fcPass'.pending[o] = fcPass.pending[o]
          /\ o \in DOMAIN fcQueue' => o \in DOMAIN fcQueue /\ fcQueue'[o] = fcQueue[o]
          /\ o \in fcPass'.handling <=> o \in fcPass.handling
      BY <1>3, <1>4, <1>5, <1>6, <2>4
    <3> QED BY <1>2, <1>7, <3>1, RequestStands
  <2> QED BY <2>3, <2>4
<1> QED BY <1>7, <1>8, <1>9 DEF FcQIInv

LEMMA ClearedKeeps == FcQIInv /\ (ClearQueue \/ LoadFromStorage) => FcQIInv'
<1> SUFFICES ASSUME FcQIInv, ClearQueue \/ LoadFromStorage PROVE FcQIInv'
  OBVIOUS
<1>1. CASE ClearQueue
  <2>1. fcQueue' = NoQueue /\ fcStored' = NoQueue /\ UNCHANGED <<fcPass, fcSent, fcApplied, fcCloses, fcAdded, fcFaults>>
    BY <1>1 DEF ClearQueue
  <2>2. DOMAIN NoQueue = {}
    BY DEF NoQueue
  <2>3. IsQueue(fcQueue)' /\ IsQueue(fcStored)' /\ PassOK' /\ QueueTypes'
    BY <2>1, <2>2 DEF IsQueue, PassOK, QueueTypes, FcQIInv
  <2>4. fcFaults' \in Nat /\ fcFaults' >= fcFaults
    BY <2>1 DEF FcQIInv, QueueTypes
  <2>5. ASSUME NEW o \in Queued PROVE QueuedOK(o)'
    BY <2>1, <2>2, <2>4, RequestStands
  <2> QED BY <2>3, <2>5 DEF FcQIInv
<1>2. CASE LoadFromStorage
  <2>1. /\ fcCloses' = fcCloses + 1 /\ fcQueue' = fcStored /\ fcPass' = NoPass
        /\ UNCHANGED <<fcStored, fcSent, fcApplied, fcAdded, fcFaults>>
    BY <1>2 DEF LoadFromStorage
  <2>2. fcPass'.on = FALSE /\ fcPass'.handling = {} /\ DOMAIN fcPass'.pending = {}
    BY <2>1, NoPassFields
  <2>3. IsQueue(fcQueue)' /\ IsQueue(fcStored)' /\ PassOK' /\ QueueTypes'
    <3>1. fcPass'.on \in BOOLEAN /\ (fcPass'.on <=> DOMAIN fcPass'.pending # {})
      BY <2>2, Zenon
    <3>2. PassOK'
      BY <2>2, <3>1 DEF PassOK, IsQueue
    <3> QED BY <2>1, <3>2 DEF IsQueue, QueueTypes, FcQIInv
  <2>4. ASSUME NEW o \in Queued PROVE QueuedOK(o)'
    <3>1. /\ QueuedOK(o) /\ fcSent[o] \in Nat /\ fcApplied[o] \in Nat /\ fcCloses \in Nat /\ fcFaults \in Nat
      BY DEF FcQIInv, QueueTypes
    <3>2. /\ Attempts(fcCloses)' = Attempts(fcCloses) + MaxFetchAttempts /\ Attempts(fcCloses) \in Nat
          /\ MaxFetchAttempts \in Nat
      <4>1. Attempts(fcCloses)' = Attempts(fcCloses + 1)
        BY <2>1 DEF Attempts
      <4> QED BY <3>1, <4>1, AttemptsGrow
    <3>3. o \in DOMAIN fcStored => fcStored[o] \in Nat
      BY FrontendAssumption DEF FcQIInv, IsQueue
    <3> QED BY <2>1, <2>2, <3>1, <3>2, <3>3 DEF QueuedOK
  <2> QED BY <2>3, <2>4 DEF FcQIInv
<1> QED BY <1>1, <1>2

LEMMA QueueStart == FcInit => FcQIInv
<1> SUFFICES ASSUME FcInit PROVE FcQIInv
  OBVIOUS
<1>1. /\ fcQueue = NoQueue /\ fcStored = NoQueue /\ fcPass = NoPass /\ fcCloses = 0 /\ fcFaults = 0
      /\ fcAdded = [id \in Queued |-> 0] /\ fcSent = [id \in Queued |-> 0] /\ fcApplied = [id \in Queued |-> 0]
  BY DEF FcInit
<1>2. DOMAIN NoQueue = {}
  BY DEF NoQueue
<1>3. QueueTypes /\ IsQueue(fcQueue) /\ IsQueue(fcStored) /\ PassOK
  BY <1>1, <1>2, NoPassFields DEF QueueTypes, IsQueue, PassOK
<1>4. ASSUME NEW id \in Queued PROVE QueuedOK(id)
  BY <1>1, <1>2, NoPassFields, AttemptsGrow DEF QueuedOK
<1> QED BY <1>3, <1>4 DEF FcQIInv
LEMMA QueueStands == FcQIInv /\ UNCHANGED fcQueueVars /\ fcFaults' \in Nat /\ fcFaults' >= fcFaults => FcQIInv'
<1> SUFFICES ASSUME FcQIInv, UNCHANGED fcQueueVars, fcFaults' \in Nat, fcFaults' >= fcFaults PROVE FcQIInv'
  OBVIOUS
<1>1. UNCHANGED <<fcQueue, fcStored, fcPass, fcSent, fcApplied, fcCloses, fcAdded>>
  BY DEF fcQueueVars
<1>2. IsQueue(fcQueue)' /\ IsQueue(fcStored)' /\ PassOK' /\ QueueTypes'
  BY <1>1 DEF IsQueue, PassOK, QueueTypes, FcQIInv
<1>3. ASSUME NEW o \in Queued PROVE QueuedOK(o)'
  BY <1>1, RequestStands
<1> QED BY <1>2, <1>3 DEF FcQIInv
LEMMA QueueStep == FcQIInv /\ FcQueueNext => FcQIInv' /\ fcFaults' \in Nat /\ fcFaults' >= fcFaults
<1> SUFFICES ASSUME FcQIInv, FcQueueNext PROVE FcQIInv' /\ fcFaults' \in Nat /\ fcFaults' >= fcFaults
  OBVIOUS
<1>1. fcFaults \in Nat
  BY DEF FcQIInv, QueueTypes
<1>2. CASE ProcessQueue
  BY <1>2, ProcessQueueKeeps
<1>3. CASE ~ProcessQueue
  <2>1. fcFaults' = fcFaults
    BY <1>3 DEF FcQueueNext, AddRequest, StartPass, SendQueued, ClearQueue, LoadFromStorage
  <2>2. FcQIInv'
    BY <1>3, AddRequestKeeps, StartPassKeeps, SendQueuedKeeps, ClearedKeeps DEF FcQueueNext
  <2> QED BY <1>1, <2>1, <2>2
<1> QED BY <1>2, <1>3
LEMMA QueueIsSafe == FcQIInv => OfflineOnce
BY DEF FcQIInv, OfflineOnce, QueuedOK, Attempts

(***************************************************************************)
(* Its cache and its optimistic updates.                                   *)
(***************************************************************************)
CacheOK(s) ==
    /\ DOMAIN s.shown \subseteq CacheKeys
    /\ s.keyTags \in [CacheKeys -> SUBSET CacheTags] /\ s.tags \in [CacheTags -> SUBSET CacheKeys]
    /\ \A k \in CacheKeys : \A t \in s.keyTags[k] : k \in s.tags[t] /\ k \in DOMAIN s.shown
Data == Updates \cup {"none", "server"}
Statuses == {"none", "pending", "confirmed", "forgotten", "rolled_back"}
UpdateType == [status : Statuses, operation : {"none", "update", "delete"}, previous : Data]
\* Only an update that was made is shown or gone back to, and none goes back to itself.
FoIInv ==
    /\ CacheOK(Now0) /\ foUpdates \in [Updates -> UpdateType]
    /\ "record" \in DOMAIN foCache =>
          foCache["record"] \in Data /\ (foCache["record"] \in Updates => foUpdates[foCache["record"]].status # "none")
    /\ \A v \in Updates : foUpdates[v].previous \in Updates =>
          foUpdates[v].previous # v /\ foUpdates[v].status # "none" /\ foUpdates[foUpdates[v].previous].status # "none"
    /\ RolledBackGone

\* The record after a step: gone, or what it was.
SameRecord(t, s) == "record" \in DOMAIN t.shown => "record" \in DOMAIN s.shown /\ t.shown["record"] = s.shown["record"]

LEMMA DeletedIsOK ==
    ASSUME NEW s, NEW keys, CacheOK(s)
    PROVE  CacheOK(DeleteKeys(s, keys)) /\ DOMAIN DeleteKeys(s, keys).shown = DOMAIN s.shown \ keys
           /\ SameRecord(DeleteKeys(s, keys), s)
<1>1. PICK t : t = DeleteKeys(s, keys)
  OBVIOUS
<1>2. /\ t.shown = [k \in DOMAIN s.shown \ keys |-> s.shown[k]]
      /\ t.keyTags = [k \in CacheKeys |-> IF k \in keys THEN {} ELSE s.keyTags[k]]
      /\ t.tags = [g \in CacheTags |-> s.tags[g] \ {k \in keys : g \in s.keyTags[k]}]
  BY <1>1 DEF DeleteKeys
<1>3. DOMAIN t.shown = DOMAIN s.shown \ keys
  BY <1>2
<1>4. SameRecord(t, s)
  BY <1>2, <1>3 DEF SameRecord
<1>5. t.keyTags \in [CacheKeys -> SUBSET CacheTags] /\ t.tags \in [CacheTags -> SUBSET CacheKeys]
  BY <1>2 DEF CacheOK
<1>6. ASSUME NEW k \in CacheKeys, NEW g \in t.keyTags[k] PROVE k \in t.tags[g] /\ k \in DOMAIN t.shown
  <2>1. k \notin keys /\ g \in s.keyTags[k]
    BY <1>2, <1>6
  <2>2. g \in CacheTags /\ k \in s.tags[g] /\ k \in DOMAIN s.shown
    BY <2>1 DEF CacheOK
  <2> QED BY <1>2, <1>3, <2>1, <2>2
<1> QED BY <1>1, <1>3, <1>4, <1>5, <1>6 DEF CacheOK

LEMMA SetIsOK ==
    ASSUME NEW s, CacheOK(s), NEW key \in CacheKeys, NEW value, NEW tags \in SUBSET CacheTags
    PROVE  /\ CacheOK(SetKey(s, key, value, tags))
           /\ key # "record" => SameRecord(SetKey(s, key, value, tags), s)
           /\ key = "record" /\ "record" \in DOMAIN SetKey(s, key, value, tags).shown
                 => SetKey(s, key, value, tags).shown["record"] = value
<1>1. PICK t : t = InsertKey(s, key, value, tags)
  OBVIOUS
<1>2. /\ t.shown = [k \in DOMAIN s.shown \cup {key} |-> IF k = key THEN value ELSE s.shown[k]]
      /\ t.keyTags = IF tags = {} THEN s.keyTags ELSE [s.keyTags EXCEPT ![key] = tags]
      /\ t.tags = [g \in CacheTags |-> IF g \in tags THEN s.tags[g] \cup {key} ELSE s.tags[g]]
  BY <1>1 DEF InsertKey
<1>3. DOMAIN t.shown = DOMAIN s.shown \cup {key} /\ t.shown[key] = value
  BY <1>2
<1>4. key # "record" => SameRecord(t, s)
  BY <1>2, <1>3 DEF SameRecord
<1>5. t.keyTags \in [CacheKeys -> SUBSET CacheTags] /\ t.tags \in [CacheTags -> SUBSET CacheKeys]
  BY <1>2 DEF CacheOK
<1>6. ASSUME NEW k \in CacheKeys, NEW g \in t.keyTags[k] PROVE k \in t.tags[g] /\ k \in DOMAIN t.shown
  <2>1. g \in s.keyTags[k] \/ (k = key /\ g \in tags)
    BY <1>2, <1>6 DEF CacheOK
  <2>2. CASE g \in s.keyTags[k]
    <3>1. g \in CacheTags /\ k \in s.tags[g] /\ k \in DOMAIN s.shown
      BY <2>2 DEF CacheOK
    <3> QED BY <1>2, <1>3, <3>1
  <2>3. CASE k = key /\ g \in tags
    BY <1>2, <1>3, <2>3
  <2> QED BY <2>1, <2>2, <2>3
<1>7. CacheOK(t)
  BY <1>3, <1>5, <1>6 DEF CacheOK
<1>8. PICK e : e = SetKey(s, key, value, tags)
  OBVIOUS
<1>9. CacheOK(e) /\ SameRecord(e, t)
  <2>1. e = EnforceMaxSize(t)
    BY <1>1, <1>8 DEF SetKey
  <2>2. CASE e = t
    BY <1>7, <2>2 DEF SameRecord
  <2>3. CASE e = DeleteKeys(t, {Oldest(t)})
    BY <1>7, <2>3, DeletedIsOK
  <2> QED BY <2>1, <2>2, <2>3 DEF EnforceMaxSize
<1> QED BY <1>3, <1>4, <1>8, <1>9 DEF SameRecord

LEMMA Became ==
    ASSUME NEW t, CacheOK(t), BecomesCache(t)
    PROVE  CacheOK(Now0)' /\ foCache' = t.shown
BY DEF BecomesCache, Now0, CacheOK
LEMMA UpdateConstants == "record" \in CacheKeys /\ "table" \in CacheTags /\ "none" \notin Updates /\ "server" \notin Updates
BY FrontendAssumption

\* One update moves on: what is shown of it, and what it goes back to.
LEMMA OptimisticUpdateMoves ==
    ASSUME FoIInv, NEW u \in Updates, NEW e \in UpdateType, foUpdates' = [foUpdates EXCEPT ![u] = e], e.status # "none",
           \/ e.previous = foUpdates[u].previous
           \/ foUpdates[u].status = "none" /\ (e.previous \in Updates => foUpdates[e.previous].status # "none"),
           CacheOK(Now0)',
           "record" \in DOMAIN foCache' =>
              \/ e.status # "rolled_back" /\ "record" \in DOMAIN foCache /\ foCache'["record"] = foCache["record"]
              \/ e.status # "rolled_back" /\ foCache'["record"] = u
              \/ foCache'["record"] = e.previous /\ e.previous = foUpdates[u].previous
    PROVE  FoIInv'
<1>1. /\ foUpdates' \in [Updates -> UpdateType] /\ foUpdates'[u] = e
      /\ \A v \in Updates \ {u} : foUpdates'[v] = foUpdates[v]
  BY DEF FoIInv
<1>2. \A v \in Updates : foUpdates[v].status # "none" => foUpdates'[v].status # "none"
  BY <1>1
<1>3. e.previous \in Data
  BY DEF UpdateType
<1>4. \A v \in Updates : foUpdates[v].previous \in Updates =>
         foUpdates[v].previous # v /\ foUpdates[v].status # "none" /\ foUpdates[foUpdates[v].previous].status # "none"
  BY DEF FoIInv
<1>5. e.previous \in Updates => e.previous # u /\ foUpdates'[e.previous].status # "none"
  BY <1>1, <1>2, <1>4
<1>6. ASSUME NEW v \in Updates, foUpdates'[v].previous \in Updates
      PROVE  foUpdates'[v].previous # v /\ foUpdates'[v].status # "none" /\ foUpdates'[foUpdates'[v].previous].status # "none"
  BY <1>1, <1>2, <1>4, <1>5, <1>6
<1>7. ASSUME "record" \in DOMAIN foCache'
      PROVE  foCache'["record"] \in Data /\ (foCache'["record"] \in Updates => foUpdates'[foCache'["record"]].status # "none")
  <2>1. CASE "record" \in DOMAIN foCache /\ foCache'["record"] = foCache["record"]
    BY <1>2, <2>1 DEF FoIInv
  <2>2. CASE foCache'["record"] = u
    BY <1>1, <2>2 DEF Data
  <2>3. CASE foCache'["record"] = e.previous
    BY <1>3, <1>5, <2>3
  <2> QED BY <1>7, <2>1, <2>2, <2>3
<1>8. ASSUME NEW w \in Updates, foUpdates'[w].status = "rolled_back", "record" \in DOMAIN foCache', foCache'["record"] = w
      PROVE  \E v \in Updates \ {w} : foUpdates'[v].previous = w
  <2>1. CASE e.status # "rolled_back" /\ "record" \in DOMAIN foCache /\ foCache'["record"] = foCache["record"]
    <3>1. w # u /\ foUpdates[w].status = "rolled_back"
      BY <1>1, <1>8, <2>1
    <3>2. PICK v \in Updates \ {w} : foUpdates[v].previous = w
      BY <1>8, <2>1, <3>1 DEF FoIInv, RolledBackGone, Seen
    <3>3. foUpdates'[v].previous = w
      BY <1>1, <1>4, <3>2
    <3> QED BY <3>2, <3>3
  <2>2. CASE e.status # "rolled_back" /\ foCache'["record"] = u
    BY <1>1, <1>8, <2>2
  <2>3. CASE foCache'["record"] = e.previous /\ e.previous = foUpdates[u].previous
    BY <1>1, <1>5, <1>8, <2>3
  <2> QED BY <1>8, <2>1, <2>2, <2>3
<1>9. RolledBackGone'
  BY <1>8 DEF RolledBackGone, Seen
<1> QED BY <1>1, <1>6, <1>7, <1>9 DEF FoIInv

LEMMA UseCacheKeeps == FoIInv /\ UseCache => FoIInv'
<1> SUFFICES ASSUME FoIInv, UseCache PROVE FoIInv'
  OBVIOUS
<1>0. CacheOK(Now0) /\ Now0.shown = foCache /\ UNCHANGED foUpdates
  BY DEF FoIInv, UseCache, Now0
<1>1. SUFFICES ASSUME CacheOK(Now0)', "record" \in DOMAIN foCache' =>
                         \/ "record" \in DOMAIN foCache /\ foCache'["record"] = foCache["record"]
                         \/ foCache'["record"] = "server"
               PROVE  FoIInv'
  <2>1. ASSUME NEW keys, BecomesCache(DeleteKeys(Now0, keys)) PROVE FoIInv'
    <3>1. CacheOK(DeleteKeys(Now0, keys)) /\ SameRecord(DeleteKeys(Now0, keys), Now0)
      BY <1>0, DeletedIsOK
    <3>2. CacheOK(Now0)' /\ foCache' = DeleteKeys(Now0, keys).shown
      BY <2>1, <3>1, Became
    <3> QED BY <1>0, <1>1, <3>1, <3>2 DEF SameRecord
  <2>2. ASSUME NEW key \in CacheKeys, NEW tags \in SUBSET CacheTags, BecomesCache(SetKey(Now0, key, "server", tags))
        PROVE  FoIInv'
    <3>1. PICK t : t = SetKey(Now0, key, "server", tags)
      OBVIOUS
    <3>2. CacheOK(t) /\ (key # "record" => SameRecord(t, Now0)) /\ (key = "record" /\ "record" \in DOMAIN t.shown => t.shown["record"] = "server")
      BY <1>0, <3>1, SetIsOK
    <3>3. CacheOK(Now0)' /\ foCache' = t.shown
      BY <2>2, <3>1, <3>2, Became
    <3> QED BY <1>0, <1>1, <3>2, <3>3 DEF SameRecord
  <2> QED BY <2>1, <2>2 DEF UseCache, InvalidateByTag
<1>2. foCache'["record"] = foCache["record"] \/ foCache'["record"] = "server" \/ "record" \notin DOMAIN foCache'
  BY <1>1
<1>3. RolledBackGone'
  BY <1>0, <1>1, UpdateConstants DEF FoIInv, RolledBackGone, Seen
<1> QED BY <1>0, <1>1, <1>3, UpdateConstants DEF FoIInv, Data

LEMMA UpdatesKeep ==
    ASSUME FoIInv, NEW u \in Updates, CreateOptimisticUpdate(u) \/ ConfirmUpdate(u) \/ ForgetUpdate(u) \/ RollbackUpdate(u)
    PROVE  FoIInv'
<1>0. /\ CacheOK(Now0) /\ Now0.shown = foCache /\ {"table"} \in SUBSET CacheTags /\ {} \in SUBSET CacheTags
      /\ "record" \in CacheKeys
  BY UpdateConstants DEF FoIInv, Now0
<1>1. PICK b \in UpdateType : b = foUpdates[u]
  BY DEF FoIInv
<1>2. Seen \in Data /\ (Seen \in Updates => foUpdates[Seen].status # "none")
  BY UpdateConstants DEF FoIInv, Seen, Data
<1>3. ASSUME NEW value, NEW tags \in SUBSET CacheTags, NEW t, t = SetKey(Now0, "record", value, tags)
      PROVE  CacheOK(t) /\ ("record" \in DOMAIN t.shown => t.shown["record"] = value)
  BY <1>0, <1>3, SetIsOK
<1>4. CASE CreateOptimisticUpdate(u)
  <2>1. ASSUME NEW operation \in {"update", "delete"},
               UpdateBecomes(u, [status |-> "pending", operation |-> operation, previous |-> Seen]),
               CacheOK(Now0)', "record" \in DOMAIN foCache' => foCache'["record"] = u
        PROVE  FoIInv'
    <3>1. PICK e : e = [status |-> "pending", operation |-> operation, previous |-> Seen]
      OBVIOUS
    <3>2. e \in UpdateType /\ e.status = "pending" /\ e.previous = Seen
      BY <1>2, <3>1 DEF UpdateType, Statuses
    <3>3. foUpdates' = [foUpdates EXCEPT ![u] = e] /\ foUpdates[u].status = "none"
      BY <1>4, <2>1, <3>1 DEF UpdateBecomes, CreateOptimisticUpdate
    <3> QED BY <1>2, <2>1, <3>2, <3>3, OptimisticUpdateMoves
  <2>2. CASE /\ UpdateBecomes(u, [status |-> "pending", operation |-> "update", previous |-> Seen])
             /\ BecomesCache(SetKey(Now0, "record", u, {"table"}))
    <3>1. PICK t : t = SetKey(Now0, "record", u, {"table"})
      OBVIOUS
    <3>2. CacheOK(t) /\ ("record" \in DOMAIN t.shown => t.shown["record"] = u)
      BY <1>0, <1>3, <3>1
    <3>3. CacheOK(Now0)' /\ foCache' = t.shown
      BY <2>2, <3>1, <3>2, Became
    <3> QED BY <2>1, <2>2, <3>2, <3>3
  <2>3. CASE /\ UpdateBecomes(u, [status |-> "pending", operation |-> "delete", previous |-> Seen])
             /\ BecomesCache(DeleteKeys(Now0, {"record"}))
    <3>1. CacheOK(DeleteKeys(Now0, {"record"})) /\ DOMAIN DeleteKeys(Now0, {"record"}).shown = DOMAIN Now0.shown \ {"record"}
      BY <1>0, DeletedIsOK
    <3>2. CacheOK(Now0)' /\ foCache' = DeleteKeys(Now0, {"record"}).shown
      BY <2>3, <3>1, Became
    <3>3. "record" \notin DOMAIN foCache'
      BY <3>1, <3>2
    <3> QED BY <2>1, <2>3, <3>2, <3>3
  <2> QED BY <1>4, <2>2, <2>3 DEF CreateOptimisticUpdate
<1>5. ASSUME NEW status \in {"confirmed", "forgotten"}, UpdateBecomes(u, [foUpdates[u] EXCEPT !.status = status]),
             UNCHANGED foCacheVars \/ (status = "confirmed" /\ BecomesCache(SetKey(Now0, "record", u, {})))
      PROVE  FoIInv'
  <2>1. PICK e : e = [b EXCEPT !.status = status]
    OBVIOUS
  <2>2. e \in UpdateType /\ e.status = status /\ e.previous = b.previous
    BY <2>1 DEF UpdateType, Statuses
  <2>3. foUpdates' = [foUpdates EXCEPT ![u] = e]
    BY <1>1, <1>5, <2>1 DEF UpdateBecomes
  <2>4. CASE UNCHANGED foCacheVars
    <3>1. CacheOK(Now0)' /\ foCache' = foCache
      BY <1>0, <2>4 DEF foCacheVars, CacheOK, Now0
    <3> QED BY <1>1, <2>2, <2>3, <3>1, OptimisticUpdateMoves
  <2>5. CASE BecomesCache(SetKey(Now0, "record", u, {}))
    <3>1. PICK t : t = SetKey(Now0, "record", u, {})
      OBVIOUS
    <3>2. CacheOK(t) /\ ("record" \in DOMAIN t.shown => t.shown["record"] = u)
      BY <1>0, <1>3, <3>1
    <3>3. CacheOK(Now0)' /\ foCache' = t.shown
      BY <2>5, <3>1, <3>2, Became
    <3> QED BY <1>1, <2>2, <2>3, <3>2, <3>3, OptimisticUpdateMoves
  <2> QED BY <1>5, <2>4, <2>5
<1>6. CASE ConfirmUpdate(u)
  <2>1. UpdateBecomes(u, [foUpdates[u] EXCEPT !.status = "confirmed"])
        /\ (UNCHANGED foCacheVars \/ BecomesCache(SetKey(Now0, "record", u, {})))
    BY <1>6 DEF ConfirmUpdate
  <2> QED BY <1>5, <2>1
<1>7. CASE ForgetUpdate(u)
  BY <1>5, <1>7 DEF ForgetUpdate
<1>8. CASE RollbackUpdate(u)
  <2>1. PICK e : e = [b EXCEPT !.status = "rolled_back"]
    OBVIOUS
  <2>2. e \in UpdateType /\ e.status = "rolled_back" /\ e.previous = b.previous
    BY <2>1 DEF UpdateType, Statuses
  <2>3. foUpdates' = [foUpdates EXCEPT ![u] = e]
    BY <1>1, <1>8, <2>1 DEF RollbackUpdate, UpdateBecomes
  <2>4. PICK t : t = SetKey(Now0, "record", b.previous, {})
    OBVIOUS
  <2>5. CacheOK(t) /\ ("record" \in DOMAIN t.shown => t.shown["record"] = b.previous)
    BY <1>0, <1>3, <2>4
  <2>6. BecomesCache(t) \/ BecomesCache(DeleteKeys(t, t.tags["table"]))
    BY <1>1, <1>8, <2>4 DEF RollbackUpdate, InvalidateByTag
  <2>7. CASE BecomesCache(t)
    <3>1. CacheOK(Now0)' /\ foCache' = t.shown
      BY <2>5, <2>7, Became
    <3> QED BY <1>1, <2>2, <2>3, <2>5, <3>1, OptimisticUpdateMoves
  <2>8. CASE BecomesCache(DeleteKeys(t, t.tags["table"]))
    <3>1. PICK d : d = DeleteKeys(t, t.tags["table"])
      OBVIOUS
    <3>2. CacheOK(d) /\ SameRecord(d, t)
      BY <2>5, <3>1, DeletedIsOK
    <3>3. CacheOK(Now0)' /\ foCache' = d.shown
      BY <2>8, <3>1, <3>2, Became
    <3>4. "record" \in DOMAIN foCache' => foCache'["record"] = b.previous
      BY <2>5, <3>2, <3>3 DEF SameRecord
    <3> QED BY <1>1, <2>2, <2>3, <3>3, <3>4, OptimisticUpdateMoves
  <2> QED BY <2>6, <2>7, <2>8
<1> QED BY <1>4, <1>6, <1>7, <1>8

LEMMA UpdatesStart == FoInit => FoIInv
<1> SUFFICES ASSUME FoInit PROVE FoIInv
  OBVIOUS
<1>1. DOMAIN foCache = {} /\ foKeyTags = [k \in CacheKeys |-> {}] /\ foTags = [t \in CacheTags |-> {}]
      /\ foUpdates = [u \in Updates |-> NoUpdate]
  BY DEF FoInit
<1>2. NoUpdate \in UpdateType /\ NoUpdate.status = "none" /\ NoUpdate.previous = "none"
  BY DEF NoUpdate, UpdateType, Statuses, Data
<1>3. CacheOK(Now0)
  BY <1>1 DEF CacheOK, Now0
<1> QED BY <1>1, <1>2, <1>3, UpdateConstants DEF FoIInv, RolledBackGone
LEMMA UpdatesStep == FoIInv /\ FoNext => FoIInv'
BY UseCacheKeeps, UpdatesKeep DEF FoNext
LEMMA UpdatesStutter == FoIInv /\ UNCHANGED foVars => FoIInv'
<1> SUFFICES ASSUME FoIInv, UNCHANGED foVars PROVE FoIInv'
  OBVIOUS
<1>1. UNCHANGED <<foCache, foBefore, foKeyTags, foTags, foUpdates>>
  BY DEF foVars, foCacheVars
<1>2. CacheOK(Now0)'
  BY <1>1 DEF FoIInv, CacheOK, Now0
<1>3. RolledBackGone'
  BY <1>1 DEF FoIInv, RolledBackGone, Seen
<1> QED BY <1>1, <1>2, <1>3 DEF FoIInv
LEMMA UpdatesAreSafe == FoIInv => TagsReach /\ RolledBackGone
BY DEF FoIInv, CacheOK, Now0, TagsReach

(***************************************************************************)
(* Its realtime manager.                                                   *)
(***************************************************************************)
ToldOK ==
    /\ frSockets \in [1..MaxSockets -> SocketStates] /\ frSocket \in 0..MaxSockets
    /\ frKnown \in [1..MaxSockets -> SUBSET RealtimeSubs] /\ frQueued \subseteq RealtimeSubs
    /\ frSub \in [RealtimeSubs -> {"none", "asked", "active", "gone", "untold"}]
    /\ \A s \in 1..MaxSockets : frSockets[s] \in {"none", "connecting"} => frKnown[s] = {}
    /\ \A sub \in frQueued : sub \in frSubs \/ frSub[sub] = "untold"
    /\ OpenKnowsAll
SocketsOK ==
    /\ frReset \in BOOLEAN /\ frConnecting \in BOOLEAN
    /\ ~frReset => \A s \in 1..MaxSockets : frSockets[s] = "connecting" => frConnecting
    /\ NoOrphanSocket
\* A message that waits is of a subscription somebody has, or that a server may have still; and a socket that is
\* connecting is the one the client waits for.
FrIInv == ToldOK /\ SocketsOK

LEMMA NextIsFresh ==
    ASSUME Fresh # {}
    PROVE  NextSocket \in Fresh
<1>1. Fresh \subseteq Nat
  BY FrontendAssumption DEF Fresh
<1>2. Min(Fresh) \in Fresh /\ \A s \in Fresh : Min(Fresh) <= s
  BY <1>1, LeastIsThere
<1> QED BY <1>2 DEF NextSocket

\* Sockets change, and nobody is told or asks: what each server knows stays.
LEMMA SocketsMove ==
    ASSUME FrIInv, UNCHANGED <<frKnown, frSub, frQueued>>,
           frSockets' \in [1..MaxSockets -> SocketStates], frSocket' \in 0..MaxSockets,
           frReset' \in BOOLEAN, frConnecting' \in BOOLEAN,
           \A s \in 1..MaxSockets : frSockets'[s] \in {"none", "connecting"} => frSockets[s] \in {"none", "connecting"},
           ~frReset' => /\ \A s \in 1..MaxSockets : frSockets'[s] = "connecting" => frConnecting'
                        /\ \A s \in 1..MaxSockets : frSockets'[s] \in {"connecting", "open"} => s = frSocket',
           frSocket' # 0 /\ frSockets'[frSocket'] = "open" => frSocket' = frSocket /\ frSockets[frSocket] = "open"
    PROVE  FrIInv'
<1>1. OpenKnowsAll'
  BY DEF FrIInv, ToldOK, SocketsOK, OpenKnowsAll, IsConnected, frSubs
<1>2. \A sub \in frQueued' : sub \in frSubs' \/ frSub'[sub] = "untold"
  BY DEF FrIInv, ToldOK, SocketsOK, frSubs
<1>3. NoOrphanSocket'
  BY DEF NoOrphanSocket
<1> QED BY <1>1, <1>2, <1>3 DEF FrIInv, ToldOK, SocketsOK

LEMMA ConnectKeeps ==
    ASSUME FrIInv, WsConnect, Fresh # {}, UNCHANGED <<frKnown, frSub, frQueued, frReset>>
    PROVE  FrIInv'
<1>0. /\ frSockets \in [1..MaxSockets -> SocketStates] /\ frSocket \in 0..MaxSockets /\ frReset \in BOOLEAN
      /\ frConnecting \in BOOLEAN /\ MaxSockets \in Nat
  BY FrontendAssumption DEF FrIInv, ToldOK, SocketsOK
<1>1. CASE UNCHANGED <<frSockets, frSocket, frConnecting>>
  BY <1>0, <1>1, SocketsMove DEF FrIInv, ToldOK, SocketsOK, NoOrphanSocket
<1>2. CASE /\ ~frConnecting /\ ~IsConnected
           /\ frSockets' = [frSockets EXCEPT ![NextSocket] = "connecting"]
           /\ frSocket' = NextSocket /\ frConnecting' = TRUE
  <2>1. PICK n \in 1..MaxSockets : n = NextSocket /\ frSockets[n] = "none"
    BY NextIsFresh DEF Fresh
  <2>2. /\ frSockets' \in [1..MaxSockets -> SocketStates] /\ frSockets'[n] = "connecting" /\ frSocket' = n
        /\ \A s \in (1..MaxSockets) \ {n} : frSockets'[s] = frSockets[s]
    BY <1>0, <1>2, <2>1 DEF SocketStates
  <2>3. ~frReset => \A s \in 1..MaxSockets : frSockets[s] \notin {"connecting", "open"}
    <3>1. ASSUME ~frReset, NEW s \in 1..MaxSockets, frSockets[s] \in {"connecting", "open"} PROVE FALSE
      <4>1. s = frSocket /\ s # 0
        BY <1>0, <3>1 DEF FrIInv, ToldOK, SocketsOK, NoOrphanSocket
      <4>2. frSockets[s] # "open"
        BY <1>2, <4>1 DEF IsConnected
      <4>3. frConnecting
        BY <3>1, <4>2 DEF FrIInv, ToldOK, SocketsOK
      <4> QED BY <1>2, <4>3
    <3> QED BY <3>1
  <2>4. \A s \in 1..MaxSockets : frSockets'[s] \in {"none", "connecting"} => frSockets[s] \in {"none", "connecting"}
    BY <2>1, <2>2
  <2>5. frSocket' \in 0..MaxSockets /\ frSockets'[frSocket'] # "open"
    BY <1>0, <2>2
  <2>6. frConnecting' \in BOOLEAN /\ frConnecting' /\ frReset' \in BOOLEAN /\ (~frReset' => ~frReset)
    BY <1>0, <1>2
  <2>7. ~frReset' => /\ \A s \in 1..MaxSockets : frSockets'[s] = "connecting" => frConnecting'
                     /\ \A s \in 1..MaxSockets : frSockets'[s] \in {"connecting", "open"} => s = frSocket'
    BY <2>2, <2>3, <2>6
  <2> QED BY <2>2, <2>4, <2>5, <2>6, <2>7, SocketsMove
<1> QED BY <1>1, <1>2 DEF WsConnect

LEMMA OpenKeeps ==
    ASSUME FrIInv, NEW s \in 1..MaxSockets, OnOpen(s)
    PROVE  FrIInv'
<1>0. /\ frSockets \in [1..MaxSockets -> SocketStates] /\ frSocket \in 0..MaxSockets /\ frReset \in BOOLEAN
      /\ frConnecting \in BOOLEAN /\ MaxSockets \in Nat
      /\ frKnown \in [1..MaxSockets -> SUBSET RealtimeSubs] /\ frQueued \subseteq RealtimeSubs
      /\ frSub \in [RealtimeSubs -> {"none", "asked", "active", "gone", "untold"}]
  BY FrontendAssumption DEF FrIInv, ToldOK, SocketsOK
<1>1. /\ frSockets[s] = "connecting" /\ frSockets' = [frSockets EXCEPT ![s] = "open"] /\ frConnecting' = FALSE
      /\ UNCHANGED <<frSocket, frSub, frReset>> /\ frSubs' = frSubs /\ frSubs \subseteq RealtimeSubs
  BY DEF OnOpen, frSubs
<1>2. /\ frSockets' \in [1..MaxSockets -> SocketStates] /\ frSockets'[s] = "open"
      /\ \A q \in (1..MaxSockets) \ {s} : frSockets'[q] = frSockets[q]
  BY <1>0, <1>1 DEF SocketStates
<1>3. ~frReset => \A q \in 1..MaxSockets : frSockets'[q] \in {"connecting", "open"} => q = s /\ q = frSocket'
  BY <1>0, <1>1, <1>2 DEF FrIInv, ToldOK, SocketsOK, NoOrphanSocket
<1>4. NoOrphanSocket' /\ (~frReset' => \A q \in 1..MaxSockets : frSockets'[q] = "connecting" => frConnecting')
  BY <1>1, <1>2, <1>3 DEF NoOrphanSocket
<1>5. \A sub \in frQueued : sub \in frSubs \/ frSub[sub] = "untold"
  BY DEF FrIInv, ToldOK, SocketsOK
<1>6. CASE /\ frSocket = s \/ IsConnected
           /\ frKnown' = [frKnown EXCEPT ![frSocket] = frKnown[frSocket] \cup frQueued \cup frSubs] /\ frQueued' = {}
  <2>1. frSocket \in 1..MaxSockets
    BY <1>0, <1>6 DEF IsConnected
  <2>2. /\ frKnown' \in [1..MaxSockets -> SUBSET RealtimeSubs]
        /\ frKnown'[frSocket] = frKnown[frSocket] \cup frQueued \cup frSubs
        /\ \A q \in (1..MaxSockets) \ {frSocket} : frKnown'[q] = frKnown[q]
    BY <1>0, <1>1, <1>6, <2>1
  <2>3. \A sub \in frKnown[frSocket] \ frSubs : frSub[sub] = "untold"
    <3>1. CASE frSocket = s
      BY <1>1, <3>1 DEF FrIInv, ToldOK, SocketsOK
    <3>2. CASE IsConnected
      BY <3>2 DEF FrIInv, ToldOK, SocketsOK, OpenKnowsAll
    <3> QED BY <1>6, <3>1, <3>2
  <2>4. OpenKnowsAll'
    BY <1>1, <1>5, <2>2, <2>3 DEF OpenKnowsAll
  <2>5. frSockets'[frSocket] \notin {"none", "connecting"}
    BY <1>2, <1>6, <2>1 DEF IsConnected
  <2>6. \A q \in 1..MaxSockets : frSockets'[q] \in {"none", "connecting"} => frKnown'[q] = {}
    BY <1>2, <2>2, <2>5 DEF FrIInv, ToldOK, SocketsOK
  <2> QED BY <1>0, <1>1, <1>2, <1>4, <1>6, <2>2, <2>4, <2>6 DEF FrIInv, ToldOK, SocketsOK
<1>7. CASE /\ ~(frSocket = s \/ IsConnected) /\ UNCHANGED frKnown /\ frQueued' = frQueued \cup frSubs
  <2>1. ~IsConnected'
    BY <1>0, <1>1, <1>2, <1>7 DEF IsConnected
  <2>2. OpenKnowsAll'
    BY <2>1 DEF OpenKnowsAll
  <2>3. \A q \in 1..MaxSockets : frSockets'[q] \in {"none", "connecting"} => frKnown'[q] = {}
    BY <1>2, <1>7 DEF FrIInv, ToldOK, SocketsOK
  <2>4. frQueued' \subseteq RealtimeSubs /\ \A sub \in frQueued' : sub \in frSubs' \/ frSub'[sub] = "untold"
    BY <1>0, <1>1, <1>5, <1>7
  <2> QED BY <1>0, <1>1, <1>2, <1>4, <1>7, <2>2, <2>3, <2>4 DEF FrIInv, ToldOK, SocketsOK
<1> QED BY <1>6, <1>7 DEF OnOpen

LEMMA CloseKeeps ==
    ASSUME FrIInv, NEW s \in 1..MaxSockets, OnClose(s)
    PROVE  FrIInv'
<1>0. /\ frSockets \in [1..MaxSockets -> SocketStates] /\ frSocket \in 0..MaxSockets /\ frReset \in BOOLEAN /\ MaxSockets \in Nat
  BY FrontendAssumption DEF FrIInv, ToldOK, SocketsOK
<1>1. /\ frSockets' = [frSockets EXCEPT ![s] = "closed"] /\ frConnecting' = FALSE
      /\ UNCHANGED <<frSocket, frKnown, frSub, frQueued>>
      /\ frReset' = (frReset \/ \E q \in 1..MaxSockets \ {s} : frSockets[q] = "connecting")
  BY DEF OnClose
<1>2. /\ frSockets' \in [1..MaxSockets -> SocketStates] /\ frSockets'[s] = "closed"
      /\ \A q \in (1..MaxSockets) \ {s} : frSockets'[q] = frSockets[q]
  BY <1>0, <1>1 DEF SocketStates
<1>3. frReset' \in BOOLEAN /\ frConnecting' \in BOOLEAN /\ frSocket' \in 0..MaxSockets
  BY <1>0, <1>1
<1>4. ~frReset' => ~frReset /\ \A q \in 1..MaxSockets \ {s} : frSockets[q] # "connecting"
  BY <1>0, <1>1
<1>5. ~frReset' => /\ \A q \in 1..MaxSockets : frSockets'[q] = "connecting" => frConnecting'
                   /\ \A q \in 1..MaxSockets : frSockets'[q] \in {"connecting", "open"} => q = frSocket'
  BY <1>1, <1>2, <1>4 DEF FrIInv, ToldOK, SocketsOK, NoOrphanSocket
<1>6. frSocket' # 0 /\ frSockets'[frSocket'] = "open" => frSocket' = frSocket /\ frSockets[frSocket] = "open"
  BY <1>0, <1>1, <1>2
<1>7. \A q \in 1..MaxSockets : frSockets'[q] \in {"none", "connecting"} => frSockets[q] \in {"none", "connecting"}
  BY <1>2
<1> QED BY <1>1, <1>2, <1>3, <1>5, <1>6, <1>7, SocketsMove

LEMMA DisconnectKeeps == FrIInv /\ RealtimeDisconnect => FrIInv'
<1> SUFFICES ASSUME FrIInv, RealtimeDisconnect PROVE FrIInv'
  OBVIOUS
<1>0. /\ frSockets \in [1..MaxSockets -> SocketStates] /\ frSocket \in 0..MaxSockets /\ frReset \in BOOLEAN
      /\ frConnecting \in BOOLEAN /\ MaxSockets \in Nat
  BY FrontendAssumption DEF FrIInv, ToldOK, SocketsOK
<1>1. /\ frSockets' = IF frSocket # 0 /\ frSockets[frSocket] \in {"connecting", "open"}
                      THEN [frSockets EXCEPT ![frSocket] = "closing"] ELSE frSockets
      /\ frSocket' = 0 /\ UNCHANGED <<frConnecting, frKnown, frSub, frQueued, frReset>>
  BY DEF RealtimeDisconnect
<1>2. /\ frSockets' \in [1..MaxSockets -> SocketStates]
      /\ \A q \in 1..MaxSockets : frSockets'[q] = IF q = frSocket /\ frSockets[q] \in {"connecting", "open"} THEN "closing"
                                                  ELSE frSockets[q]
  BY <1>0, <1>1 DEF SocketStates
<1>3. ~frReset' => /\ \A q \in 1..MaxSockets : frSockets'[q] = "connecting" => frConnecting'
                   /\ \A q \in 1..MaxSockets : frSockets'[q] \in {"connecting", "open"} => q = frSocket'
  BY <1>1, <1>2 DEF FrIInv, ToldOK, SocketsOK, NoOrphanSocket
<1>4. \A q \in 1..MaxSockets : frSockets'[q] \in {"none", "connecting"} => frSockets[q] \in {"none", "connecting"}
  BY <1>2
<1>5. frReset' \in BOOLEAN /\ frConnecting' \in BOOLEAN /\ frSocket' \in 0..MaxSockets /\ frSocket' = 0
  BY <1>0, <1>1
<1> QED BY <1>1, <1>2, <1>3, <1>4, <1>5, SocketsMove

\* A subscription is asked for, confirmed or given up; the sockets stand.
LEMMA SubscriptionsKeep ==
    ASSUME FrIInv, NEW sub \in RealtimeSubs,
           \/ RealtimeSubscribe(sub) \/ RealtimeUnsubscribe(sub)
           \/ \E s \in 1..MaxSockets : HandleSubscriptionConfirmed(s, sub)
    PROVE  FrIInv'
<1> DEFINE On == frSocket # 0 /\ frSockets[frSocket] = "open"
<1>0. /\ frSockets \in [1..MaxSockets -> SocketStates] /\ frSocket \in 0..MaxSockets /\ MaxSockets \in Nat
      /\ frKnown \in [1..MaxSockets -> SUBSET RealtimeSubs] /\ frQueued \subseteq RealtimeSubs
      /\ frSub \in [RealtimeSubs -> {"none", "asked", "active", "gone", "untold"}]
  BY FrontendAssumption DEF FrIInv, ToldOK, SocketsOK
<1>1. PICK becomes \in {"asked", "active", "gone", "untold"} : SubscriptionChanges(sub, becomes)
  BY DEF RealtimeSubscribe, RealtimeUnsubscribe, HandleSubscriptionConfirmed
<1>2. /\ frSub' \in [RealtimeSubs -> {"none", "asked", "active", "gone", "untold"}] /\ frSub'[sub] = becomes
      /\ \A o \in RealtimeSubs \ {sub} : frSub'[o] = frSub[o]
      /\ UNCHANGED <<frSockets, frSocket, frQueued>>
  BY <1>0, <1>1 DEF SubscriptionChanges
<1>3. PICK S : S = frSubs' /\ S = IF becomes \in {"asked", "active"} THEN frSubs \cup {sub} ELSE frSubs \ {sub}
  BY <1>0, <1>1, <1>2 DEF frSubs
<1>4. SocketsOK'
  <2>1. UNCHANGED <<frSockets, frSocket, frConnecting, frReset>>
    BY <1>1 DEF SubscriptionChanges
  <2> QED BY <2>1 DEF FrIInv, SocketsOK, NoOrphanSocket
<1>5. /\ \A o \in frQueued : o \in frSubs \/ frSub[o] = "untold"
      /\ \A s \in 1..MaxSockets : frSockets[s] \in {"none", "connecting"} => frKnown[s] = {}
      /\ On => /\ frSocket \in 1..MaxSockets /\ frSockets[frSocket] = "open" /\ frSubs \subseteq frKnown[frSocket]
               /\ \A o \in frKnown[frSocket] \ frSubs : frSub[o] = "untold"
  BY <1>0 DEF FrIInv, ToldOK, SocketsOK, OpenKnowsAll, IsConnected
<1>6. ASSUME frKnown' \in [1..MaxSockets -> SUBSET RealtimeSubs],
                      \A s \in 1..MaxSockets : frSockets[s] \in {"none", "connecting"} => frKnown'[s] = {},
                      \A o \in frQueued : o \in S \/ frSub'[o] = "untold",
                      On => /\ S \subseteq frKnown'[frSocket]
                            /\ \A o \in frKnown'[frSocket] \ S : frSub'[o] = "untold"
               PROVE  FrIInv'
  <2>1. OpenKnowsAll'
    BY <1>2, <1>3, <1>6 DEF OpenKnowsAll, IsConnected
  <2>2. ToldOK'
    BY <1>0, <1>2, <1>3, <1>6, <2>1 DEF ToldOK
  <2> QED BY <1>4, <2>2 DEF FrIInv
<1>7. CASE RealtimeSubscribe(sub)
  <2>1. /\ frSub[sub] = "none" /\ becomes = "asked" /\ sub \notin frSubs
        /\ frKnown' = IF On THEN [frKnown EXCEPT ![frSocket] = frKnown[frSocket] \cup {sub}] ELSE frKnown
    <3>1. /\ frSub[sub] = "none" /\ frSub' = [frSub EXCEPT ![sub] = "asked"]
          /\ frKnown' = IF IsConnected THEN [frKnown EXCEPT ![frSocket] = frKnown[frSocket] \cup {sub}] ELSE frKnown
      BY <1>7 DEF RealtimeSubscribe, SubscriptionChanges
    <3> QED BY <1>0, <1>2, <3>1 DEF frSubs, IsConnected
  <2>2. CASE On
    <3>1. /\ frKnown' \in [1..MaxSockets -> SUBSET RealtimeSubs] /\ frKnown'[frSocket] = frKnown[frSocket] \cup {sub}
          /\ \A s \in (1..MaxSockets) \ {frSocket} : frKnown'[s] = frKnown[s]
      BY <1>0, <1>5, <2>1, <2>2
    <3>2. S = frSubs \cup {sub} /\ frSub'[sub] = "asked"
      BY <1>2, <1>3, <2>1
    <3>3. \A s \in 1..MaxSockets : frSockets[s] \in {"none", "connecting"} => frKnown'[s] = {}
      BY <1>5, <2>2, <3>1
    <3>4. \A o \in frQueued : o \in S \/ frSub'[o] = "untold"
      BY <1>0, <1>2, <1>5, <3>2
    <3>5. S \subseteq frKnown'[frSocket] /\ \A o \in frKnown'[frSocket] \ S : frSub'[o] = "untold"
      <4>1. \A o \in frKnown[frSocket] : o \in RealtimeSubs
        BY <1>0, <1>5, <2>2
      <4> QED BY <1>2, <1>5, <2>2, <3>1, <3>2, <4>1
    <3> QED BY <1>6, <3>1, <3>3, <3>4, <3>5
  <2>3. CASE ~On
    BY <1>0, <1>2, <1>3, <1>5, <1>6, <2>1, <2>3
  <2> QED BY <2>2, <2>3
<1>8. CASE \E s \in 1..MaxSockets : HandleSubscriptionConfirmed(s, sub)
  <2>1. frSub[sub] = "asked" /\ becomes = "active" /\ UNCHANGED frKnown /\ sub \in frSubs
    <3>1. frSub[sub] = "asked" /\ UNCHANGED frKnown /\ frSub' = [frSub EXCEPT ![sub] = "active"]
      BY <1>8 DEF HandleSubscriptionConfirmed, SubscriptionChanges
    <3> QED BY <1>0, <1>2, <3>1 DEF frSubs
  <2> QED BY <1>0, <1>2, <1>3, <1>5, <1>6, <2>1
<1>9. CASE RealtimeUnsubscribe(sub)
  <2>1. /\ sub \in frSubs /\ becomes = IF frSub[sub] = "active" /\ sub \notin frQueued THEN "gone" ELSE "untold"
        /\ frKnown' = IF On /\ frSub[sub] = "active" THEN [frKnown EXCEPT ![frSocket] = frKnown[frSocket] \ {sub}]
                      ELSE frKnown
    <3>1. /\ sub \in frSubs
          /\ frSub' = [frSub EXCEPT ![sub] = IF frSub[sub] = "active" /\ sub \notin frQueued THEN "gone" ELSE "untold"]
          /\ frKnown' = IF IsConnected /\ frSub[sub] = "active" THEN [frKnown EXCEPT ![frSocket] = frKnown[frSocket] \ {sub}]
                        ELSE frKnown
      BY <1>9 DEF RealtimeUnsubscribe, SubscriptionChanges
    <3> QED BY <1>0, <1>2, <3>1 DEF IsConnected
  <2>2. \A o \in frQueued : o \in S \/ frSub'[o] = "untold"
    BY <1>0, <1>2, <1>3, <1>5, <2>1
  <2>3. CASE On /\ frSub[sub] = "active"
    <3>1. /\ frKnown' \in [1..MaxSockets -> SUBSET RealtimeSubs] /\ frKnown'[frSocket] = frKnown[frSocket] \ {sub}
          /\ \A s \in (1..MaxSockets) \ {frSocket} : frKnown'[s] = frKnown[s]
      BY <1>0, <1>5, <2>1, <2>3
    <3> QED BY <1>2, <1>3, <1>5, <1>6, <2>1, <2>2, <2>3, <3>1
  <2>4. CASE ~(On /\ frSub[sub] = "active")
    <3>1. UNCHANGED frKnown /\ (On => becomes = "untold")
      BY <2>1, <2>4
    <3> QED BY <1>0, <1>2, <1>3, <1>5, <1>6, <2>1, <2>2, <3>1
  <2> QED BY <2>3, <2>4
<1> QED BY <1>7, <1>8, <1>9

LEMMA RealtimeStart == FrInit => FrIInv
<1> SUFFICES ASSUME FrInit PROVE FrIInv
  OBVIOUS
<1>1. /\ frSockets = [s \in 1..MaxSockets |-> "none"] /\ frSocket = 0
      /\ frKnown = [s \in 1..MaxSockets |-> {}] /\ frSub = [sub \in RealtimeSubs |-> "none"] /\ frQueued = {}
  BY DEF FrInit
<1>2. ~IsConnected /\ MaxSockets \in Nat
  BY <1>1, FrontendAssumption DEF IsConnected
<1>3. ToldOK
  BY <1>1, <1>2 DEF ToldOK, SocketStates, OpenKnowsAll
<1>4. SocketsOK
  <2>1. frReset \in BOOLEAN /\ frConnecting \in BOOLEAN
    BY DEF FrInit
  <2> QED BY <1>1, <2>1 DEF SocketsOK, NoOrphanSocket
<1> QED BY <1>3, <1>4 DEF FrIInv
LEMMA RealtimeStands ==
    ASSUME FrIInv, UNCHANGED <<frSockets, frSocket, frConnecting, frKnown, frSub, frQueued, frReset>>
    PROVE  FrIInv'
<1>1. OpenKnowsAll' /\ NoOrphanSocket'
  BY DEF FrIInv, ToldOK, SocketsOK, OpenKnowsAll, NoOrphanSocket, IsConnected, frSubs
<1> QED BY <1>1 DEF FrIInv, ToldOK, SocketsOK, frSubs
LEMMA RealtimeStep == FrIInv /\ FrNext => FrIInv'
<1> SUFFICES ASSUME FrIInv, FrNext PROVE FrIInv'
  OBVIOUS
<1>1. CASE RealtimeConnect \/ ReconnectTimer
  BY <1>1, ConnectKeeps DEF RealtimeConnect, ReconnectTimer
<1>2. CASE FallbackToSSE
  BY <1>2, RealtimeStands DEF FallbackToSSE
<1> QED BY <1>1, <1>2, OpenKeeps, CloseKeeps, DisconnectKeeps, SubscriptionsKeep DEF FrNext
LEMMA RealtimeStutter == FrIInv /\ UNCHANGED frVars => FrIInv'
BY RealtimeStands DEF frVars
LEMMA RealtimeIsSafe == FrIInv => OpenKnowsAll /\ NoOrphanSocket
BY DEF FrIInv, ToldOK, SocketsOK
=============================================================================
