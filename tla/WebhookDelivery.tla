--------------------------- MODULE WebhookDelivery ---------------------------
(***************************************************************************)
(* One webhook of the webhook service and the deliveries made to it: events  *)
(* dispatched from Redis, attempts kept as rows, retries picked up by        *)
(* ProcessRetries, dead letters and their replay, and the owner's changes.   *)
(* A worker works on a copy of a row, and every Save writes the whole copy   *)
(* back.  A statement may fail and the process may stop, MaxWebhookFaults times.    *)
(***************************************************************************)
EXTENDS Integers, Sequences, SequencesExt, FiniteSets

CONSTANTS
    Events,         \* events that arrive, each once
    Subscriptions,  \* of the webhook
    Dispatchers,    \* event listeners
    Retriers,       \* concurrent calls of ProcessRetries
    Admins,         \* concurrent calls of ReplayDeadLetter
    MaxAttempts,    \* Webhook.MaxRetries
    MaxRows,        \* bound on attempt rows
    MaxWebhookFaults       \* bound on failed statements and crashes

ASSUME WebhookAssumption == MaxAttempts \in Nat \ {0} /\ MaxRows \in Nat /\ MaxWebhookFaults \in Nat

VARIABLES
    whHook,     \* Webhook.Status, or deleted
    whUrl,      \* whether a request can be made of Webhook.URL, of which only the prefix is checked
    whSubs,     \* the subscriptions that are active
    whSeen,     \* events that have arrived
    whRows,     \* webhook_delivery_attempts
    whDead,     \* webhook_dead_letters
    whWork,     \* each worker: what it does next, to which row, with which copy
    whReplay,   \* each admin: the dead letter found unprocessed, or 0
    whSent,     \* history: events the endpoint has received
    whPanicked, \* history: the process has ended at a result that is nil
    whFaults

whVars == <<whHook, whUrl, whSubs, whSeen, whRows, whDead, whWork, whReplay, whSent, whPanicked, whFaults>>

----------------------------------------------------------------------------
(***************************************************************************)
(* Which events a subscription is for: the matching functions of             *)
(* event_dispatcher.go.  An event has a type, a resource, a workspace, a     *)
(* user, a time and a record of data; a subscription has a type, a resource  *)
(* or Anything, its webhook's workspace or Anything, and filters.  A value   *)
(* is a number or a text, the sequence of its letters.                       *)
(***************************************************************************)
Anything == "any"

Number(x) == [kind |-> "number", is |-> x]
Text(x) == [kind |-> "text", is |-> x]
CompareValues(a, b) == a.kind = b.kind /\ a.is = b.is
ContainsValue(a, b) ==
    a.kind = "text" /\ b.kind = "text" /\ \E i \in 0 .. Len(a.is) : IsPrefix(b.is, SubSeq(a.is, i + 1, Len(a.is)))
GreaterValue(a, b) == a.kind = "number" /\ b.kind = "number" /\ a.is > b.is

\* A rule that is whole compares one field; a field the event lacks satisfies not_exists alone.
EvaluateRule(event, rule) ==
    /\ {"field", "operator", "value"} \subseteq DOMAIN rule
    /\ IF rule.field \notin DOMAIN event.data THEN rule.operator = "not_exists"
       ELSE LET v == event.data[rule.field]
            IN  CASE rule.operator = "equals"       -> CompareValues(v, rule.value)
                  [] rule.operator = "not_equals"   -> ~CompareValues(v, rule.value)
                  [] rule.operator = "contains"     -> ContainsValue(v, rule.value)
                  [] rule.operator = "not_contains" -> ~ContainsValue(v, rule.value)
                  [] rule.operator = "greater_than" -> GreaterValue(v, rule.value)
                  [] rule.operator = "less_than"    -> GreaterValue(rule.value, v)
                  [] OTHER -> rule.operator = "exists"
EvaluateAndConditions(event, rules) == \A r \in ToSet(rules) : EvaluateRule(event, r)
EvaluateOrConditions(event, rules) == \E r \in ToSet(rules) : EvaluateRule(event, r)

\* not is the negation of or: it holds when no rule does.
MatchesConditionsFilter(event, conditions) ==
    CASE conditions.operator = "and" -> EvaluateAndConditions(event, conditions.rules)
      [] conditions.operator = "or"  -> EvaluateOrConditions(event, conditions.rules)
      [] conditions.operator = "not" -> ~EvaluateOrConditions(event, conditions.rules)
      [] OTHER -> FALSE
MatchesFieldsFilter(event, fields) ==
    \A f \in DOMAIN fields : f \in DOMAIN event.data /\ CompareValues(event.data[f], fields[f])
MatchesUserIDFilter(event, users) == event.user \in users
MatchesTimeRangeFilter(event, range) == range.start <= event.time /\ event.time <= range.end

\* An unknown filter is only logged.
ApplyCustomFilters(event, filters) ==
    \A key \in DOMAIN filters :
        CASE key = "user_id"    -> MatchesUserIDFilter(event, filters[key])
          [] key = "fields"     -> MatchesFieldsFilter(event, filters[key])
          [] key = "conditions" -> MatchesConditionsFilter(event, filters[key])
          [] key = "time_range" -> MatchesTimeRangeFilter(event, filters[key])
          [] OTHER -> TRUE

EventMatchesSubscription(event, sub) ==
    /\ sub.type = event.type
    /\ sub.resource \in {Anything, event.resource}
    /\ event.workspace = Anything \/ sub.workspace \in {Anything, event.workspace}
    /\ ApplyCustomFilters(event, sub.filters)

----------------------------------------------------------------------------
Workers == Dispatchers \cup Retriers
IdleWorker == [at |-> "idle", event |-> 0, row |-> 0, n |-> 0, hook |-> "usable", todo |-> {}]
Ids == {e.id : e \in Events}

HookStatuses == {"active", "paused", "deleted"}
\* The webhook as a query loads it; Preload finds no row of a deleted one and leaves it empty.
HookCopies == {"usable", "unusable", "empty"}
HookCopy == CASE whHook = "deleted" -> "empty" [] whUrl -> "usable" [] OTHER -> "unusable"
DeliveryAttempts ==
    [event : Ids, status : {"pending", "delivered", "failed", "retrying", "abandoned"},
     n : 1 .. MaxAttempts, due : BOOLEAN, replayed : BOOLEAN]
DeadLetters == [event : Ids, processed : BOOLEAN]

WhTypeOK ==
    /\ whHook \in HookStatuses /\ whUrl \in BOOLEAN /\ whPanicked \in BOOLEAN /\ whSubs \subseteq Subscriptions
    /\ whSeen \subseteq Ids /\ whSent \subseteq Ids /\ whFaults \in 0 .. MaxWebhookFaults
    /\ ToSet(whRows) \subseteq DeliveryAttempts /\ ToSet(whDead) \subseteq DeadLetters
    /\ whReplay \in [Admins -> 0 .. Len(whDead)]
    /\ \A w \in Workers :
          whWork[w].at \in {"idle", "create", "send", "save ok", "save failure", "retry or bury", "bury", "abandon"}

WhInit ==
    /\ whHook = "active" /\ whUrl = TRUE /\ whSubs = Subscriptions /\ whSeen = {}
    /\ whRows = <<>> /\ whDead = <<>>
    /\ whWork = [w \in Workers |-> IdleWorker]
    /\ whReplay = [a \in Admins |-> 0]
    /\ whSent = {} /\ whPanicked = FALSE /\ whFaults = 0

Fault == whFaults < MaxWebhookFaults /\ whFaults' = whFaults + 1
NoFault == UNCHANGED whFaults
\* The worker's copy is saved, or the statement fails, which is only logged.
SaveCopy(w, status, due) ==
    \/ /\ whRows' = [whRows EXCEPT ![whWork[w].row].status = status, ![whWork[w].row].due = due,
                                   ![whWork[w].row].n = whWork[w].n]
       /\ NoFault
    \/ UNCHANGED whRows /\ Fault
Goto(w, at) == whWork' = [whWork EXCEPT ![w].at = at]
NewAttempt(event, replayed) ==
    Append(whRows, [event |-> event, status |-> "pending", n |-> 1, due |-> FALSE, replayed |-> replayed])
\* The rows a retry may take; their order is that of their times, which are abstracted.
GetRetriesReady ==
    {[row |-> r, n |-> whRows[r].n, event |-> whRows[r].event] :
        r \in {x \in DOMAIN whRows : whRows[x].status = "retrying" /\ whRows[x].due}}
GetActiveSubscriptions == IF whHook = "active" THEN whSubs ELSE {}
\* On to a row of a batch: its number is raised in the copy only.
Retry(copy, hook, todo) ==
    [at |-> "send", event |-> copy.event, row |-> copy.row, n |-> copy.n + 1, hook |-> hook, todo |-> todo]
NextRow(w) ==
    LET todo == whWork[w].todo
    IN  \/ todo = {} /\ whWork' = [whWork EXCEPT ![w] = IdleWorker]
        \/ \E copy \in todo :
              whWork' = [whWork EXCEPT ![w] = Retry(copy, whWork[w].hook, todo \ {copy})]

----------------------------------------------------------------------------

\* DispatchEvent, with the subscriptions as the query found them.  A webhook that is not
\* active is skipped; an open breaker or an exhausted rate limit drops the event.
DispatchEvent(w, e) ==
    /\ whWork[w].at = "idle" /\ e.id \notin whSeen
    /\ whSeen' = whSeen \cup {e.id}
    /\ \/ /\ \E s \in GetActiveSubscriptions : EventMatchesSubscription(e, s)
          /\ whWork' = [whWork EXCEPT ![w] = [IdleWorker EXCEPT !.at = "create", !.event = e.id, !.n = 1,
                                                            !.hook = HookCopy]]
       \/ UNCHANGED whWork
    /\ UNCHANGED <<whHook, whUrl, whSubs, whRows, whDead, whReplay, whSent, whFaults, whPanicked>>

\* DeliverWebhook: the attempt is stored as pending before the request is sent.
CreateAttempt(w) ==
    /\ whWork[w].at = "create"
    /\ \/ /\ Len(whRows) < MaxRows
          /\ whRows' = NewAttempt(whWork[w].event, FALSE)
          /\ whWork' = [whWork EXCEPT ![w].at = "send", ![w].row = Len(whRows) + 1]
          /\ NoFault
       \/ /\ Goto(w, "idle") /\ UNCHANGED whRows /\ Fault
    /\ UNCHANGED <<whHook, whUrl, whSubs, whSeen, whDead, whReplay, whSent, whPanicked>>

\* attemptDelivery.  The endpoint may have received what is reported as failed, and nothing is
\* sent when the breaker is open.  An empty webhook has no secret to sign with, an unusable URL
\* makes no request: then there is no result at all.
AttemptDelivery(w) ==
    /\ whWork[w].at = "send"
    /\ \/ /\ whWork[w].hook = "usable"
          /\ whSent' = whSent \cup {whWork[w].event}
          /\ \E at \in {"save ok", "save failure"} : Goto(w, at)
       \/ Goto(w, "save failure") /\ UNCHANGED whSent
    /\ UNCHANGED <<whHook, whUrl, whSubs, whSeen, whRows, whDead, whReplay, whFaults, whPanicked>>

\* updateDeliveryAttempt: with no result, the error says that the attempt failed.
UpdateDeliveryAttempt(w) ==
    /\ \/ /\ whWork[w].at = "save ok" /\ SaveCopy(w, "delivered", FALSE)
          /\ NextRow(w)
       \/ /\ whWork[w].at = "save failure" /\ SaveCopy(w, "failed", FALSE)
          /\ Goto(w, "retry or bury")
    /\ UNCHANGED <<whHook, whUrl, whSubs, whSeen, whDead, whReplay, whSent, whPanicked>>

\* Mutant: out of retries, the row is given up without a dead letter.
HandleFailedDeliveryAbandons(w) ==
    /\ whWork[w].at = "retry or bury"
    /\ IF whWork[w].hook # "empty" /\ whWork[w].n < MaxAttempts
       THEN SaveCopy(w, "retrying", FALSE) /\ NextRow(w)
       ELSE Goto(w, "abandon") /\ UNCHANGED <<whRows, whFaults>>
    /\ UNCHANGED <<whHook, whUrl, whSubs, whSeen, whDead, whReplay, whSent, whPanicked>>

\* handleFailedDelivery.  An empty webhook has no retries left.
HandleFailedDelivery(w) ==
    /\ whWork[w].at = "retry or bury"
    /\ IF whWork[w].hook # "empty" /\ whWork[w].n < MaxAttempts
       THEN SaveCopy(w, "retrying", FALSE) /\ NextRow(w)
       ELSE Goto(w, "bury") /\ UNCHANGED <<whRows, whFaults>>
    /\ UNCHANGED <<whHook, whUrl, whSubs, whSeen, whDead, whReplay, whSent, whPanicked>>

\* Workers and admins are gone with the process: copies and batches are lost, rows stay as they are.
EndProcess ==
    whWork' = [w \in Workers |-> IdleWorker] /\ whReplay' = [a \in Admins |-> 0]

\* moveToDeadLetter: the dead letter, which names the status code of the last result, and then
\* the row.  Where there is no result the process panics.
MoveToDeadLetter(w) ==
    /\ \/ /\ whWork[w].at = "bury" /\ whWork[w].hook = "usable"
          /\ \/ /\ whDead' = Append(whDead, [event |-> whWork[w].event, processed |-> FALSE])
                /\ Goto(w, "abandon") /\ NoFault
             \/ NextRow(w) /\ UNCHANGED whDead /\ Fault
          /\ UNCHANGED <<whRows, whReplay, whPanicked>>
       \/ /\ whWork[w].at = "abandon" /\ SaveCopy(w, "abandoned", FALSE)
          /\ NextRow(w) /\ UNCHANGED <<whDead, whReplay, whPanicked>>
       \/ /\ whWork[w].at = "bury" /\ whWork[w].hook # "usable"
          /\ EndProcess /\ whPanicked' = TRUE
          /\ UNCHANGED <<whRows, whDead, whFaults>>
    /\ UNCHANGED <<whHook, whUrl, whSubs, whSeen, whSent>>

\* ProcessRetries: the rows that are due are read, and left as they are until delivered.
ProcessRetries(w) ==
    /\ whWork[w].at = "idle"
    /\ \E copy \in GetRetriesReady :
          whWork' = [whWork EXCEPT ![w] = Retry(copy, HookCopy, GetRetriesReady \ {copy})]
    /\ UNCHANGED <<whHook, whUrl, whSubs, whSeen, whRows, whDead, whReplay, whSent, whFaults, whPanicked>>

\* calculateBackoff's delay passes.
RetryFallsDue(r) ==
    /\ whRows[r].status = "retrying" /\ ~whRows[r].due
    /\ whRows' = [whRows EXCEPT ![r].due = TRUE]
    /\ UNCHANGED <<whHook, whUrl, whSubs, whSeen, whDead, whWork, whReplay, whSent, whFaults, whPanicked>>

----------------------------------------------------------------------------

\* ReplayDeadLetter looks for an unprocessed dead letter ...
ReplayDeadLetter(a) ==
    /\ whReplay[a] = 0
    /\ \E d \in DOMAIN whDead : ~whDead[d].processed /\ whReplay' = [whReplay EXCEPT ![a] = d]
    /\ UNCHANGED <<whHook, whUrl, whSubs, whSeen, whRows, whDead, whWork, whSent, whFaults, whPanicked>>
\* ... and replays it in a transaction that does not look again.  In the same second the
\* unique key of the new row refuses a second replay.
Replay(a) ==
    LET d == whReplay[a]
    IN  /\ d # 0
        /\ \/ /\ Len(whRows) < MaxRows
              /\ whRows' = NewAttempt(whDead[d].event, TRUE)
              /\ whDead' = [whDead EXCEPT ![d].processed = TRUE] /\ NoFault
           \/ UNCHANGED <<whRows, whDead>> /\ (Fault \/ (whDead[d].processed /\ NoFault))
        /\ whReplay' = [whReplay EXCEPT ![a] = 0]
        /\ UNCHANGED <<whHook, whUrl, whSubs, whSeen, whWork, whSent, whPanicked>>

\* The owner may set another URL and pause the webhook, or let it go on.
UpdateWebhook ==
    /\ whHook # "deleted" /\ whHook' \in {"active", "paused"} /\ whUrl' \in BOOLEAN
    /\ UNCHANGED <<whSubs, whSeen, whRows, whDead, whWork, whReplay, whSent, whFaults, whPanicked>>
DeleteWebhook ==
    /\ whHook # "deleted" /\ whHook' = "deleted"
    /\ UNCHANGED <<whUrl, whSubs, whSeen, whRows, whDead, whWork, whReplay, whSent, whFaults, whPanicked>>
\* A subscription is switched on or off, or deleted.
UpdateSubscription(s) ==
    /\ whSubs' = IF s \in whSubs THEN whSubs \ {s} ELSE whSubs \cup {s}
    /\ UNCHANGED <<whHook, whUrl, whSeen, whRows, whDead, whWork, whReplay, whSent, whFaults, whPanicked>>

\* The process stops.
ServiceStops ==
    /\ Fault /\ EndProcess
    /\ UNCHANGED <<whHook, whUrl, whSubs, whSeen, whRows, whDead, whSent, whPanicked>>

Deliver(w) == CreateAttempt(w) \/ AttemptDelivery(w) \/ UpdateDeliveryAttempt(w)
              \/ HandleFailedDelivery(w) \/ MoveToDeadLetter(w)
WhNext ==
    \/ \E w \in Dispatchers, e \in Events : DispatchEvent(w, e)
    \/ \E w \in Workers : Deliver(w)
    \/ \E w \in Retriers : ProcessRetries(w)
    \/ \E r \in DOMAIN whRows : RetryFallsDue(r)
    \/ \E a \in Admins : ReplayDeadLetter(a) \/ Replay(a)
    \/ UpdateWebhook \/ DeleteWebhook \/ \E s \in Subscriptions : UpdateSubscription(s)
    \/ ServiceStops
WhSpec == WhInit /\ [][WhNext]_whVars

----------------------------------------------------------------------------

Held(r) == \E w \in Workers : whWork[w].at # "idle" /\ whWork[w].row = r
\* Nothing picks up a row that is pending or failed: without a failed statement, a crash or a
\* panic such a row is in a worker's hands, or it is a replayed one, which no part of the service
\* ever delivers.
AttemptIsHeld ==
    \A r \in DOMAIN whRows :
        whRows[r].status \in {"pending", "failed"} /\ ~Held(r) =>
            whFaults > 0 \/ whPanicked \/ whRows[r].replayed
\* A row that says delivered was received by the endpoint, whoever else worked on it.
DeliveredWasSent ==
    \A r \in DOMAIN whRows : whRows[r].status = "delivered" => whRows[r].event \in whSent
\* An event given up is in the dead letters, to be seen and replayed.
AbandonedIsDead ==
    \A r \in DOMAIN whRows :
        whRows[r].status = "abandoned" => \E d \in DOMAIN whDead : whDead[d].event = whRows[r].event
WebhookSafety == AttemptIsHeld /\ DeliveredWasSent /\ AbandonedIsDead
=============================================================================
