-------------------------- MODULE OutboxPublishers --------------------------
(***************************************************************************)
(* What stands between an outbox and the outside: the composite, retrying    *)
(* and circuit-breaking publishers of pkg/outbox/event_publishers.go, wired  *)
(* as in createCompositePublisher (config.go), and the enhanced outbox's     *)
(* tracked processing of an entry with a breaker and a row of its own        *)
(* (enhanced_outbox.go).  Nothing calls processEntryWithTracking; its callers *)
(* are taken to be goroutines that poll as the base outbox's do.             *)
(***************************************************************************)
EXTENDS Integers, Sequences, FiniteSets

CONSTANTS
    Targets,           \* CompositePublisher.publishers, in order
    Guarded,           \* those that are a RetryablePublisher around a CircuitBreakerPublisher
    PublishStrategies, \* "all", "any" or "primary"
    TargetTries,       \* RetryablePublisher.maxRetries
    TargetFailures,    \* CircuitBreakerPublisher.maxFailures
    PublishCallers, PublishedEntries,
    MaxPublishCalls,   \* bound on the calls for an entry
    Trackers,          \* enhanced outboxes with the same ProcessorName
    TrackerDrivers,    \* database/sql drivers of the *sql.DB they are given
    TrackerFailures,   \* CircuitBreakerConfig.MaxFailures
    MaxTracked,        \* bound on the processings of an entry
    MaxTrackerStarts, MaxTrackerFaults

ASSUME PublishersAssumption ==
    /\ Len(Targets) \in Nat \ {0} /\ DOMAIN Targets = 1 .. Len(Targets)
    /\ \A i, j \in DOMAIN Targets : Targets[i] = Targets[j] => i = j   \* each is made by a call of its own
    /\ IsFiniteSet(PublishCallers) /\ 0 \notin PublishedEntries
    /\ PublishStrategies \subseteq {"all", "any", "primary"} /\ TrackerDrivers \subseteq {"pq", "pgx", "pgx_simple"}
    /\ TargetTries \in Nat \ {0} /\ TargetFailures \in Nat \ {0} /\ TrackerFailures \in Nat \ {0}
    /\ MaxPublishCalls \in Nat /\ MaxTracked \in Nat /\ MaxTrackerStarts \in Nat /\ MaxTrackerFaults \in Nat

VARIABLES
    pbStrategy, pbCall,
    pbState, pbCount, pbDue,   \* of each breaker: state, failureCount, the reset timeout has passed
    pbCalls, pbAcked,          \* history: calls for an entry; entries for which a call returned nil
    pbReceived,                \* history: how often a target received an entry
    pbSwallowed,               \* history: <<entry, target>> answered with nil and not sent
    pbTrips, pbSwallows,       \* history: how often a breaker opened; how often it swallowed an entry
    pbOverlap,                 \* history: two calls were inside a breaker at once
    tkDriver, tkRow, tkTask, tkPhase, tkBreaker, tkRegistry,
    tkSent, tkTracked,         \* history: how often an entry was sent; processings of it
    tkDone, tkShared,          \* history: entries that were marked published; that two processed at once
    tkStuck,                   \* history: entries whose processing a failed statement or a crash cut off
    tkStarts, tkFaults

pbVars == <<pbStrategy, pbCall, pbState, pbCount, pbDue, pbCalls, pbAcked, pbReceived, pbSwallowed,
            pbTrips, pbSwallows, pbOverlap>>
tkVars == <<tkDriver, tkRow, tkTask, tkPhase, tkBreaker, tkRegistry, tkSent, tkTracked, tkDone, tkShared,
            tkStuck, tkStarts, tkFaults>>

----------------------------------------------------------------------------
(***************************************************************************)
(* The publishers.  A breaker has no lock: what a caller read of it may be   *)
(* old when it writes.                                                       *)
(***************************************************************************)
NoCall == [at |-> "idle", entry |-> 0, target |-> 1, attempt |-> 1, failed |-> FALSE, ok |-> FALSE, seen |-> 0]
Target(c) == Targets[c.target]
InBreaker == {w \in PublishCallers : pbCall[w].at \in {"send", "reopen", "record"} /\ Target(pbCall[w]) \in Guarded}
CallGoes(w, c) == pbCall' = [pbCall EXCEPT ![w] = c]

PublishCall(w, e) ==
    /\ pbCall[w].at = "idle" /\ pbCalls[e] < MaxPublishCalls
    /\ CallGoes(w, [NoCall EXCEPT !.at = "publish", !.entry = e])
    /\ pbCalls' = [pbCalls EXCEPT ![e] = @ + 1]
    /\ UNCHANGED <<pbStrategy, pbState, pbCount, pbDue, pbAcked, pbReceived, pbSwallowed, pbTrips, pbSwallows, pbOverlap>>

\* What the composite makes of a target's answer: "all" goes on to the end and remembers a failure,
\* "any" and "primary" end with the first success.
AfterTarget(w, ok) ==
    LET c == pbCall[w]
        last == c.target = Len(Targets) \/ (ok /\ pbStrategy # "all")
        success == IF pbStrategy = "all" THEN ok /\ ~c.failed ELSE ok
    IN  IF last
        THEN CallGoes(w, NoCall) /\ pbAcked' = IF success THEN pbAcked \cup {c.entry} ELSE pbAcked
        ELSE /\ CallGoes(w, [NoCall EXCEPT !.at = "publish", !.entry = c.entry, !.target = c.target + 1,
                                           !.failed = c.failed \/ ~ok])
             /\ UNCHANGED pbAcked
\* A failed attempt is repeated, unless it was the last or the context has ended.
Returns(w, ok) ==
    LET c == pbCall[w]
    IN  \/ /\ ~ok /\ Target(c) \in Guarded /\ c.attempt < TargetTries
           /\ CallGoes(w, [c EXCEPT !.at = "publish", !.attempt = @ + 1]) /\ UNCHANGED pbAcked
        \/ AfterTarget(w, ok)

Attempt(w) ==
    LET c == pbCall[w]
        open == Target(c) \in Guarded /\ pbState[Target(c)] = "open"
    IN  /\ c.at = "publish"
        /\ IF open /\ ~pbDue[Target(c)] THEN Returns(w, FALSE)
           ELSE CallGoes(w, [c EXCEPT !.at = IF open THEN "reopen" ELSE "send"]) /\ UNCHANGED pbAcked
        /\ pbOverlap' = (pbOverlap \/ (Target(c) \in Guarded /\ InBreaker # {}))
        /\ UNCHANGED <<pbStrategy, pbState, pbCount, pbDue, pbCalls, pbReceived, pbSwallowed, pbTrips, pbSwallows>>
\* The call that ends the open state returns nil, and sends nothing.
Reopen(w) ==
    LET c == pbCall[w] t == Target(c)
    IN  /\ c.at = "reopen" /\ pbState' = [pbState EXCEPT ![t] = "half-open"]
        /\ pbSwallowed' = pbSwallowed \cup {<<c.entry, t>>} /\ pbSwallows' = [pbSwallows EXCEPT ![t] = @ + 1]
        /\ Returns(w, TRUE)
        /\ UNCHANGED <<pbStrategy, pbCount, pbDue, pbCalls, pbReceived, pbTrips, pbOverlap>>
\* What failed may have been received.
Send(w) ==
    LET c == pbCall[w] t == Target(c)
    IN  /\ c.at = "send"
        /\ \E ok \in BOOLEAN :
              /\ \E n \in IF ok THEN {1} ELSE {0, 1} : pbReceived' = [pbReceived EXCEPT ![c.entry][t] = @ + n]
              /\ IF t \in Guarded
                 THEN CallGoes(w, [c EXCEPT !.at = "record", !.ok = ok, !.seen = pbCount[t]]) /\ UNCHANGED pbAcked
                 ELSE Returns(w, ok)
        /\ UNCHANGED <<pbStrategy, pbState, pbCount, pbDue, pbCalls, pbSwallowed, pbTrips, pbSwallows, pbOverlap>>
Record(w) ==
    LET c == pbCall[w] t == Target(c)
        trips == ~c.ok /\ c.seen + 1 >= TargetFailures
    IN  /\ c.at = "record"
        /\ pbCount' = [pbCount EXCEPT ![t] = IF c.ok THEN 0 ELSE c.seen + 1]
        /\ pbState' = [pbState EXCEPT ![t] = IF c.ok /\ @ = "half-open" THEN "closed" ELSE IF trips THEN "open" ELSE @]
        /\ pbDue' = IF c.ok THEN pbDue ELSE [pbDue EXCEPT ![t] = FALSE]
        /\ pbTrips' = IF trips THEN [pbTrips EXCEPT ![t] = @ + 1] ELSE pbTrips
        /\ Returns(w, c.ok)
        /\ UNCHANGED <<pbStrategy, pbCalls, pbReceived, pbSwallowed, pbSwallows, pbOverlap>>
ResetTimeoutPasses(t) ==
    /\ pbState[t] = "open" /\ ~pbDue[t] /\ pbDue' = [pbDue EXCEPT ![t] = TRUE]
    /\ UNCHANGED <<pbStrategy, pbCall, pbState, pbCount, pbCalls, pbAcked, pbReceived, pbSwallowed, pbTrips, pbSwallows, pbOverlap>>

TargetSet == {Targets[i] : i \in DOMAIN Targets}
PbInit ==
    /\ pbStrategy \in PublishStrategies /\ pbCall = [w \in PublishCallers |-> NoCall]
    /\ pbState = [t \in Guarded |-> "closed"] /\ pbCount = [t \in Guarded |-> 0] /\ pbDue = [t \in Guarded |-> FALSE]
    /\ pbCalls = [e \in PublishedEntries |-> 0] /\ pbAcked = {}
    /\ pbReceived = [e \in PublishedEntries |-> [t \in TargetSet |-> 0]] /\ pbSwallowed = {}
    /\ pbTrips = [t \in Guarded |-> 0] /\ pbSwallows = [t \in Guarded |-> 0] /\ pbOverlap = FALSE
PbNext ==
    \/ \E w \in PublishCallers, e \in PublishedEntries : PublishCall(w, e)
    \/ \E w \in PublishCallers : Attempt(w) \/ Reopen(w) \/ Send(w) \/ Record(w)
    \/ \E t \in Guarded : ResetTimeoutPasses(t)

----------------------------------------------------------------------------
(***************************************************************************)
(* The enhanced outboxes: their row in outbox_processors, whose key is the   *)
(* name, their breakers, and the entries they process.                       *)
(***************************************************************************)
NoTask == [at |-> "idle", entry |-> 0]
NewBreaker == [failures |-> 0, open |-> FALSE, due |-> FALSE]
TrackerFault == tkFaults < MaxTrackerFaults /\ tkFaults' = tkFaults + 1
TaskGoes(p, task) == tkTask' = [tkTask EXCEPT ![p] = task]

\* registerProcessor: the row of the name becomes this process's, also if Start fails after it.
StartTracker(p) ==
    /\ tkPhase[p] = "down" /\ tkStarts < MaxTrackerStarts /\ tkStarts' = tkStarts + 1
    /\ \/ /\ tkPhase' = [tkPhase EXCEPT ![p] = "up"] /\ tkRegistry' = [id |-> p, active |-> TRUE]
          /\ tkBreaker' = [tkBreaker EXCEPT ![p] = NewBreaker] /\ UNCHANGED tkFaults
       \/ TrackerFault /\ tkRegistry' \in {tkRegistry, [id |-> p, active |-> TRUE]} /\ UNCHANGED <<tkPhase, tkBreaker>>
    /\ UNCHANGED <<tkRow, tkTask, tkSent, tkTracked, tkDone, tkShared, tkStuck>>
StopTracker(p) ==
    /\ tkPhase[p] = "up" /\ tkPhase' = [tkPhase EXCEPT ![p] = "stopping"]
    /\ UNCHANGED <<tkRow, tkTask, tkBreaker, tkRegistry, tkSent, tkTracked, tkDone, tkShared, tkStuck, tkStarts, tkFaults>>
\* The heartbeat goroutine waits for nobody.  Only the row that still has this process's id; an error is
\* not looked at.
DeactivateProcessor(p) ==
    /\ tkPhase[p] = "stopping" /\ tkPhase' = [tkPhase EXCEPT ![p] = "deactivated"]
    /\ \/ tkRegistry' = (IF tkRegistry.id = p THEN [tkRegistry EXCEPT !.active = FALSE] ELSE tkRegistry) /\ UNCHANGED tkFaults
       \/ TrackerFault /\ UNCHANGED tkRegistry
    /\ UNCHANGED <<tkRow, tkTask, tkBreaker, tkSent, tkTracked, tkDone, tkShared, tkStuck, tkStarts>>
\* Stop does.
TrackerEnds(p) ==
    /\ tkPhase[p] = "deactivated" /\ tkTask[p] = NoTask /\ tkPhase' = [tkPhase EXCEPT ![p] = "down"]
    /\ UNCHANGED <<tkRow, tkTask, tkBreaker, tkRegistry, tkSent, tkTracked, tkDone, tkShared, tkStuck, tkStarts, tkFaults>>
TrackerCrashes(p) ==
    /\ tkPhase[p] # "down" /\ TrackerFault /\ tkPhase' = [tkPhase EXCEPT ![p] = "down"]
    /\ TaskGoes(p, NoTask) /\ tkStuck' = tkStuck \cup ({tkTask[p].entry} \ {0})
    /\ UNCHANGED <<tkRow, tkBreaker, tkRegistry, tkSent, tkTracked, tkDone, tkShared, tkStarts>>

\* CanProcess only reads: no call makes an open breaker half-open.
CanProcess(p) == ~tkBreaker[p].open \/ tkBreaker[p].due
BreakerDue(p) ==
    /\ tkBreaker[p].open /\ ~tkBreaker[p].due /\ tkBreaker' = [tkBreaker EXCEPT ![p].due = TRUE]
    /\ UNCHANGED <<tkRow, tkTask, tkPhase, tkRegistry, tkSent, tkTracked, tkDone, tkShared, tkStuck, tkStarts, tkFaults>>
ProcessEntryWithTracking(p, e) ==
    /\ tkPhase[p] = "up" /\ tkTask[p] = NoTask /\ tkRow[e] \in {"pending", "failed"} /\ tkTracked[e] < MaxTracked
    /\ CanProcess(p) /\ TaskGoes(p, [at |-> "mark", entry |-> e]) /\ tkTracked' = [tkTracked EXCEPT ![e] = @ + 1]
    /\ tkShared' = IF \E q \in Trackers : tkTask[q].entry = e THEN tkShared \cup {e} ELSE tkShared
    /\ UNCHANGED <<tkRow, tkPhase, tkBreaker, tkRegistry, tkSent, tkDone, tkStuck, tkStarts, tkFaults>>
\* The count of rows that were marked is not looked at.  The answer may be lost; and lib/pq refuses the
\* []string of the statement.
MarkAsProcessing(p) ==
    LET e == tkTask[p].entry
        marked == IF tkRow[e] \in {"pending", "failed"} THEN [tkRow EXCEPT ![e] = "processing"] ELSE tkRow
    IN  /\ tkTask[p].at = "mark"
        /\ \/ /\ tkDriver # "pq" /\ tkRow' = marked
              /\ TaskGoes(p, [tkTask[p] EXCEPT !.at = "publish"]) /\ UNCHANGED <<tkStuck, tkFaults>>
           \/ /\ tkDriver # "pq" /\ TrackerFault /\ tkRow' \in {tkRow, marked} /\ TaskGoes(p, NoTask)
              /\ tkStuck' = IF tkRow' = tkRow THEN tkStuck ELSE tkStuck \cup {e}
           \/ tkDriver = "pq" /\ TaskGoes(p, NoTask) /\ UNCHANGED <<tkRow, tkStuck, tkFaults>>
        /\ UNCHANGED <<tkPhase, tkBreaker, tkRegistry, tkSent, tkTracked, tkDone, tkShared, tkStarts>>
TrackedPublish(p) ==
    /\ tkTask[p].at = "publish"
    /\ \/ /\ TaskGoes(p, [tkTask[p] EXCEPT !.at = "succeeded"]) /\ UNCHANGED tkBreaker
          /\ tkSent' = [tkSent EXCEPT ![tkTask[p].entry] = @ + 1]
       \/ /\ TaskGoes(p, [tkTask[p] EXCEPT !.at = "failed"])
          /\ \E n \in {0, 1} : tkSent' = [tkSent EXCEPT ![tkTask[p].entry] = @ + n]
          /\ LET n == tkBreaker[p].failures + 1
             IN  tkBreaker' = [tkBreaker EXCEPT ![p] = [failures |-> n, open |-> @.open \/ n >= TrackerFailures, due |-> FALSE]]
    /\ UNCHANGED <<tkRow, tkPhase, tkRegistry, tkTracked, tkDone, tkShared, tkStuck, tkStarts, tkFaults>>
\* markAsPublished takes a row that is still processing; handlePublishFailure's UPDATE names the id alone,
\* and is refused after the last retry where the driver prepares it.
FinishTracking(p) ==
    LET e == tkTask[p].entry
        failed == tkTask[p].at = "failed"
        marks == ~failed /\ tkRow[e] = "processing"
        writes == /\ tkRow' = [tkRow EXCEPT ![e] = IF failed THEN "failed" ELSE IF marks THEN "published" ELSE @]
                  /\ tkDone' = IF marks THEN tkDone \cup {e} ELSE tkDone
    IN  /\ tkTask[p].at \in {"succeeded", "failed"} /\ TaskGoes(p, NoTask)
        /\ \/ writes /\ UNCHANGED <<tkStuck, tkFaults>>
           \/ TrackerFault /\ tkStuck' = tkStuck \cup {e} /\ (writes \/ UNCHANGED <<tkRow, tkDone>>)
           \/ failed /\ tkDriver = "pgx" /\ tkStuck' = tkStuck \cup {e} /\ UNCHANGED <<tkRow, tkDone, tkFaults>>
        /\ UNCHANGED <<tkPhase, tkBreaker, tkRegistry, tkSent, tkTracked, tkShared, tkStarts>>

TkInit ==
    /\ tkDriver \in TrackerDrivers /\ tkRow = [e \in PublishedEntries |-> "pending"] /\ tkTask = [p \in Trackers |-> NoTask]
    /\ tkPhase = [p \in Trackers |-> "down"] /\ tkBreaker = [p \in Trackers |-> NewBreaker]
    /\ \E p \in Trackers : tkRegistry = [id |-> p, active |-> FALSE]   \* of an earlier process
    /\ tkSent = [e \in PublishedEntries |-> 0] /\ tkTracked = [e \in PublishedEntries |-> 0]
    /\ tkDone = {} /\ tkShared = {} /\ tkStuck = {} /\ tkStarts = 0 /\ tkFaults = 0
TkNext ==
    /\ UNCHANGED tkDriver
    /\ \E p \in Trackers :
        \/ StartTracker(p) \/ StopTracker(p) \/ DeactivateProcessor(p) \/ TrackerEnds(p) \/ TrackerCrashes(p)
        \/ BreakerDue(p) \/ MarkAsProcessing(p) \/ TrackedPublish(p) \/ FinishTracking(p)
        \/ \E e \in PublishedEntries : ProcessEntryWithTracking(p, e)

----------------------------------------------------------------------------

PublishersTypeOK ==
    /\ \A w \in PublishCallers : pbCall[w].at \in {"idle", "publish", "reopen", "send", "record"}
    /\ \A w \in PublishCallers : pbCall[w].attempt \in 1 .. TargetTries /\ pbCall[w].target \in DOMAIN Targets
    /\ pbState \in [Guarded -> {"closed", "open", "half-open"}]
    /\ tkRow \in [PublishedEntries -> {"pending", "processing", "published", "failed"}]
    /\ tkPhase \in [Trackers -> {"down", "up", "stopping", "deactivated"}] /\ tkFaults \in 0 .. MaxTrackerFaults

\* What nil means: with "all" every target has the entry, otherwise one has it - or its breaker swallowed it.
AckedIsReceived ==
    \A e \in pbAcked :
        LET has(t) == pbReceived[e][t] > 0 \/ <<e, t>> \in pbSwallowed
        IN  IF pbStrategy = "all" THEN \A t \in TargetSet : has(t) ELSE \E t \in TargetSet : has(t)
\* However often calls fail half-way, a target receives an entry at most once per attempt of each call.
ReceivedBudget ==
    \A e \in PublishedEntries, t \in TargetSet :
        pbReceived[e][t] <= pbCalls[e] * (IF t \in Guarded THEN TargetTries ELSE 1)
\* One call at a time: a breaker is closed exactly below its limit, and each time it opened it swallowed
\* at most one entry.
BreakerKeepsCount ==
    ~pbOverlap => \A t \in Guarded : /\ pbState[t] = "closed" <=> pbCount[t] < TargetFailures
                                     /\ pbSwallows[t] <= pbTrips[t]
\* A row is published only when it was sent, and stays so unless two processed it at once.
TrackedIsSent ==
    \A e \in PublishedEntries :
        /\ tkRow[e] = "published" => tkSent[e] > 0
        /\ e \in tkDone /\ e \notin tkShared => tkRow[e] = "published"
\* A row in processing is somebody's, or was cut off.
TrackedIsOwned ==
    \A e \in PublishedEntries :
        tkRow[e] = "processing" => e \in tkStuck \/ \E p \in Trackers : tkTask[p].entry = e
\* Processes that share a name share its row: the one it names is active there until it is stopped itself,
\* whatever the others start and stop.
RegistryNamesLive == tkPhase[tkRegistry.id] \in {"up", "stopping"} => tkRegistry.active
\* Once it has tripped, a process's breaker is never closed again.
TripIsForGood == \A p \in Trackers : tkBreaker[p].open <=> tkBreaker[p].failures >= TrackerFailures

\* Publishers answer for what they sent, and tracked entries end where their last writer left them.
PublishersSafety ==
    /\ AckedIsReceived /\ ReceivedBudget /\ BreakerKeepsCount
    /\ TrackedIsSent /\ TrackedIsOwned /\ RegistryNamesLive /\ TripIsForGood
=============================================================================
