----------------------------- MODULE Monitoring -----------------------------
(***************************************************************************)
(* What watches the platform: the audit log's buffer (pkg/audit/audit.go),   *)
(* the buffer in front of the SIEM endpoint (pkg/audit/siem.go), one security *)
(* incident and those who work on it (pkg/security/incident_response.go), and *)
(* the outbox monitor (pkg/outbox/monitoring.go).                            *)
(***************************************************************************)
EXTENDS Integers, Sequences, SequencesExt, FiniteSets

CONSTANTS
    AuditTimes,      \* AuditTimes[e]: when event e is logged, in nanoseconds
    Micro,           \* nanoseconds that the database keeps apart
    AuditCallers,    \* goroutines that log
    AuditBatch,      \* AuditLogger.bufferSize
    SiemCallers,     \* goroutines that buffer an event for the endpoint
    SiemSenders,     \* bound on the goroutines that a full buffer starts
    SiemBatch,       \* SIEMConfig.BatchSize
    SiemKinds,       \* "single": a request for every event; "bulk": one for the batch; "elasticsearch"
    Playbook,        \* the automated actions whose conditions hold, in order
    KnownActions,    \* those that executeAction knows
    Analysts,        \* concurrent calls of UpdateIncident
    MaxIncidentUpdates,
    TrendWindow, MaxSamples,
    MaxQueued,       \* bound on the rows of a status
    MaxReported,     \* bound on the violations counted
    MaxMonitorFaults \* bound on failed statements and requests, in each part

ASSUME MonitoringAssumption ==
    /\ Micro \in Nat \ {0} /\ AuditBatch \in Nat \ {0} /\ SiemBatch \in Nat \ {0}
    /\ TrendWindow \in Nat \ {0} /\ MaxSamples \in Nat /\ MaxQueued \in Nat /\ MaxReported \in Nat
    /\ MaxIncidentUpdates \in Nat /\ MaxMonitorFaults \in Nat
    /\ AuditTimes \in [DOMAIN AuditTimes -> Nat]
    /\ SiemCallers \cap SiemSenders = {} /\ {"loop", "closer"} \cap (SiemCallers \cup SiemSenders) = {}

VARIABLES
    alBuffer, alTask, alRows,  \* events in memory; what each task does, with which copy; audit_events
    alPhase,                   \* "up"; "stopping": Close was called; "closed": the flusher has ended
    alLogged, alEarly, alLost, \* history: events logged; before Close; of a batch that was not stored
    siBuffer, siTask, siKind, siPhase,
    siSent,                    \* history: how often the endpoint has received an event
    siHeld, siDropped,         \* history: events buffered; of a batch whose sending failed for good
    siStale,                   \* who writes the buffer next from an access that another's write followed
    siStake,                   \* history: events held when such a write was made
    inRow, inTask, inUpdates,
    inMade, inOverlap,         \* history: actions reported as taken; a row was written from an older one
    omQueue, omGauge, omFresh, \* rows of each status; the gauges; statuses unchanged since collected
    omSlow, omReported,        \* rows published after the 30 seconds; SLAViolations
    omNow, omSeries, omTaken,  \* time; the trend's data; history: when a sample was taken
    moFaults

alVars == <<alBuffer, alTask, alRows, alPhase, alLogged, alEarly, alLost>>
siVars == <<siBuffer, siTask, siKind, siPhase, siSent, siHeld, siDropped, siStale, siStake>>
inVars == <<inRow, inTask, inUpdates, inMade, inOverlap>>
omVars == <<omQueue, omGauge, omFresh, omSlow, omReported>>
trVars == <<omNow, omSeries, omTaken>>

AuditEvents == DOMAIN AuditTimes
MonitorFault == moFaults < MaxMonitorFaults /\ moFaults' = moFaults + 1

----------------------------------------------------------------------------
(***************************************************************************)
(* The audit log.  The signature is over the time in nanoseconds.            *)
(***************************************************************************)
Flusher == "flusher"
AuditTasks == AuditCallers \cup {Flusher}
IdleTask == [at |-> "idle", events |-> <<>>, again |-> FALSE]
CalculateSignature(time) == time
AuditRow(e) == [event |-> e, timestamp |-> AuditTimes[e] - (AuditTimes[e] % Micro),
                signature |-> CalculateSignature(AuditTimes[e])]
VerifyEventIntegrity(row) == row.signature = CalculateSignature(row.timestamp)

\* A full buffer is flushed by the caller; LogSecurityIncident flushes once more, unless that failed.
LogEvent(c, e) ==
    /\ alTask[c].at = "idle" /\ e \notin alLogged
    /\ alBuffer' = Append(alBuffer, e) /\ alLogged' = alLogged \cup {e}
    /\ alEarly' = IF alPhase = "up" THEN alEarly \cup {e} ELSE alEarly
    /\ \E incident \in BOOLEAN :
          LET full == Len(alBuffer') >= AuditBatch
          IN  alTask' = IF full \/ incident
                        THEN [alTask EXCEPT ![c] = [alTask[c] EXCEPT !.at = "flush", !.again = full /\ incident]] ELSE alTask
    /\ UNCHANGED <<alRows, alPhase, alLost, moFaults>>
\* The ticker, or, once Close has been called, the last flush.
BackgroundFlush ==
    /\ alTask[Flusher].at = "idle" /\ alPhase # "closed"
    /\ \/ alPhase' = alPhase
       \/ alPhase = "stopping" /\ alPhase' = "closed"
    /\ alTask' = [alTask EXCEPT ![Flusher].at = "flush"]
    /\ UNCHANGED <<alBuffer, alRows, alLogged, alEarly, alLost, moFaults>>
AuditClose ==
    /\ alPhase = "up" /\ alPhase' = "stopping"
    /\ UNCHANGED <<alBuffer, alTask, alRows, alLogged, alEarly, alLost, moFaults>>

\* flushBuffer copies and empties the buffer under its lock ...
TakeBuffer(t) ==
    /\ alTask[t].at = "flush" /\ alBuffer' = <<>>
    /\ alTask' = [alTask EXCEPT ![t] = IF alBuffer = <<>> THEN IdleTask
                                       ELSE [alTask[t] EXCEPT !.at = "store", !.events = alBuffer]]
    /\ UNCHANGED <<alRows, alPhase, alLogged, alEarly, alLost, moFaults>>
\* ... and stores the copy, all of it or nothing, without it.
StoreBatch(t) ==
    LET task == alTask[t]
    IN  /\ task.at = "store"
        /\ \/ /\ alRows' = alRows \o [i \in DOMAIN task.events |-> AuditRow(task.events[i])]
              /\ alTask' = [alTask EXCEPT ![t] = IF task.again THEN [IdleTask EXCEPT !.at = "flush"] ELSE IdleTask]
              /\ UNCHANGED <<alLost, moFaults>>
           \/ /\ MonitorFault /\ alLost' = alLost \cup ToSet(task.events)
              /\ alTask' = [alTask EXCEPT ![t] = IdleTask] /\ UNCHANGED alRows
        /\ UNCHANGED <<alBuffer, alPhase, alLogged, alEarly>>

AlInit ==
    /\ alBuffer = <<>> /\ alTask = [t \in AuditTasks |-> IdleTask] /\ alRows = <<>>
    /\ alPhase = "up" /\ alLogged = {} /\ alEarly = {} /\ alLost = {}
AlNext ==
    \/ \E c \in AuditCallers, e \in AuditEvents : LogEvent(c, e)
    \/ \E t \in AuditTasks : TakeBuffer(t) \/ StoreBatch(t)
    \/ BackgroundFlush \/ AuditClose

----------------------------------------------------------------------------
(***************************************************************************)
(* The SIEM integrator's buffer.  It has no lock: a write may follow another  *)
(* goroutine's that its own look at the slice does not know of.  The length   *)
(* it sets is then of the slice it saw; the events there are those it saw,    *)
(* copied when the array grew, or in place what the array holds by now.  And  *)
(* whoever sends what came of it may meet a nil, which ends the process.      *)
(***************************************************************************)
Loop == "loop"
Closer == "closer"
SiemTasks == SiemCallers \cup SiemSenders \cup {Loop, Closer}
IdleSiem == [at |-> "idle", seen |-> <<>>, events |-> <<>>]
SiemGoes(t, task) == siTask' = [siTask EXCEPT ![t] = task]
Accesses == {"append", "clear", "put back"}
Overtaken(t) == siStale' = (siStale \cup {u \in SiemTasks : siTask[u].at \in Accesses}) \ {t}
InPlace(seen) == [i \in DOMAIN seen |-> IF i <= Len(siBuffer) THEN siBuffer[i] ELSE seen[i]]
Appends(t) ==
    /\ Overtaken(t)
    /\ \E front \in IF t \in siStale THEN {siTask[t].seen, InPlace(siTask[t].seen)} ELSE {siBuffer} :
          siBuffer' = front \o siTask[t].events
    /\ siStake' = IF t \in siStale THEN siHeld ELSE siStake

ReadsBuffer(c, e) ==
    /\ siTask[c] = IdleSiem /\ siPhase # "down" /\ e \notin siHeld /\ siHeld' = siHeld \cup {e}
    /\ SiemGoes(c, [at |-> "append", seen |-> siBuffer, events |-> <<e>>])
    /\ UNCHANGED <<siBuffer, siKind, siPhase, siSent, siDropped, siStale, siStake, moFaults>>
\* A buffer that has become full starts a goroutine that sends it, if it still holds anything then.
BufferEvent(c) ==
    /\ siTask[c].at = "append" /\ Appends(c)
    /\ IF Len(siBuffer') < SiemBatch THEN SiemGoes(c, IdleSiem)
       ELSE \E s \in SiemSenders :
                siTask[s] = IdleSiem
                /\ siTask' = [siTask EXCEPT ![c] = IdleSiem, ![s] = [IdleSiem EXCEPT !.at = "copy"]]
    /\ UNCHANGED <<siKind, siPhase, siSent, siHeld, siDropped, moFaults>>
CopiesBuffer(t) ==
    /\ \/ t \in SiemSenders /\ siTask[t].at = "copy"
       \/ t = Loop /\ siPhase \notin {"ended", "down"} /\ siTask[t] = IdleSiem /\ siBuffer # <<>>
    /\ SiemGoes(t, [at |-> "clear", seen |-> siBuffer, events |-> siBuffer])
    /\ UNCHANGED <<siBuffer, siKind, siPhase, siSent, siHeld, siDropped, siStale, siStake, moFaults>>
ClearsBuffer(t) ==
    /\ siTask[t].at = "clear" /\ siBuffer' = <<>> /\ Overtaken(t)
    /\ siStake' = IF t \in siStale THEN siHeld ELSE siStake
    /\ SiemGoes(t, IF siTask[t].events = <<>> THEN IdleSiem ELSE [siTask[t] EXCEPT !.at = "send"])
    /\ UNCHANGED <<siKind, siPhase, siSent, siHeld, siDropped, moFaults>>
\* Which of n events the endpoint takes when the request fails, or its answer is lost.
Received(n) == CASE siKind = "single" -> {1 .. k : k \in 0 .. n}
              [] siKind = "bulk" -> {{}, 1 .. n}
              [] OTHER -> SUBSET (1 .. n)
\* The loop puts the batch of a failed request back, the goroutines and Close give it up.  A bulk
\* answer of Elasticsearch has status 200 whatever it says of the single events: those it refused
\* are given up by everybody.
SendSiemBatch(t) ==
    LET batch == siTask[t].events
        places(e) == {i \in DOMAIN batch : batch[i] = e}
        receives(taken) == siSent' = [e \in AuditEvents |-> siSent[e] + Cardinality(places(e) \cap taken)]
        gone(taken) == siDropped \cup {batch[i] : i \in DOMAIN batch \ taken}
    IN  /\ siTask[t].at = "send"
        /\ \/ receives(DOMAIN batch) /\ SiemGoes(t, IdleSiem) /\ UNCHANGED <<siDropped, moFaults>>
           \/ /\ siKind = "elasticsearch" /\ MonitorFault /\ SiemGoes(t, IdleSiem)
              /\ \E taken \in Received(Len(batch)) : receives(taken) /\ siDropped' = gone(taken)
           \/ /\ MonitorFault /\ \E taken \in Received(Len(batch)) : receives(taken)
              /\ siDropped' = IF t = Loop THEN siDropped ELSE gone({})
              /\ SiemGoes(t, IF t = Loop THEN [siTask[t] EXCEPT !.at = "read again"] ELSE IdleSiem)
        /\ UNCHANGED <<siBuffer, siKind, siPhase, siHeld, siStale, siStake>>
\* The nil that an overtaken write may leave in a batch; Close reads while others write, too.
NilIsSent(t) ==
    /\ siTask[t].at = "send" /\ (siStake # {} \/ t = Closer)
    /\ siPhase' = "down" /\ siTask' = [u \in SiemTasks |-> IdleSiem] /\ siBuffer' = <<>> /\ siStale' = {}
    /\ UNCHANGED <<siKind, siSent, siHeld, siDropped, siStake, moFaults>>
PutsBack ==
    /\ UNCHANGED <<siKind, siPhase, siSent, siHeld, siDropped, moFaults>>
    /\ \/ /\ siTask[Loop].at = "read again" /\ UNCHANGED <<siBuffer, siStale, siStake>>
          /\ SiemGoes(Loop, [siTask[Loop] EXCEPT !.at = "put back", !.seen = siBuffer])
       \/ siTask[Loop].at = "put back" /\ Appends(Loop) /\ SiemGoes(Loop, IdleSiem)
\* Close sends the buffer as it is, does not empty it, and waits for nobody.
SiemClose ==
    /\ siPhase = "up" /\ siPhase' = "stopping"
    /\ SiemGoes(Closer, IF siBuffer = <<>> THEN IdleSiem ELSE [at |-> "send", seen |-> <<>>, events |-> siBuffer])
    /\ UNCHANGED <<siBuffer, siKind, siSent, siHeld, siDropped, siStale, siStake, moFaults>>
LoopEnds ==
    /\ siPhase = "stopping" /\ siTask[Loop] = IdleSiem /\ siPhase' = "ended"
    /\ UNCHANGED <<siBuffer, siTask, siKind, siSent, siHeld, siDropped, siStale, siStake, moFaults>>

SiInit ==
    /\ siBuffer = <<>> /\ siTask = [t \in SiemTasks |-> IdleSiem] /\ siKind \in SiemKinds /\ siPhase = "up"
    /\ siSent = [e \in AuditEvents |-> 0] /\ siHeld = {} /\ siDropped = {} /\ siStale = {} /\ siStake = {}
SiNext ==
    \/ \E c \in SiemCallers : BufferEvent(c) \/ \E e \in AuditEvents : ReadsBuffer(c, e)
    \/ \E t \in SiemTasks : CopiesBuffer(t) \/ ClearsBuffer(t) \/ SendSiemBatch(t) \/ NilIsSent(t)
    \/ PutsBack \/ SiemClose \/ LoopEnds

----------------------------------------------------------------------------
(***************************************************************************)
(* One incident.  Whoever works on it has a copy, and writes the whole copy. *)
(***************************************************************************)
Creator == "creator"
NoIncident == [status |-> "none", triaged |-> FALSE, resolved |-> FALSE, actions |-> {}]
NewIncident == [NoIncident EXCEPT !.status = "new"]
IncidentStatuses == {"new", "triaged", "investigating", "resolved"}
IdleWork == [at |-> "idle", copy |-> NoIncident, base |-> NoIncident, made |-> {}]

CreateIncident ==
    /\ inTask[Creator] = IdleWork /\ inRow = NoIncident
    /\ \/ /\ inRow' = NewIncident /\ UNCHANGED moFaults
          /\ inTask' = [inTask EXCEPT ![Creator] = [at |-> "respond", copy |-> NewIncident, base |-> NewIncident, made |-> {}]]
       \/ MonitorFault /\ UNCHANGED <<inRow, inTask>>
    /\ UNCHANGED <<inUpdates, inMade, inOverlap>>
\* An action that executeAction does not know is skipped; the others are stubs that succeed.
ExecuteAutomatedResponse ==
    LET known == {<<Playbook[i], 0>> : i \in {j \in DOMAIN Playbook : Playbook[j] \in KnownActions}}
        work == inTask[Creator]
        answered == [work.copy EXCEPT !.actions = work.copy.actions \cup known]
    IN  /\ work.at = "respond"
        /\ inTask' = [inTask EXCEPT ![Creator] = [work EXCEPT !.at = "write", !.copy = answered, !.made = known]]
        /\ UNCHANGED <<inRow, inUpdates, inMade, inOverlap, moFaults>>
\* UpdateIncident reads the row and applies the change to its copy.
ReadsIncident(a) ==
    /\ inTask[a].at = "idle" /\ inRow # NoIncident /\ inUpdates < MaxIncidentUpdates /\ inUpdates' = inUpdates + 1
    /\ \E status \in IncidentStatuses, acts \in {{}, {<<a, inUpdates'>>}} :
          inTask' = [inTask EXCEPT ![a] =
              [at |-> "write", base |-> inRow, made |-> acts,
               copy |-> [status |-> status, triaged |-> inRow.triaged \/ status = "triaged",
                         resolved |-> inRow.resolved \/ status = "resolved", actions |-> inRow.actions \cup acts]]]
    /\ UNCHANGED <<inRow, inMade, inOverlap, moFaults>>
UpdateIncident(x) ==
    LET work == inTask[x]
    IN  /\ work.at = "write" /\ inTask' = [inTask EXCEPT ![x] = IdleWork]
        /\ \/ /\ inRow' = work.copy /\ inMade' = inMade \cup work.made
              /\ inOverlap' = (inOverlap \/ inRow # work.base) /\ UNCHANGED moFaults
           \/ MonitorFault /\ UNCHANGED <<inRow, inMade, inOverlap>>
        /\ UNCHANGED inUpdates

InInit ==
    /\ inRow = NoIncident /\ inTask = [x \in Analysts \cup {Creator} |-> IdleWork]
    /\ inUpdates = 0 /\ inMade = {} /\ inOverlap = FALSE
InNext ==
    \/ CreateIncident \/ ExecuteAutomatedResponse
    \/ \E a \in Analysts : ReadsIncident(a)
    \/ \E x \in Analysts \cup {Creator} : UpdateIncident(x)

----------------------------------------------------------------------------
(***************************************************************************)
(* The outbox monitor, every loop of it, beside the rows it counts.          *)
(***************************************************************************)
QueueStatuses == {"pending", "processing", "published", "failed"}
RowMoves(from, to) ==
    /\ omQueue[from] > 0 /\ omQueue[to] < MaxQueued
    /\ omQueue' = [omQueue EXCEPT ![from] = @ - 1, ![to] = @ + 1]
    /\ omFresh' = omFresh \ {from, to}
\* Rows arrive, are claimed, and are published or fail, some of them too late; old ones are deleted.
QueueMoves ==
    /\ UNCHANGED <<omGauge, omReported, moFaults>>
    /\ \/ /\ omQueue["pending"] < MaxQueued /\ omQueue' = [omQueue EXCEPT !["pending"] = @ + 1]
          /\ omFresh' = omFresh \ {"pending"} /\ UNCHANGED omSlow
       \/ RowMoves("pending", "processing") /\ UNCHANGED omSlow
       \/ RowMoves("processing", "published") /\ omSlow' \in {omSlow, omSlow + 1}
       \/ RowMoves("processing", "failed") /\ UNCHANGED omSlow
       \/ /\ omQueue["published"] > 0 /\ omSlow' \in {omSlow - 1, omSlow} \cap (0 .. omQueue["published"] - 1)
          /\ omQueue' = [omQueue EXCEPT !["published"] = @ - 1] /\ omFresh' = omFresh \ {"published"}
\* The query groups by status: what has no row is not in its result, and its gauge is left alone.
CollectQueueMetrics ==
    [s \in QueueStatuses |-> IF omQueue[s] > 0 THEN omQueue[s] ELSE omGauge[s]]
\* Rows that are published or failed: with less than 95 % published in time, all the others are added
\* to the counter, those added before again.
CollectSLAMetrics ==
    LET total == omQueue["published"] + omQueue["failed"]
        late == omSlow + omQueue["failed"]
    IN  IF total > 0 /\ 100 * (total - late) < 95 * total THEN omReported + late ELSE omReported
CollectMetrics ==
    /\ \/ omGauge' = CollectQueueMetrics /\ omFresh' = QueueStatuses /\ UNCHANGED moFaults
       \/ MonitorFault /\ UNCHANGED <<omGauge, omFresh>>
    /\ omReported' \in {omReported, CollectSLAMetrics} /\ omReported' <= MaxReported
    /\ UNCHANGED <<omQueue, omSlow>>
\* updatePerformanceData, some time after the last sample.
UpdatePerformanceData ==
    LET cutoff == omNow' - TrendWindow
        added == Append(omSeries, omNow')
    IN  /\ Len(omTaken) < MaxSamples /\ omNow' \in omNow + 1 .. omNow + TrendWindow + 1
        /\ omTaken' = Append(omTaken, omNow')
        /\ \E first \in 1 .. Len(added) :
              /\ added[first] > cutoff /\ \A i \in 1 .. first - 1 : added[i] <= cutoff
              /\ omSeries' = SubSeq(added, first, Len(added))
        /\ UNCHANGED moFaults

OmInit ==
    /\ omQueue = [s \in QueueStatuses |-> 0] /\ omGauge = [s \in QueueStatuses |-> 0]
    /\ omFresh = QueueStatuses /\ omSlow = 0 /\ omReported = 0
    /\ omNow = 0 /\ omSeries = <<>> /\ omTaken = <<>>
OmNext == QueueMoves \/ CollectMetrics
TrNext == UpdatePerformanceData

MoInit == moFaults = 0

----------------------------------------------------------------------------

MonitoringTypeOK ==
    /\ \A t \in AuditTasks : alTask[t].at \in {"idle", "flush", "store"}
    /\ Len(alBuffer) < AuditBatch + Cardinality(AuditCallers) /\ alLost \subseteq alLogged
    /\ \A t \in SiemTasks : siTask[t].at \in {"idle", "append", "copy", "clear", "send", "read again", "put back"}
    /\ inRow.status \in IncidentStatuses \cup {"none"}
    /\ omGauge \in [QueueStatuses -> 0 .. MaxQueued] /\ omSlow \in 0 .. omQueue["published"]
    /\ moFaults \in 0 .. MaxMonitorFaults

Times(e, seq) == Cardinality({i \in DOMAIN seq : seq[i] = e})
\* An audit event is in one place: in memory, with the one task that stores it, in the table, or lost
\* with a batch that the database refused.  Close leaves nothing in memory that was logged before it.
AuditIsKept ==
    /\ \A e \in alLogged :
          LET held == Cardinality({t \in AuditTasks : Times(e, alTask[t].events) > 0})
              stored == Cardinality({i \in DOMAIN alRows : alRows[i].event = e})
          IN  Times(e, alBuffer) + held + stored + Cardinality(alLost \cap {e}) = 1
    /\ alPhase = "closed" /\ alTask[Flusher].at # "flush" => alEarly \cap ToSet(alBuffer) = {}
\* A stored event passes the check of its signature only if the database kept its time as it was.
SignatureSurvives ==
    \A i \in DOMAIN alRows : VerifyEventIntegrity(alRows[i]) = (AuditTimes[alRows[i].event] % Micro = 0)
\* Two accesses that overlap put at stake what was held until then, and nothing that comes later: any
\* other event for the endpoint was sent, is still held, or was in a batch that was given up, unless
\* the process ended; and it is sent again only after a failure or by Close.
SiemIsKept ==
    siPhase # "down" =>
        \A e \in siHeld \ siStake :
            \/ siSent[e] > 0 \/ e \in siDropped \/ e \in ToSet(siBuffer)
            \/ \E t \in SiemTasks : e \in ToSet(siTask[t].events)
SiemSendsOnce ==
    moFaults = 0 /\ siPhase = "up" => \A e \in AuditEvents \ siStake : siSent[e] <= 1
\* However copies overwrite each other, a status comes with its time; and an action that was reported
\* is lost only to a copy that was older than the row.
IncidentIsKept ==
    /\ inRow.status = "triaged" => inRow.triaged
    /\ inRow.status = "resolved" => inRow.resolved
    /\ ~inOverlap => inMade \subseteq inRow.actions
\* After a collection, a gauge is wrong only for a status without rows.
GaugesLag == \A s \in omFresh : omGauge[s] # omQueue[s] => omQueue[s] = 0
\* The trend is computed over the samples of the window, all of them, each once, in order.
TrendIsOfWindow ==
    \E first \in 1 .. Len(omTaken) + 1 :
        /\ omSeries = SubSeq(omTaken, first, Len(omTaken))
        /\ \A i \in DOMAIN omTaken : omTaken[i] > omNow - TrendWindow <=> i >= first

\* The watchers lose and repeat nothing but in the ways the parts name.
MonitoringSafety ==
    /\ AuditIsKept /\ SignatureSurvives /\ SiemIsKept /\ SiemSendsOnce
    /\ IncidentIsKept /\ GaugesLag /\ TrendIsOfWindow
=============================================================================
