--------------------------- MODULE OutboxService ---------------------------
(***************************************************************************)
(* OutboxService of pkg/outbox/config.go: one process that runs the base     *)
(* outbox's goroutines and the worker pool against the same table.          *)
(***************************************************************************)
EXTENDS OutboxWorkers, TransactionalOutbox

VARIABLE service    \* how far OutboxService.Start or Stop has come

serviceVars == <<service, tableVars, poolVars, baseVars>>

ServiceTypeOK ==
    /\ TypeOK /\ BaseTypeOK
    /\ service \in {"down", "starting", "up", "stopping", "draining"}

ServiceInit == TableInit /\ PoolInit /\ BaseInit /\ service = "down"

\* Start: the outbox first, then the worker manager.
StartsOutbox ==
    /\ service = "down" /\ service' = "starting"
    /\ StartOutbox /\ UNCHANGED poolVars

StartsManager ==
    /\ service = "starting" /\ service' = "up"
    /\ Start /\ UNCHANGED baseVars

\* Stop: the worker manager first; the outbox when its Stop has returned.
StopsManager ==
    /\ service = "up" /\ service' = "stopping"
    /\ Stop /\ UNCHANGED baseVars

StopsOutbox ==
    /\ service = "stopping" /\ manager = "down" /\ service' = "draining"
    /\ StopOutbox /\ UNCHANGED poolVars

StopEnds ==
    /\ service = "draining" /\ service' = "down"
    /\ StopOutboxReturns /\ UNCHANGED poolVars

ServiceCrash ==
    /\ service # "down" /\ service' = "down"
    /\ faults < MaxFaults
    /\ faults' = faults + 1
    /\ WorkersLost /\ OutboxLost
    /\ UNCHANGED <<rows, committed, delivered>>

PoolRuns ==
    /\ \/ \E w \in Workers : WorkerStep(w) \/ GoesStale(w)
       \/ \E w, v \in Workers : CheckWorkerHealth(w, v)
       \/ MonitorExits
       \/ StopReturns
    /\ UNCHANGED <<service, baseVars>>

BaseRuns == (\E b \in BaseWorkers : BaseStep(b)) /\ UNCHANGED <<service, poolVars>>

ServiceNext ==
    \/ StartsOutbox
    \/ StartsManager
    \/ StopsManager
    \/ StopsOutbox
    \/ StopEnds
    \/ ServiceCrash
    \/ PoolRuns
    \/ BaseRuns
    \/ TableNext /\ UNCHANGED <<service, poolVars, baseVars>>

ServiceSpec == ServiceInit /\ [][ServiceNext]_serviceVars

----------------------------------------------------------------------------
\* As long as no process died and no database call failed, a row in processing is
\* in the hands of a goroutine of one of the two kinds that will still write it.
ServiceProcessingIsOwned ==
    faults = 0 =>
        \A e \in Events :
            rows[e].status = "processing" =>
                \/ \E w \in Workers : e \in todo[w] \cup okIDs[w] \cup failedIDs[w]
                \/ \E b \in BaseWorkers : e \in entry[b]
============================================================================
