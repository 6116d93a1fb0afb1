------------------------ MODULE WorkflowOrchestrator ------------------------
(***************************************************************************)
(* WorkflowOrchestrator of pkg/workflows: callers that create, execute,      *)
(* cancel, pause and resume workflows, the goroutines that run executions,   *)
(* the repository's status column and the execution manager.  What an        *)
(* executor does is WorkflowRun's matter: here it returns nil or an error.   *)
(***************************************************************************)
EXTENDS Integers, Sequences, FiniteSets

CONSTANTS
    Flows,          \* workflows
    WorkflowCallers,        \* concurrent requests to execute
    MaxConcurrent,  \* OrchestratorConfig.MaxConcurrentWorkflows
    MaxExecutions   \* bound on executions started

ASSUME OrchestratorAssumption ==
    /\ WorkflowCallers # {} /\ IsFiniteSet(WorkflowCallers)
    /\ MaxConcurrent \in Nat \ {0} /\ MaxExecutions \in Nat

VARIABLES
    woStatus,   \* the repository's status of each workflow
    woCaller,   \* each request: the workflow, where it stands, its execution
    woExec,     \* executions so far: workflow, phase and outcome
    woActive,   \* activeExecutions
    woLive,     \* executions whose context is not done
    woManager,  \* what the execution manager was told last of an execution
    woCancel    \* a CancelWorkflow under way: execution and next statement

woVars == <<woStatus, woCaller, woExec, woActive, woLive, woManager, woCancel>>

Executions == 1 .. Len(woExec)
None == "none"
IdleCaller == [at |-> "idle", flow |-> None, exec |-> 0]

WoTypeOK ==
    /\ woStatus \in [Flows -> {None, "pending", "completed", "failed", "cancelled"}]
    /\ woCaller \in [WorkflowCallers -> [at : {"idle", "checked", "tracked"}, flow : Flows \cup {None},
                                 exec : 0 .. MaxExecutions]]
    /\ \A e \in Executions : woExec[e] \in [flow : Flows, at : {"new", "running", "ended", "recorded", "gone"},
                                            outcome : {None, "completed", "failed"}]
    /\ woActive \subseteq Executions /\ woLive \subseteq Executions
    /\ woManager \in [1 .. MaxExecutions -> {None, "started", "stopped", "paused", "resumed"}]
    /\ woCancel \in [exec : 0 .. MaxExecutions, at : {"idle", "stopped"}]

WoInit ==
    /\ woStatus = [w \in Flows |-> None]
    /\ woCaller = [c \in WorkflowCallers |-> IdleCaller]
    /\ woExec = <<>> /\ woActive = {} /\ woLive = {}
    /\ woManager = [e \in 1 .. MaxExecutions |-> None]
    /\ woCancel = [exec |-> 0, at |-> "idle"]

\* The instance is saved as pending; monitoring and the created event may fail unnoticed.
CreateWorkflow(w) ==
    /\ woStatus[w] = None
    /\ woStatus' = [woStatus EXCEPT ![w] = "pending"]
    /\ UNCHANGED <<woCaller, woExec, woActive, woLive, woManager, woCancel>>

\* Mutant: the limit is not looked at.
CheckConcurrencyUnlimited(c, w) ==
    /\ woCaller[c].at = "idle"
    /\ woCaller' = [woCaller EXCEPT ![c] = [at |-> "checked", flow |-> w, exec |-> 0]]
    /\ UNCHANGED <<woStatus, woExec, woActive, woLive, woManager, woCancel>>

\* ExecuteWorkflow, first part: the limit is read under the read lock, which is then released.
CheckConcurrency(c, w) ==
    /\ woCaller[c].at = "idle"
    /\ Cardinality(woActive) < MaxConcurrent
    /\ woCaller' = [woCaller EXCEPT ![c] = [at |-> "checked", flow |-> w, exec |-> 0]]
    /\ UNCHANGED <<woStatus, woExec, woActive, woLive, woManager, woCancel>>

\* Second part: the workflow is loaded, the manager starts an execution, which is tracked.
Track(c) ==
    LET w == woCaller[c].flow
        e == Len(woExec) + 1
    IN  /\ woCaller[c].at = "checked"
        /\ \/ /\ woStatus[w] # None /\ e <= MaxExecutions
              /\ woExec' = Append(woExec, [flow |-> w, at |-> "new", outcome |-> None])
              /\ woActive' = woActive \cup {e}
              /\ woLive' = woLive \cup {e}
              /\ woManager' = [woManager EXCEPT ![e] = "started"]
              /\ woCaller' = [woCaller EXCEPT ![c].at = "tracked", ![c].exec = e]
           \/ \* GetWorkflow or StartExecution fails
              /\ woCaller' = [woCaller EXCEPT ![c] = IdleCaller]
              /\ UNCHANGED <<woExec, woActive, woLive, woManager>>
        /\ UNCHANGED <<woStatus, woCancel>>

\* Third part: without an executor the execution is dropped, else a goroutine runs it.
Launch(c) ==
    LET e == woCaller[c].exec
    IN  /\ woCaller[c].at = "tracked"
        /\ \/ /\ woExec' = [woExec EXCEPT ![e].at = "running"]
              /\ UNCHANGED woActive
           \/ /\ woExec' = [woExec EXCEPT ![e].at = "gone"]
              /\ woActive' = woActive \ {e}
        /\ woCaller' = [woCaller EXCEPT ![c] = IdleCaller]
        /\ UNCHANGED <<woStatus, woLive, woManager, woCancel>>

\* The executor has returned, retries included.
ExecutorReturns(e) ==
    /\ woExec[e].at = "running"
    /\ \E o \in {"completed", "failed"} :
          woExec' = [woExec EXCEPT ![e].at = "ended", ![e].outcome = o]
    /\ UNCHANGED <<woStatus, woCaller, woActive, woLive, woManager, woCancel>>

\* The last statement of runWorkflowExecution: it needs a context that is not done, its
\* error is dropped, and it does not look at what the status is.
RecordOutcome(e) ==
    /\ woExec[e].at = "ended"
    /\ \/ /\ e \in woLive
          /\ woStatus' = [woStatus EXCEPT ![woExec[e].flow] = woExec[e].outcome]
       \/ UNCHANGED woStatus
    /\ woExec' = [woExec EXCEPT ![e].at = "recorded"]
    /\ woLive' = woLive \ {e}
    /\ UNCHANGED <<woCaller, woActive, woManager, woCancel>>

\* Mutant: a cancelled execution keeps its slot.
CleanupKeepsSlot(e) ==
    /\ woExec[e].at = "recorded"
    /\ woExec' = [woExec EXCEPT ![e].at = "gone"]
    /\ UNCHANGED <<woStatus, woCaller, woActive, woLive, woManager, woCancel>>

\* cleanupExecution, deferred.
Cleanup(e) ==
    /\ woExec[e].at = "recorded"
    /\ woActive' = woActive \ {e}
    /\ woExec' = [woExec EXCEPT ![e].at = "gone"]
    /\ UNCHANGED <<woStatus, woCaller, woLive, woManager, woCancel>>

\* The request returns, and its context with it, or DefaultTimeout passes.
RequestEnds(e) ==
    /\ e \in woLive /\ woExec[e].at \in {"running", "ended"}
    /\ woLive' = woLive \ {e}
    /\ UNCHANGED <<woStatus, woCaller, woExec, woActive, woManager, woCancel>>

\* CancelWorkflow: some active execution of the workflow is stopped - in the manager only ...
StopExecution(e) ==
    /\ woCancel.at = "idle" /\ e \in woActive
    /\ woManager' = [woManager EXCEPT ![e] = "stopped"]
    /\ woCancel' = [exec |-> e, at |-> "stopped"]
    /\ UNCHANGED <<woStatus, woCaller, woExec, woActive, woLive>>

\* ... and then the workflow is cancelled, unless this statement fails.
RecordCancelled ==
    /\ woCancel.at = "stopped"
    /\ \/ woStatus' = [woStatus EXCEPT ![woExec[woCancel.exec].flow] = "cancelled"]
       \/ UNCHANGED woStatus
    /\ woCancel' = [exec |-> 0, at |-> "idle"]
    /\ UNCHANGED <<woCaller, woExec, woActive, woLive, woManager>>

PauseWorkflow(e) ==
    /\ e \in woActive
    /\ woManager' = [woManager EXCEPT ![e] = "paused"]
    /\ UNCHANGED <<woStatus, woCaller, woExec, woActive, woLive, woCancel>>

ResumeWorkflow(e) ==
    /\ e \in woActive
    /\ woManager' = [woManager EXCEPT ![e] = "resumed"]
    /\ UNCHANGED <<woStatus, woCaller, woExec, woActive, woLive, woCancel>>

\* A panic in an executor ends the process; the repository and the manager outlive it.
ProcessCrashes ==
    /\ \E e \in Executions : woExec[e].at = "running"
    /\ woExec' = [e \in Executions |-> [woExec[e] EXCEPT !.at = "gone"]]
    /\ woActive' = {} /\ woLive' = {}
    /\ woCaller' = [c \in WorkflowCallers |-> IdleCaller]
    /\ woCancel' = [exec |-> 0, at |-> "idle"]
    /\ UNCHANGED <<woStatus, woManager>>

Proceed(e) == ExecutorReturns(e) \/ RecordOutcome(e) \/ Cleanup(e)
WoNext ==
    \/ \E w \in Flows : CreateWorkflow(w) \/ \E c \in WorkflowCallers : CheckConcurrency(c, w)
    \/ \E c \in WorkflowCallers : Track(c) \/ Launch(c)
    \/ \E e \in Executions : \/ Proceed(e) \/ RequestEnds(e) \/ StopExecution(e)
                             \/ PauseWorkflow(e) \/ ResumeWorkflow(e)
    \/ RecordCancelled
    \/ ProcessCrashes
WoFairness ==
    /\ \A c \in WorkflowCallers : WF_woVars(Track(c) \/ Launch(c))
    /\ \A e \in 1 .. MaxExecutions : WF_woVars(e <= Len(woExec) /\ Proceed(e))
WoSpec == WoInit /\ [][WoNext]_woVars /\ WoFairness

----------------------------------------------------------------------------

\* The limit is read in one critical section and used in another: the number of active
\* executions exceeds it, but by no more than the requests that are between the two.
LimitOvershoot ==
    Cardinality(woActive) + Cardinality({c \in WorkflowCallers : woCaller[c].at = "checked"})
        <= MaxConcurrent + Cardinality(WorkflowCallers) - 1

\* A terminal status was earned: some execution of the workflow ended that way, and
\* cancelled was preceded by the manager's stop.
StatusIsEarned ==
    \A w \in Flows :
        /\ woStatus[w] \in {"completed", "failed"} =>
              \E e \in Executions : woExec[e].flow = w /\ woExec[e].outcome = woStatus[w]
        /\ woStatus[w] = "cancelled" =>
              \E e \in Executions : woExec[e].flow = w /\ woManager[e] # "started"

\* The two, with the types: the orchestrator's limit and its statuses.
OrchestratorSafety == WoTypeOK /\ LimitOvershoot /\ StatusIsEarned

\* A slot is given back: whatever fails on the way, no execution stays in activeExecutions.
SlotsReturn == \A e \in 1 .. MaxExecutions : e \in woActive ~> e \notin woActive

\* CancelWorkflow "cancels a running workflow": what it has cancelled stays cancelled.
CancelledStays ==
    [][\A w \in Flows : woStatus[w] = "cancelled" => woStatus'[w] = "cancelled"]_woVars
=============================================================================
