----------------------------- MODULE WorkflowRun -----------------------------
(***************************************************************************)
(* One execution of a workflow: runWorkflowExecution of the orchestrator,    *)
(* the workflow's Execute and its executeStep.  A step is tried MaxStepRetries   *)
(* times again, and when it fails for good Execute returns, and the          *)
(* orchestrator runs all of Execute again - RetryAttempts times, if the      *)
(* error looks retryable.  Nothing is undone in between.                     *)
(***************************************************************************)
EXTENDS Integers, Sequences, FiniteSets

CONSTANTS
    Items,          \* of a list that is not empty
    Configurations, \* per workflow, the lists and flags a request may give
    MaxStepRetries,     \* of a step: 3 in the code
    RetryAttempts   \* of an execution: OrchestratorConfig.RetryAttempts

ASSUME RetriesAssumption == MaxStepRetries \in Nat /\ RetryAttempts \in Nat
ASSUME ItemsAssumption == Items \in Nat \ {0}

\* The workflows as the request configures them.
Workflow(given) == INSTANCE WorkflowSteps WITH Given <- given
WorkflowKinds == Workflow({})!WorkflowKinds
Effects == Workflow({})!Effects
Programs == [k \in WorkflowKinds |-> [g \in Configurations[k] |-> Workflow(g)!Steps[k]]]
AllOutcomes == [k \in WorkflowKinds |-> [g \in Configurations[k] |-> Workflow(g)!Outcomes(k)]]

VARIABLES
    wrKind,     \* the workflow's type
    wrGiven,    \* the lists and flags of its configuration
    wrMaps,     \* the request came with Context and Metadata; if not, both maps are nil
    wrWatched,  \* history: one effect of this workflow, and how often it was asked for
    wrCount,
    wrPhase,    \* where the execution stands
    wrStep,     \* the step, the call of it that comes next, and its attempt
    wrCall,
    wrAttempt,
    wrRun,      \* attempt of the whole execution
    wrMemory,   \* keys in Metadata and Context
    wrRoutines, \* goroutines started on the workflow's context
    wrProgress, \* instance.Progress.CompletedSteps
    wrStatus,   \* instance.Status
    wrLive      \* timeoutCtx is not done

wrPlace == <<wrPhase, wrStep, wrCall, wrAttempt, wrRun>>
wrVars == <<wrKind, wrGiven, wrMaps, wrWatched, wrCount, wrPlace, wrMemory, wrRoutines, wrProgress,
            wrStatus, wrLive>>

Phases == {"starting", "stepping", "failed step", "closing", "returned", "completed", "failed", "crashed"}
Script == Programs[wrKind][wrGiven]
Outcomes == AllOutcomes[wrKind][wrGiven]

WrTypeOK ==
    /\ wrKind \in WorkflowKinds /\ wrGiven \in Configurations[wrKind]
    /\ wrMaps \in BOOLEAN /\ wrLive \in BOOLEAN
    /\ wrWatched \in Effects[wrKind] /\ wrCount \in Nat
    /\ wrPhase \in Phases
    /\ wrStep \in 1 .. Len(Script) + 1 /\ wrCall \in Nat
    /\ wrAttempt \in 0 .. MaxStepRetries /\ wrRun \in 0 .. RetryAttempts
    /\ wrMemory \subseteq Outcomes
    /\ wrProgress \in 0 .. Len(Script)
    /\ wrStatus \in {"pending", "running", "failed", "completed"}

WrInit ==
    /\ wrKind \in WorkflowKinds /\ wrGiven \in Configurations[wrKind]
    /\ wrMaps \in BOOLEAN
    /\ wrWatched \in Effects[wrKind] /\ wrCount = 0
    /\ wrPhase = "starting" /\ wrStep = 1 /\ wrCall = 1 /\ wrAttempt = 0 /\ wrRun = 0
    /\ wrMemory = {} /\ wrRoutines = {}
    /\ wrProgress = 0 /\ wrStatus = "pending"
    /\ wrLive = TRUE

Running == wrPhase \notin {"completed", "failed", "crashed"}

\* Execute: the started event must be saved.
WrStart ==
    /\ wrPhase = "starting"
    /\ \/ /\ wrPhase' = "stepping" /\ wrStatus' = "running"
          /\ wrStep' = 1 /\ wrCall' = 1 /\ wrAttempt' = 0
       \/ /\ wrPhase' = "returned"
          /\ UNCHANGED <<wrStep, wrCall, wrAttempt, wrStatus>>
    /\ UNCHANGED <<wrKind, wrGiven, wrMaps, wrWatched, wrCount, wrRun, wrMemory, wrRoutines, wrProgress, wrLive>>

Here == Script[wrStep][wrCall]
Stays == UNCHANGED <<wrKind, wrGiven, wrMaps, wrWatched, wrStep, wrAttempt, wrRun, wrProgress, wrStatus, wrLive>>
Goes(n) == /\ wrCall' = wrCall + n /\ UNCHANGED <<wrPhase, wrRoutines>>
Fails == /\ wrPhase' = "failed step" /\ UNCHANGED <<wrCall, wrRoutines>>
\* Nobody recovers in the goroutine: the process ends.
Panics == /\ wrPhase' = "crashed" /\ wrRoutines' = {} /\ UNCHANGED wrCall
InStep == wrPhase = "stepping" /\ wrCall <= Len(Script[wrStep])
Counted == wrCount' = wrCount + (IF Here.op = wrWatched THEN 1 ELSE 0)

\* A call of a service: it may answer or fail, and may have taken effect in either case.
CallService ==
    /\ InStep /\ Here.on \in {"fail", "log", "skip", "panic"}
    /\ Counted
    /\ \/ Here.op # "invalid" /\ Goes(1)
       \/ Here.on \in {"log", "skip"} /\ Goes(1 + Here.over)
       \/ Here.on = "fail" /\ Fails
       \/ Here.on = "panic" /\ Panics
    /\ UNCHANGED wrMemory /\ Stays

\* Setting a key of a nil map panics, and so does an assertion on a missing key, of the memory
\* or of the request.
UseMemory ==
    /\ InStep /\ Here.on \in {"put", "need", "want", "crash"}
    /\ CASE Here.on = "put"  -> IF wrMaps THEN Goes(1) ELSE Panics
         [] Here.on = "need" -> IF Here.op \in wrMemory THEN Goes(1) ELSE Panics
         [] Here.on = "want" -> IF Here.op \in wrMemory THEN Goes(1) ELSE Fails
         [] Here.on = "crash" -> Panics
    /\ wrMemory' = IF Here.on = "put" /\ wrMaps THEN wrMemory \cup {Here.op} ELSE wrMemory
    /\ UNCHANGED wrCount /\ Stays

StartRoutine ==
    /\ InStep /\ Here.on = "go"
    /\ wrRoutines' = wrRoutines \cup {Here.op}
    /\ wrCall' = wrCall + 1
    /\ Counted
    /\ UNCHANGED <<wrPhase, wrMemory>> /\ Stays

StepDone ==
    /\ wrPhase = "stepping" /\ wrCall = Len(Script[wrStep]) + 1
    /\ wrProgress' = wrStep
    /\ wrCall' = 1 /\ wrAttempt' = 0 /\ wrStep' = wrStep + 1
    /\ wrPhase' = IF wrStep = Len(Script) THEN "closing" ELSE "stepping"
    /\ wrStatus' = IF wrStep = Len(Script) THEN "completed" ELSE wrStatus
    /\ UNCHANGED <<wrKind, wrGiven, wrMaps, wrWatched, wrCount, wrRun, wrMemory, wrRoutines, wrLive>>

\* Mutant: one attempt too many.
RetryStepOnceMore ==
    /\ wrPhase = "failed step"
    /\ IF wrAttempt <= MaxStepRetries
       THEN /\ wrPhase' = "stepping" /\ wrAttempt' = wrAttempt + 1 /\ wrCall' = 1
            /\ UNCHANGED wrStatus
       ELSE /\ wrPhase' = "returned" /\ wrStatus' = "failed"
            /\ UNCHANGED <<wrAttempt, wrCall>>
    /\ UNCHANGED <<wrKind, wrGiven, wrMaps, wrWatched, wrCount, wrStep, wrRun, wrMemory, wrRoutines,
                   wrProgress, wrLive>>

\* executeStep starts the step over, or gives it up.
RetryStep ==
    /\ wrPhase = "failed step"
    /\ IF wrAttempt < MaxStepRetries
       THEN /\ wrPhase' = "stepping" /\ wrAttempt' = wrAttempt + 1 /\ wrCall' = 1
            /\ UNCHANGED wrStatus
       ELSE /\ wrPhase' = "returned" /\ wrStatus' = "failed"
            /\ UNCHANGED <<wrAttempt, wrCall>>
    /\ UNCHANGED <<wrKind, wrGiven, wrMaps, wrWatched, wrCount, wrStep, wrRun, wrMemory, wrRoutines,
                   wrProgress, wrLive>>

\* The error of the completed event is what Execute returns.
Close ==
    /\ wrPhase = "closing"
    /\ wrPhase' \in {"completed", "returned"}
    /\ wrLive' = IF wrPhase' = "completed" THEN FALSE ELSE wrLive
    /\ UNCHANGED <<wrKind, wrGiven, wrMaps, wrWatched, wrCount, wrStep, wrCall, wrAttempt, wrRun, wrMemory,
                   wrRoutines, wrProgress, wrStatus>>

\* isRetryableError looks at the end of the message: any error may pass or not.
RetryExecution ==
    /\ wrPhase = "returned"
    /\ \/ /\ wrRun < RetryAttempts
          /\ wrRun' = wrRun + 1 /\ wrPhase' = "starting" /\ UNCHANGED wrLive
       \/ /\ wrPhase' = "failed" /\ wrLive' = FALSE /\ UNCHANGED wrRun
    /\ UNCHANGED <<wrKind, wrGiven, wrMaps, wrWatched, wrCount, wrStep, wrCall, wrAttempt, wrMemory,
                   wrRoutines, wrProgress, wrStatus>>

\* DefaultTimeout passes, or the request whose context this is ends.
ContextEnds ==
    /\ Running /\ wrLive /\ wrLive' = FALSE
    /\ UNCHANGED <<wrKind, wrGiven, wrMaps, wrWatched, wrCount, wrPlace, wrMemory, wrRoutines, wrProgress, wrStatus>>

\* A goroutine's select sees that the context is done.
RoutineEnds ==
    /\ ~wrLive
    /\ \E g \in wrRoutines : wrRoutines' = wrRoutines \ {g}
    /\ UNCHANGED <<wrKind, wrGiven, wrMaps, wrWatched, wrCount, wrPlace, wrMemory, wrProgress, wrStatus, wrLive>>

WrExecute == WrStart \/ CallService \/ UseMemory \/ StartRoutine \/ StepDone \/ RetryStep \/ Close
             \/ RetryExecution
WrNext == WrExecute \/ ContextEnds \/ RoutineEnds
WrSpec == WrInit /\ [][WrNext]_wrVars /\ WF_wrVars(WrExecute) /\ WF_wrVars(RoutineEnds)

----------------------------------------------------------------------------

\* How often the workflow's steps, each run once, ask for the watched effect.
Occurrences == Workflow(wrGiven)!Occurrences(wrKind, wrWatched)

\* However often steps and executions are tried again, an effect outside the workflow is
\* asked for a bounded number of times - more than once, since nothing remembers it.
EffectBudget ==
    wrCount <= Occurrences * (MaxStepRetries + 1) * (RetryAttempts + 1)

\* What a step reads from the memory by an unchecked assertion an earlier step has written -
\* whatever steps the configuration skips, and in whichever attempt the step runs. (What the
\* request itself lacks, as an integration's base_url, ends the process: "crash".)
MemoryIsThere ==
    InStep /\ Here.on = "need" => Here.op \in wrMemory

\* completed is reported with all steps done and everything they leave in memory there.
CompletedIsWhole ==
    wrStatus = "completed" => wrProgress = Len(Script) /\ Outcomes \subseteq wrMemory

\* The execution ends, and with it, since its context is cancelled, all that was started
\* in the background: real-time sync, monitors and cleanups live no longer than Execute.
ExecutionEnds == <>[](~Running /\ wrRoutines = {})
=============================================================================
