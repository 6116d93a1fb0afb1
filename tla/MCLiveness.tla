----------------------------- MODULE MCLiveness -----------------------------
(***************************************************************************)
(* The event pipeline, one workflow execution and the orchestrator for     *)
(* TLC, with their liveness.  They share no variable, so a behaviour of    *)
(* all three is three behaviours side by side: the run explores one of     *)
(* them at a time, "focus", from the others' initial states.               *)
(***************************************************************************)
EXTENDS EventPipeline, WorkflowRun, WorkflowOrchestrator

VARIABLE focus

\* What a request to a workflow must give, and what it may give or leave out.
Required == [
    airtable_sync      |-> {"source_bases", "target_bases", "sync_rules"},
    ai_analytics       |-> {"data_sources", "api_key", "analysis_types"},
    team_collaboration |-> {"workspace", "roles", "permissions", "default_role"},
    automation_engine  |-> {"triggers", "actions", "max_concurrent", "timeout"},
    data_pipeline      |-> {"sources", "destinations", "pipeline_type", "pipeline_mode"}]
Optional == [
    airtable_sync      |-> {"synced_before", "webhooks", "batches", "real_time_sync", "progress_tracking"},
    ai_analytics       |-> {"ml_models", "reports", "report_schedule", "alerts", "schedule"},
    team_collaboration |-> {"audit"},
    automation_engine  |-> {"cron", "conditions", "integrations", "templates", "monitoring"},
    data_pipeline      |-> {"schedule", "transformations", "validation", "checkpoints", "metrics",
                            "pipeline_alerts"}]
Flaws == {"no_base_url", "query_not_text"}
\* All of it, with flaws or without; all but one; only what must be given; and too little.
SomeConfigurations ==
    [k \in DOMAIN Required |->
        LET all == Required[k] \cup Optional[k]
        IN  {all, all \cup Flaws, Required[k]} \cup {all \ {l} : l \in all}]
\* Every effect is watched with all of it, and one of them with each of the others,
\* for which the request has its maps.
SomeExecutions ==
    \/ wrGiven = Required[wrKind] \cup Optional[wrKind]
    \/ wrMaps /\ wrWatched = CHOOSE e \in Effects[wrKind] : TRUE

SomeWorkflow ==
    /\ wrKind = "airtable_sync" /\ wrGiven = Required["airtable_sync"]
    /\ wrMaps /\ wrWatched = "CreateRecords"

MCInit ==
    /\ focus \in {"pipeline", "execution", "orchestrator"}
    /\ Init /\ WrInit /\ WoInit
    /\ IF focus = "execution" THEN SomeExecutions ELSE SomeWorkflow

PipelineMoves == focus = "pipeline" /\ Next /\ UNCHANGED <<focus, wrVars, woVars>>
ExecutionMoves == focus = "execution" /\ WrNext /\ UNCHANGED <<focus, vars, woVars>>
OrchestratorMoves == focus = "orchestrator" /\ WoNext /\ UNCHANGED <<focus, vars, wrVars>>
MCNext == PipelineMoves \/ ExecutionMoves \/ OrchestratorMoves

\* The fairness of the three modules, of the one that moves.
MCFairness ==
    /\ \A p \in Processors : WF_vars(focus = "pipeline" /\ (GetUnprocessedEvents(p) \/ Reads(p)))
    /\ WF_wrVars(focus = "execution" /\ WrExecute)
    /\ WF_wrVars(focus = "execution" /\ RoutineEnds)
    /\ \A c \in WorkflowCallers : WF_woVars(focus = "orchestrator" /\ (Track(c) \/ Launch(c)))
    /\ \A e \in 1 .. MaxExecutions :
          WF_woVars(focus = "orchestrator" /\ e <= Len(woExec) /\ Proceed(e))

MCSpec == MCInit /\ [][MCNext]_<<focus, vars, wrVars, woVars>> /\ MCFairness

\* An execution keeps its budget and its memory, and reports no success before it is whole: see the
\* parts, in WorkflowRun.
WorkflowSafety == WrTypeOK /\ EffectBudget /\ MemoryIsThere /\ CompletedIsWhole

\* Every execution ends, with what it started in the background, and gives its slot back.
WorkflowsEnd == SlotsReturn /\ (focus = "execution" => ExecutionEnds)
=============================================================================
