---------------------------- MODULE WorkflowSteps ----------------------------
(***************************************************************************)
(* The five workflows of pkg/workflows as programs.  A workflow is a list of *)
(* steps and a step is a list of calls to the services it is given, in the   *)
(* order of the code.  What a call returns is data; what a step does with an *)
(* error is control, and is kept with the call:                             *)
(*   fail   the step returns the error          log    it is only logged     *)
(*   skip   the rest of this item is left out   panic  the nil result of the *)
(*                                              failed call is dereferenced  *)
(* and, for the workflow's own memory, put (a key of Metadata or Context is  *)
(* set), need (a key is read by an unchecked type assertion), want (a        *)
(* missing key is an error) and go (a goroutine is started on the workflow's *)
(* context).  crash is an unchecked type assertion on a value of the request  *)
(* that is missing or not a string.  Events whose error is ignored are left   *)
(* out.                                                                      *)
(***************************************************************************)
EXTENDS Integers, Sequences, SequencesExt

CONSTANTS
    Given,      \* the configured lists that are not empty, and the flags that are set
    Items       \* how many items such a list has

WorkflowKinds == {"airtable_sync", "ai_analytics", "team_collaboration", "automation_engine", "data_pipeline"}

Call(op, on) == [op |-> op, on |-> on, over |-> 0]
Skip(op, n) == [op |-> op, on |-> "skip", over |-> n]
Put(key) == Call(key, "put")
Need(key) == Call(key, "need")
Go(routine) == Call(routine, "go")
When(list, calls) == IF list \in Given THEN calls ELSE <<>>
Repeat(n, calls) == FlattenSeq([i \in 1 .. n |-> calls])
Each(list, calls) == When(list, Repeat(Items, calls))
\* A check of the configuration that fails at every attempt.
Require(lists) == IF lists \subseteq Given THEN <<>> ELSE <<Call("invalid", "fail")>>
\* A flag that says how the request is malformed, where the code takes it to be well formed.
Assertion(flaw) == When(flaw, <<Call(flaw, "crash")>>)

----------------------------------------------------------------------------
(* airtable_sync_workflow.go                                               *)

SyncValidate == Require({"source_bases", "target_bases", "sync_rules"})
DetectSchemaChanges ==
    Each("source_bases",
         <<Call("GetSchema", "fail")>> \o When("synced_before", <<Call("DetectSchemaChanges", "fail")>>))
SetupWebhooks ==
    When("webhooks", Each("source_bases", <<Call("RegisterWebhook", "fail"), Put("webhook")>>))
\* One rule, batch by batch: whatever the conflict resolver answers, every record is created.
ExecuteSyncRule ==
    <<Call("GetRecords", "fail"), Call("GetRecords", "fail")>>
    \o Each("batches", <<Call("ResolveConflicts", "fail"), Call("CreateRecords", "fail"),
                         Call("UpdateProgress", "log")>>)
PerformInitialSync ==
    Each("source_bases", <<Call("GetRecords", "fail")>>)
    \o <<Call("StartTracking", "fail")>> \o Each("sync_rules", ExecuteSyncRule)
EnableRealTimeSync == When("real_time_sync", <<Go("processWebhookEvents")>>)
StartProgressTracking == When("progress_tracking", <<Go("trackProgressPeriodically")>>)
SyncSteps == <<SyncValidate, DetectSchemaChanges, SetupWebhooks, PerformInitialSync,
               EnableRealTimeSync, StartProgressTracking>>
SyncEffects == {"RegisterWebhook", "StartTracking", "CreateRecords"}

----------------------------------------------------------------------------
(* ai_analytics_workflow.go                                                *)

AnalyticsValidate == Require({"data_sources", "api_key", "analysis_types"})
ConnectToDataSources ==
    Each("data_sources", <<Call("ConnectToSource", "fail"), Put("connection")>>)
    \o <<Put("data_connections")>>
ExtractAndValidateData ==
    Each("data_sources",
         <<Call("connection", "want")>> \o Assertion("query_not_text")
         \o <<Need("data_connections"), Call("ExtractData", "fail"), Call("ValidateData", "fail")>>)
    \o <<Put("datasets")>>
PerformDataAnalysis ==
    <<Need("datasets")>> \o Each("analysis_types", <<Call("AnalyzeData", "fail")>>)
    \o <<Put("analysis_results")>>
TrainMLModels ==
    When("ml_models",
         <<Need("datasets")>>
         \o Each("ml_models", <<Call("TrainModel", "fail"), Call("EvaluateModel", "log")>>)
         \o <<Put("trained_models")>>)
\* An error of DetectAnomalies is logged, and its nil result counted all the same.
GenerateInsights ==
    <<Need("datasets"), Need("analysis_results"), Call("GenerateInsights", "fail"),
      Call("DetectAnomalies", "panic"), Put("insights")>>
CreateReports ==
    When("reports",
         Each("reports", <<Call("GenerateReport", "fail")>>
                         \o When("report_schedule", <<Call("ScheduleReport", "log")>>))
         \o <<Put("generated_reports")>>)
SetupAlerts ==
    When("alerts",
         <<Need("datasets")>>
         \o Each("alerts", <<Call("CreateAlert", "fail"), Skip("EvaluateAlerts", 1),
                             Call("SendAlert", "log")>>)
         \o <<Put("created_alerts")>>)
ScheduleRecurringAnalysis ==
    When("schedule", <<Call("ScheduleAnalysis", "fail"), Put("scheduled_analysis")>>)
AnalyticsSteps == <<AnalyticsValidate, ConnectToDataSources, ExtractAndValidateData,
                    PerformDataAnalysis, TrainMLModels, GenerateInsights, CreateReports,
                    SetupAlerts, ScheduleRecurringAnalysis>>
AnalyticsEffects == {"ConnectToSource", "TrainModel", "ScheduleReport", "CreateAlert", "SendAlert",
                     "ScheduleAnalysis"}

----------------------------------------------------------------------------
(* team_collaboration_workflow.go                                          *)

TeamValidate == Require({"workspace", "roles", "permissions", "default_role"})
SetupRBACSystem ==
    Each("permissions", <<Call("CreatePermission", "fail")>>)
    \o Each("roles", <<Call("CreateRole", "fail")>>)
    \o <<Put("created_permissions"), Put("created_roles")>>
\* Every feature's setup only logs.
InitializeCollaborationFeatures == <<>>
SetupAuditLogging == When("audit", <<Call("LogEvent", "fail"), Go("scheduleAuditCleanup")>>)
ConfigureNotifications ==
    Repeat(3, <<Call("CreateNotificationTemplate", "fail")>>) \o <<Put("notification_templates")>>
EnableRealtimeFeatures ==
    <<Call("GetActiveUsers", "log")>> \o Repeat(4, <<Call("Publish", "log")>>)
    \o <<Put("realtime_channels")>>
StartActivityTracking ==
    <<Call("TrackActivity", "fail"), Go("scheduleActivitySummarization")>>
\* The second failure is an empty answer of ListRoles.
ValidateSystemIntegrity ==
    <<Call("ListRoles", "fail"), Call("no roles", "fail"), Call("CheckPermission", "log")>>
    \o When("audit", <<Call("GetAuditLog", "fail"), Put("audit_events_count")>>)
    \o <<Call("SendNotification", "log"), Put("validation_results")>>
TeamSteps == <<TeamValidate, SetupRBACSystem, InitializeCollaborationFeatures, SetupAuditLogging,
               ConfigureNotifications, EnableRealtimeFeatures, StartActivityTracking,
               ValidateSystemIntegrity>>
TeamEffects == {"CreatePermission", "CreateRole", "LogEvent", "CreateNotificationTemplate",
                "Publish", "TrackActivity", "SendNotification"}

----------------------------------------------------------------------------
(* automation_engine_workflow.go                                           *)

AutomationValidate == Require({"triggers", "actions", "max_concurrent", "timeout"})
SetupWorkflowBuilder == <<Put("ui_components"), Put("loaded_templates")>>
\* A trigger of type time also becomes a job of the cron scheduler.
SetupScheduledTrigger == When("cron", <<Call("AddFunc", "log")>>)
InitializeTriggerSystem ==
    Each("triggers", <<Call("RegisterTrigger", "fail")>> \o SetupScheduledTrigger)
    \o <<Put("registered_triggers")>>
SetupActionExecutors ==
    <<Call("GetSupportedActions", "fail")>> \o Each("actions", <<Call("ValidateAction", "log")>>)
    \o <<Put("available_actions")>>
ConfigureConditionEvaluators ==
    <<Call("GetSupportedOperators", "fail")>> \o Repeat(4, <<Call("CompileExpression", "log")>>)
    \o Each("conditions", <<Call("ValidateCondition", "log")>>) \o <<Put("supported_operators")>>
SetupIntegrations ==
    When("integrations",
         Each("integrations", Assertion("no_base_url")
                              \o <<Skip("CreateIntegration", 1), Call("TestIntegration", "log")>>)
         \o <<Put("setup_integrations")>>)
CreateBuiltinTemplates == Repeat(5, <<Call("CreateTemplate", "log")>>)
LoadWorkflowTemplates ==
    CreateBuiltinTemplates \o Each("templates", <<Call("CreateTemplate", "log")>>)
    \o <<Put("loaded_templates")>>
\* The monitors are started before the only call that can fail.
StartExecutionEngine ==
    <<Go("monitorExecutions"), Go("collectExecutionMetrics"), Call("CreateWorkflow", "fail"),
      Call("StartExecution", "log"), Put("execution_config")>>
EnableMonitoring ==
    When("monitoring",
         <<Go("monitorWorkflowHealth"), Go("monitorResourceUsage"), Go("monitorIntegrationHealth"),
           Put("monitoring_enabled")>>)
AutomationSteps == <<AutomationValidate, SetupWorkflowBuilder, InitializeTriggerSystem,
                     SetupActionExecutors, ConfigureConditionEvaluators, SetupIntegrations,
                     LoadWorkflowTemplates, StartExecutionEngine, EnableMonitoring>>
AutomationEffects == {"RegisterTrigger", "AddFunc", "CreateIntegration", "CreateTemplate",
                      "CreateWorkflow", "StartExecution", "monitorExecutions"}

----------------------------------------------------------------------------
(* data_pipeline_workflow.go                                               *)

PipelineValidate ==
    Require({"sources", "destinations", "pipeline_type", "pipeline_mode"})
    \o Each("sources", <<Call("ValidateSource", "fail")>>)
    \o Each("destinations", <<Call("ValidateDestination", "fail")>>)
InitializePipelineOrchestrator ==
    <<Call("CreatePipeline", "fail")>>
    \o When("schedule", <<Call("SchedulePipeline", "log")>>)
    \o <<Put("pipeline"), Put("pipeline_id")>>
\* The estimate is dereferenced although its error has only been logged.
SetupDataSources ==
    Each("sources", <<Call("GetSourceSchema", "log"), Call("EstimateDataSize", "panic")>>)
    \o <<Put("source_schemas")>>
ConfigureTransformations ==
    When("transformations",
         <<Call("GetSupportedTransformations", "fail")>>
         \o Each("transformations", <<Skip("ValidateTransformation", 1),
                                      Call("CompileTransformation", "log")>>)
         \o <<Put("transformation_pipeline")>>)
SetupDataDestinations ==
    Each("destinations", <<Call("GetDestinationSchema", "log")>>) \o <<Put("destination_schemas")>>
ConfigureValidationRules == When("validation", <<Put("validation_rules")>>)
SetupErrorHandling == <<Put("error_handling_strategies")>>
EnableCheckpointing ==
    When("checkpoints",
         <<Need("pipeline_id"), Call("CreateCheckpoint", "fail"), Put("initial_checkpoint")>>)
StartMonitoring ==
    When("metrics",
         <<Need("pipeline_id"), Call("StartMonitoring", "fail")>>
         \o Each("pipeline_alerts", <<Call("CreateAlert", "log")>>)
         \o <<Call("GetDashboard", "log"), Put("monitoring_enabled")>>)
\* Polls for the end of the test run: it ends well, fails, or is given up after five minutes.
ExecuteTestPipeline ==
    <<Need("pipeline_id"), Call("ExecutePipeline", "fail"), Call("test run", "fail"),
      Put("test_execution")>>
PipelineSteps == <<PipelineValidate, InitializePipelineOrchestrator, SetupDataSources,
                   ConfigureTransformations, SetupDataDestinations, ConfigureValidationRules,
                   SetupErrorHandling, EnableCheckpointing, StartMonitoring, ExecuteTestPipeline>>
PipelineEffects == {"CreatePipeline", "SchedulePipeline", "CreateCheckpoint", "StartMonitoring",
                    "CreateAlert", "ExecutePipeline"}

----------------------------------------------------------------------------

Steps == [airtable_sync |-> SyncSteps, ai_analytics |-> AnalyticsSteps,
          team_collaboration |-> TeamSteps, automation_engine |-> AutomationSteps,
          data_pipeline |-> PipelineSteps]
\* Operations that leave something behind outside the workflow.
Effects == [airtable_sync |-> SyncEffects, ai_analytics |-> AnalyticsEffects,
            team_collaboration |-> TeamEffects, automation_engine |-> AutomationEffects,
            data_pipeline |-> PipelineEffects]

\* How often a workflow's steps, each run once, call op.
Occurrences(kind, op) == Len(SelectSeq(FlattenSeq(Steps[kind]), LAMBDA c : c.op = op))
\* What they put into Metadata and Context.
Outcomes(kind) == {c.op : c \in {d \in ToSet(FlattenSeq(Steps[kind])) : d.on = "put"}}
=============================================================================
