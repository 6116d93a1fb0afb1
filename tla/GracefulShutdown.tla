-------------------------- MODULE GracefulShutdown --------------------------
(***************************************************************************)
(* The shutdown handler of pkg/graceful: hooks that run at once, by whoever  *)
(* comes first, the signal that Wait waits for or a call of Shutdown.        *)
(* "wait" is the main goroutine: the process ends when Wait returns.  A send *)
(* on the closed error channel ends it too.  executeHooks reads the list     *)
(* without the lock that AddHook takes.                                      *)
(***************************************************************************)
EXTENDS Naturals, FiniteSets

CONSTANT Hooks      \* hooks that may be added, each once

ASSUME HooksAssumption == IsFiniteSet(Hooks)

VARIABLES
    gsHooks, gsStarted,  \* h.hooks, h.shutdownStarted
    gsAt,                \* where Wait and Shutdown stand
    gsCap, gsRange,      \* capacity of the error channel; the hooks the loop ranges over
    gsHook,              \* of each hook's goroutine
    gsErrors,            \* errors in the channel
    gsClosed, gsExpired, \* the channel is closed; the context is over
    gsProcess,           \* "up", "exited" or "crashed"
    gsRuns, gsFailed,    \* history: how often a hook ran; hooks that failed
    gsLogged             \* history: errors reported at the end

gsVars == <<gsHooks, gsStarted, gsAt, gsCap, gsRange, gsHook, gsErrors, gsClosed, gsExpired, gsProcess,
            gsRuns, gsFailed, gsLogged>>
gsRest == <<gsCap, gsRange, gsHook, gsErrors, gsClosed, gsExpired, gsRuns, gsFailed, gsLogged>>

ShutdownCallers == {"wait", "shutdown"}
Lives == gsProcess = "up"
Moves(c, at) == gsAt' = [gsAt EXCEPT ![c] = at]
\* What returns from Wait ends the process.
EndsCall(c) ==
    /\ Moves(c, "returned")
    /\ gsProcess' = IF c = "wait" THEN "exited" ELSE gsProcess

GsInit ==
    /\ gsHooks = {} /\ gsStarted = FALSE /\ gsAt = [c \in ShutdownCallers |-> "idle"]
    /\ gsCap = 0 /\ gsRange = {} /\ gsHook = [h \in Hooks |-> "none"] /\ gsErrors = 0
    /\ gsClosed = FALSE /\ gsExpired = FALSE /\ gsProcess = "up"
    /\ gsRuns = [h \in Hooks |-> 0] /\ gsFailed = {} /\ gsLogged = 0

AddHook(h) ==
    /\ Lives /\ h \notin gsHooks /\ gsHooks' = gsHooks \cup {h}
    /\ UNCHANGED <<gsStarted, gsAt, gsProcess, gsRest>>

\* The signal arrives, or somebody calls Shutdown: the second finds the shutdown under way.
InitiateShutdown(c) ==
    /\ Lives /\ gsAt[c] = "idle"
    /\ IF gsStarted THEN EndsCall(c) /\ UNCHANGED gsStarted
       ELSE gsStarted' = TRUE /\ Moves(c, "counting") /\ UNCHANGED gsProcess
    /\ UNCHANGED <<gsHooks, gsRest>>

\* The channel is made for the hooks there are; the loop reads the list again.
MakeErrorChan(c) ==
    /\ Lives /\ gsAt[c] = "counting"
    /\ IF gsHooks = {} THEN EndsCall(c) /\ UNCHANGED gsCap
       ELSE Moves(c, "starting") /\ gsCap' = Cardinality(gsHooks) /\ UNCHANGED gsProcess
    /\ UNCHANGED <<gsHooks, gsStarted, gsRange, gsHook, gsErrors, gsClosed, gsExpired, gsRuns, gsFailed, gsLogged>>
StartHooks(c) ==
    /\ Lives /\ gsAt[c] = "starting" /\ Moves(c, "waiting")
    /\ gsRange' = gsHooks
    /\ gsHook' = [h \in Hooks |-> IF h \in gsHooks THEN "running" ELSE gsHook[h]]
    /\ gsRuns' = [h \in Hooks |-> IF h \in gsHooks THEN gsRuns[h] + 1 ELSE gsRuns[h]]
    /\ UNCHANGED <<gsHooks, gsStarted, gsCap, gsErrors, gsClosed, gsExpired, gsProcess, gsFailed, gsLogged>>

\* A hook heeds the context or not.
HookSucceeds(h) ==
    /\ Lives /\ gsHook[h] = "running" /\ gsHook' = [gsHook EXCEPT ![h] = "done"]
    /\ UNCHANGED <<gsHooks, gsStarted, gsAt, gsCap, gsRange, gsErrors, gsClosed, gsExpired, gsProcess, gsRuns, gsFailed, gsLogged>>
HookFails(h) ==
    /\ Lives /\ gsHook[h] = "running" /\ gsFailed' = gsFailed \cup {h}
    /\ CASE gsClosed -> gsProcess' = "crashed" /\ UNCHANGED <<gsHook, gsErrors>>
         [] ~gsClosed /\ gsErrors < gsCap ->
                gsHook' = [gsHook EXCEPT ![h] = "done"] /\ gsErrors' = gsErrors + 1 /\ UNCHANGED gsProcess
         [] OTHER -> gsHook' = [gsHook EXCEPT ![h] = "sending"] /\ UNCHANGED <<gsErrors, gsProcess>>
    /\ UNCHANGED <<gsHooks, gsStarted, gsAt, gsCap, gsRange, gsClosed, gsExpired, gsRuns, gsLogged>>

TimeoutExpires ==
    /\ Lives /\ \E c \in ShutdownCallers : gsAt[c] \in {"counting", "starting", "waiting"}
    /\ ~gsExpired /\ gsExpired' = TRUE
    /\ UNCHANGED <<gsHooks, gsStarted, gsAt, gsCap, gsRange, gsHook, gsErrors, gsClosed, gsProcess, gsRuns, gsFailed, gsLogged>>

AllDone == \A h \in gsRange : gsHook[h] = "done"
\* close(errorChan), which a sender still blocked on it does not survive.
CloseErrorChan(c) ==
    /\ Lives /\ gsAt[c] = "waiting" /\ (AllDone \/ gsExpired) /\ Moves(c, "reporting")
    /\ gsClosed' = TRUE
    /\ gsProcess' = IF \E h \in gsRange : gsHook[h] = "sending" THEN "crashed" ELSE "up"
    /\ UNCHANGED <<gsHooks, gsStarted, gsCap, gsRange, gsHook, gsErrors, gsExpired, gsRuns, gsFailed, gsLogged>>
ReportErrors(c) ==
    /\ Lives /\ gsAt[c] = "reporting" /\ EndsCall(c)
    /\ gsLogged' = gsErrors /\ gsErrors' = 0
    /\ UNCHANGED <<gsHooks, gsStarted, gsCap, gsRange, gsHook, gsClosed, gsExpired, gsRuns, gsFailed>>

GsNext ==
    \/ TimeoutExpires
    \/ \E h \in Hooks : AddHook(h) \/ HookSucceeds(h) \/ HookFails(h)
    \/ \E c \in ShutdownCallers : InitiateShutdown(c) \/ MakeErrorChan(c) \/ StartHooks(c) \/ CloseErrorChan(c) \/ ReportErrors(c)
GsSpec == GsInit /\ [][GsNext]_gsVars

----------------------------------------------------------------------------

GsTypeOK ==
    /\ gsHooks \subseteq Hooks /\ gsRange \subseteq gsHooks /\ gsErrors \in 0 .. gsCap
    /\ gsAt \in [ShutdownCallers -> {"idle", "counting", "starting", "waiting", "reporting", "returned"}]
    /\ gsHook \in [Hooks -> {"none", "running", "sending", "done"}]

\* However signal and call overlap, a hook runs once.
HooksRunOnce == \A h \in Hooks : gsRuns[h] <= 1
\* Where Wait ran the hooks itself, the process outlives them, or the timeout; where Shutdown does,
\* the signal ends the process at once.
ExitWaits ==
    gsProcess = "exited" /\ gsAt["shutdown"] \in {"idle", "returned"} => AllDone \/ gsExpired
\* A hook that fails ends the process only if it does so after the timeout, or has found the channel
\* made too small for it: before, nothing closes the channel.
CrashIsLate == gsProcess = "crashed" => gsExpired /\ ~AllDone
\* Without the timeout the report names every hook that failed, although they fail while others run.
ErrorsReported ==
    gsClosed /\ ~gsExpired /\ (\A c \in ShutdownCallers : gsAt[c] # "reporting") => gsLogged = Cardinality(gsFailed)

\* Shutting down runs each hook once and waits for it.
GracefulSafety == HooksRunOnce /\ ExitWaits /\ CrashIsLate /\ ErrorsReported

=============================================================================
