------------------------ MODULE InfrastructureProofs ------------------------
(***************************************************************************)
(* Proofs about the writes of the event infrastructure, for any number of   *)
(* processes, requests, hooks and units of work: the election of            *)
(* OutboxIntegration and the shutdown of GracefulShutdown, Registration,     *)
(* UnitOfWork, the transactions of OutboxIntegration, and from them and the  *)
(* parts of InfrastructurePartsProofs WritesHold and BusesAndWatchersHold of *)
(* MCEventInfrastructure.                                                   *)
(***************************************************************************)
EXTENDS MCEventInfrastructure, InfrastructurePartsProofs, FiniteSetTheorems, SequenceTheorems, TLAPS

----------------------------------------------------------------------------
(* Whatever the number of processes: the two properties with the types are *)
(* inductive.  An election is won only when no leader's lease runs, since  *)
(* a leader whose lease runs has the row.                                  *)

LeInv ==
    /\ LeTypeOK /\ leNow \in Nat /\ leRow \in Nat /\ leUp \subseteq Electors
    /\ leUsurped \in BOOLEAN
    /\ \A p \in Electors : leAsked[p] <= leNow
    /\ \A p \in leLeads : leAsked[p] > 0
    /\ ElectionSafety

\* It holds of the processes as they start, none of them leader.
LEMMA ElectionStarts == LeInit => LeInv
<1> SUFFICES ASSUME LeInit PROVE LeInv
  OBVIOUS
<1>1. LeTypeOK
  BY ElectionAssumption DEF LeInit, LeTypeOK
<1>2. leNow = 1 /\ leRow = 0 /\ leUp = Electors /\ leLeads = {} /\ leUsurped = FALSE
  BY DEF LeInit
<1>3. \A p \in Electors : leAsked[p] <= leNow
  BY DEF LeInit
<1>4. ElectionSafety
  BY <1>2 DEF ElectionSafety, LeaderHasRow, LeadersApart
<1> QED BY <1>1, <1>2, <1>3, <1>4 DEF LeInv

\* An attempt that wins ends the lease of nobody.
LEMMA ElectionIsWon == ASSUME LeInv, NEW p \in Electors, TryBecomeLeader(p) PROVE LeInv'
<1> USE ElectionAssumption DEF LeInv, LeTypeOK, LeaseTicks
<1> DEFINE wins == leRow = 0 \/ leRow < leNow - LeaseTicks
<1>1. leNow' = leNow /\ leUp' = leUp /\ leUsurped' = leUsurped
      /\ leAsked' = [leAsked EXCEPT ![p] = leNow] /\ leDue' = leDue \ {p} /\ p \in leUp
      /\ leRow' = (IF wins THEN leNow ELSE leRow)
      /\ leLeads' = (IF wins THEN leLeads \cup {p} ELSE leLeads \ {p})
  BY DEF TryBecomeLeader
<1>2. LeTypeOK' /\ leNow' \in Nat /\ leRow' \in Nat /\ leUp' \subseteq Electors /\ leUsurped' \in BOOLEAN
      /\ (\A q \in Electors : leAsked'[q] <= leNow') /\ \A q \in leLeads' : leAsked'[q] > 0
  BY <1>1
<1>3. \A q \in leLeads : leAsked[q] \in Nat /\ q \in Electors
  OBVIOUS
<1>4. ASSUME ~leUsurped, wins, NEW q \in leLeads PROVE leNow - leAsked[q] > LeaseTicks
  <2>1. leAsked[q] > 0 /\ leAsked[q] <= leNow /\ leAsked[q] \in Nat
    BY <1>3
  <2>2. leNow - leAsked[q] <= LeaseTicks => leRow = leAsked[q]
    BY <1>4 DEF ElectionSafety, LeaderHasRow
  <2> QED BY <2>1, <2>2, <1>4
<1>5. LeaderHasRow'
  BY <1>1, <1>3, <1>4 DEF ElectionSafety, LeaderHasRow
<1>6. LeadersApart'
  BY <1>1, <1>3, <1>4 DEF ElectionSafety, LeadersApart
<1> QED BY <1>2, <1>5, <1>6 DEF ElectionSafety

\* A release that takes the row from a leader whose lease runs is a usurpation.
LEMMA LeadershipIsReleased == ASSUME LeInv, NEW p \in Electors, ReleaseLeadership(p) PROVE LeInv'
<1> USE ElectionAssumption DEF LeInv, LeTypeOK, LeaseTicks
<1>1. leNow' = leNow /\ leUp' = leUp \ {p} /\ leDue' = leDue \ {p} /\ leLeads' = leLeads \ {p}
      /\ leAsked' = leAsked
  BY DEF ReleaseLeadership
<1>2. CASE p \notin leLeads
  <2>1. leRow' = leRow /\ leUsurped' = leUsurped
    BY <1>2 DEF ReleaseLeadership
  <2> QED BY <1>1, <2>1 DEF ElectionSafety, LeaderHasRow, LeadersApart
<1>3. CASE p \in leLeads
  <2>1. leRow' = 0 /\ leUsurped' = (leUsurped \/ (leRow # 0 /\ leRow # leAsked[p]))
    BY <1>3 DEF ReleaseLeadership
  <2>2. ASSUME ~leUsurped', NEW q \in leLeads', leNow - leAsked[q] <= LeaseTicks PROVE FALSE
    <3>1. q \in leLeads /\ q # p /\ leAsked[q] \in Nat /\ leAsked[p] \in Nat /\ leAsked[q] > 0
      BY <1>1, <1>3, <2>2
    <3>2. leRow = leAsked[q]
      BY <2>1, <2>2, <3>1 DEF ElectionSafety, LeaderHasRow
    <3>3. leAsked[p] = leAsked[q]
      <4>1. leRow = 0 \/ leRow = leAsked[p]
        BY <2>1, <2>2, Zenon
      <4> QED BY <3>1, <3>2, <4>1
    <3> QED BY <1>3, <2>1, <2>2, <3>1, <3>3 DEF ElectionSafety, LeadersApart
  <2>3. LeaderHasRow'
    BY <1>1, <2>2 DEF LeaderHasRow
  <2>4. LeadersApart'
    BY <1>1, <2>1 DEF ElectionSafety, LeadersApart
  <2>5. LeTypeOK' /\ leNow' \in Nat /\ leRow' \in Nat /\ leUp' \subseteq Electors /\ leUsurped' \in BOOLEAN
    BY <1>1, <2>1
  <2>6. (\A q \in Electors : leAsked'[q] <= leNow') /\ \A q \in leLeads' : leAsked'[q] > 0
    BY <1>1
  <2> QED BY <2>3, <2>4, <2>5, <2>6 DEF ElectionSafety
<1> QED BY <1>2, <1>3

\* Every step keeps it; a clock that ticks only ends leases.
LEMMA ElectionGoesOn == LeInv /\ [LeNext]_leVars => LeInv'
<1> SUFFICES ASSUME LeInv, [LeNext]_leVars PROVE LeInv'
  OBVIOUS
<1> USE DEF LeInv, LeTypeOK
<1>1. CASE TickPasses
  <2>1. leNow' = leNow + 1 /\ leNow' <= MaxLeaderTime /\ leDue' = leUp
        /\ UNCHANGED <<leRow, leUp, leLeads, leAsked, leUsurped>>
    BY <1>1, ElectionAssumption DEF TickPasses
  <2>2. \A p \in leLeads : leAsked[p] \in Nat /\ p \in Electors
    BY ElectionAssumption
  <2> QED BY <2>1, <2>2, ElectionAssumption DEF ElectionSafety, LeaderHasRow, LeadersApart, LeaseTicks
<1>2. ASSUME NEW p \in Electors, TryBecomeLeader(p) PROVE LeInv'
  BY <1>2, ElectionIsWon
<1>3. ASSUME NEW p \in Electors, ReleaseLeadership(p) PROVE LeInv'
  BY <1>3, LeadershipIsReleased
<1>4. ASSUME NEW p \in Electors, ElectionErrs(p) \/ ElectorCrashes(p) \/ ElectorStarts(p) PROVE LeInv'
  <2>1. leNow' = leNow /\ leRow' = leRow /\ leAsked' = leAsked /\ leUsurped' = leUsurped
        /\ leUp' \subseteq Electors /\ leDue' \subseteq leUp' /\ leLeads' \subseteq leLeads /\ leLeads' \subseteq leUp'
    BY <1>4 DEF ElectionErrs, ElectorCrashes, ElectorStarts
  <2> QED BY <2>1 DEF ElectionSafety, LeaderHasRow, LeadersApart
<1>5. CASE UNCHANGED leVars
  BY <1>5 DEF leVars, ElectionSafety, LeaderHasRow, LeadersApart
<1> QED BY <1>1, <1>2, <1>3, <1>4, <1>5 DEF LeNext

\* Nobody was confirmed as leader while another's lease ran, for any number of processes, faults
\* and restarts, as long as no process released a row that had become another's.
THEOREM OneLeaderPerLease == LeSpec => []ElectionSafety
<1>1. LeInv => ElectionSafety
  BY DEF LeInv
<1> QED BY <1>1, ElectionStarts, ElectionGoesOn, PTL DEF LeSpec

----------------------------------------------------------------------------
(* For any hooks: at most one caller runs them, all of them are untouched  *)
(* until it starts them, and only closing the channel ends its counting.   *)

Running(c) == gsAt[c] \in {"counting", "starting", "waiting", "reporting"}
FailedAndSent == {h \in gsFailed : gsHook[h] = "done"}
GsTyped ==
    /\ GsTypeOK /\ gsCap \in Nat /\ gsFailed \subseteq Hooks /\ gsRuns \in [Hooks -> Nat]
    /\ gsStarted \in BOOLEAN /\ gsClosed \in BOOLEAN /\ gsExpired \in BOOLEAN
OneShutdown ==
    /\ \A c, d \in ShutdownCallers : Running(c) /\ Running(d) => c = d
    /\ ~gsStarted => \A c \in ShutdownCallers : gsAt[c] = "idle"
HooksUntouched ==
    ~gsStarted \/ (\E c \in ShutdownCallers : gsAt[c] \in {"counting", "starting"}) =>
        /\ gsRange = {} /\ gsErrors = 0 /\ gsFailed = {} /\ ~gsClosed /\ gsProcess # "crashed"
        /\ \A h \in Hooks : gsHook[h] = "none" /\ gsRuns[h] = 0
HooksOfRange ==
    /\ \A h \in Hooks : gsHook[h] \in {"running", "sending"} => h \in gsRange
    /\ Lives => \A h \in gsFailed : gsHook[h] \in {"done", "sending"}
ClosedInTime ==
    /\ \A c \in ShutdownCallers : gsAt[c] = "waiting" => ~gsClosed
    /\ \A c \in ShutdownCallers : gsAt[c] = "reporting" => gsClosed
    /\ gsClosed \/ (gsStarted /\ \A c \in ShutdownCallers : ~Running(c)) => AllDone \/ gsExpired
ErrorsCounted ==
    /\ Lives /\ (\E c \in ShutdownCallers : gsAt[c] = "waiting") => gsErrors = Cardinality(FailedAndSent)
    /\ Lives /\ ~gsExpired /\ (\E c \in ShutdownCallers : gsAt[c] = "reporting") => gsErrors = Cardinality(gsFailed)
GsInv ==
    /\ GsTyped /\ OneShutdown /\ HooksUntouched /\ HooksOfRange /\ ClosedInTime /\ ErrorsCounted
    /\ HooksRunOnce /\ ExitWaits /\ CrashIsLate /\ ErrorsReported

\* A process that starts has no hooks and no shutdown.
LEMMA ShutdownStarts == GsInit => GsInv
<1> SUFFICES ASSUME GsInit PROVE GsInv
  OBVIOUS
<1> USE DEF GsInit
<1>1. GsTyped
  <2>1. gsAt \in [ShutdownCallers -> {"idle"}] /\ gsHook \in [Hooks -> {"none"}] /\ gsRuns \in [Hooks -> Nat]
    OBVIOUS
  <2>2. gsErrors \in 0 .. gsCap /\ gsCap \in Nat
    OBVIOUS
  <2> QED BY <2>1, <2>2 DEF GsTyped, GsTypeOK
<1>2. OneShutdown /\ HooksUntouched /\ HooksOfRange
  BY DEF OneShutdown, HooksUntouched, HooksOfRange, Running
<1>3. ClosedInTime /\ ErrorsCounted
  BY DEF ClosedInTime, ErrorsCounted, Running
<1>4. HooksRunOnce /\ ExitWaits /\ CrashIsLate /\ ErrorsReported
  BY DEF HooksRunOnce, ExitWaits, CrashIsLate, ErrorsReported
<1> QED BY <1>1, <1>2, <1>3, <1>4 DEF GsInv

\* The second of signal and call changes nothing the first one relies on.
LEMMA ShutdownIsInitiated == ASSUME GsInv, NEW c \in ShutdownCallers, InitiateShutdown(c) PROVE GsInv'
<1> USE DEF GsInv, GsTyped, GsTypeOK, ShutdownCallers, Lives
<1>1. UNCHANGED <<gsHooks, gsRest>> /\ gsAt[c] = "idle" /\ gsProcess = "up"
  BY DEF InitiateShutdown
<1>2. CASE gsStarted
  <2>1. gsAt' = [gsAt EXCEPT ![c] = "returned"] /\ gsProcess' = (IF c = "wait" THEN "exited" ELSE "up")
        /\ gsStarted' = gsStarted
    BY <1>1, <1>2 DEF InitiateShutdown, EndsCall, Moves
  <2>2. GsTyped'
    BY <1>1, <2>1 DEF gsRest
  <2>3. \A d \in ShutdownCallers : gsAt'[d] = (IF d = c THEN "returned" ELSE gsAt[d])
    BY <2>1
  <2>4. OneShutdown' /\ HooksUntouched' /\ HooksOfRange'
    BY <1>1, <1>2, <2>1, <2>3 DEF gsRest, OneShutdown, HooksUntouched, HooksOfRange, Running
  <2>5. ClosedInTime' /\ ErrorsCounted'
    BY <1>1, <1>2, <2>1, <2>3 DEF gsRest, ClosedInTime, ErrorsCounted, AllDone, FailedAndSent, Running
  <2>6. ExitWaits'
    BY <1>1, <1>2, <2>1, <2>3 DEF gsRest, ExitWaits, ClosedInTime, AllDone, Running
  <2>7. HooksRunOnce' /\ CrashIsLate' /\ ErrorsReported'
    BY <1>1, <1>2, <2>1, <2>3 DEF gsRest, HooksRunOnce, CrashIsLate, ErrorsReported, AllDone
  <2> QED BY <2>2, <2>4, <2>5, <2>6, <2>7
<1>3. CASE ~gsStarted
  <2>1. gsAt' = [gsAt EXCEPT ![c] = "counting"] /\ gsProcess' = gsProcess /\ gsStarted' = TRUE
    BY <1>1, <1>3 DEF InitiateShutdown, Moves
  <2>2. GsTyped'
    BY <1>1, <2>1 DEF gsRest
  <2>3. \A d \in ShutdownCallers : gsAt'[d] = (IF d = c THEN "counting" ELSE "idle")
    BY <1>3, <2>1 DEF OneShutdown
  <2>4. OneShutdown' /\ HooksUntouched' /\ HooksOfRange'
    BY <1>1, <1>3, <2>1, <2>3 DEF gsRest, OneShutdown, HooksUntouched, HooksOfRange, Running
  <2>5. ClosedInTime' /\ ErrorsCounted'
    BY <1>1, <1>3, <2>1, <2>3 DEF gsRest, ClosedInTime, ErrorsCounted, AllDone, FailedAndSent, Running, HooksUntouched
  <2>6. HooksRunOnce' /\ ExitWaits' /\ CrashIsLate' /\ ErrorsReported'
    BY <1>1, <1>3, <2>1, <2>3 DEF gsRest, HooksRunOnce, ExitWaits, CrashIsLate, ErrorsReported, AllDone, HooksUntouched
  <2> QED BY <2>2, <2>4, <2>5, <2>6
<1> QED BY <1>2, <1>3

\* The hooks are as they were added until the caller that counted them starts them.
LEMMA HooksAreStarted ==
    ASSUME GsInv, NEW c \in ShutdownCallers, MakeErrorChan(c) \/ StartHooks(c) PROVE GsInv'
<1> USE DEF GsInv, GsTyped, GsTypeOK, ShutdownCallers, Lives
<1>1. gsAt[c] \in {"counting", "starting"} /\ gsProcess = "up"
  BY DEF MakeErrorChan, StartHooks
<1>2. /\ gsStarted /\ gsRange = {} /\ gsErrors = 0 /\ gsFailed = {} /\ ~gsClosed
      /\ \A h \in Hooks : gsHook[h] = "none" /\ gsRuns[h] = 0
  BY <1>1 DEF OneShutdown, HooksUntouched
<1>3. \A d \in ShutdownCallers : d # c => gsAt[d] \in {"idle", "returned"}
  BY <1>1 DEF OneShutdown, Running
<1>4. CASE MakeErrorChan(c) /\ gsHooks = {}
  <2>1. gsAt' = [gsAt EXCEPT ![c] = "returned"] /\ gsProcess' = (IF c = "wait" THEN "exited" ELSE "up")
        /\ UNCHANGED <<gsHooks, gsStarted, gsRest>>
    BY <1>1, <1>4 DEF MakeErrorChan, EndsCall, Moves, gsRest
  <2>2. \A d \in ShutdownCallers : gsAt'[d] = (IF d = c THEN "returned" ELSE gsAt[d])
    BY <2>1
  <2>3. GsTyped'
    BY <2>1 DEF gsRest
  <2>4. OneShutdown' /\ HooksUntouched' /\ HooksOfRange'
    BY <1>2, <1>3, <2>1, <2>2 DEF gsRest, OneShutdown, HooksUntouched, HooksOfRange, Running
  <2>5. ClosedInTime' /\ ErrorsCounted' /\ ExitWaits'
    BY <1>2, <1>3, <2>1, <2>2 DEF gsRest, ClosedInTime, ErrorsCounted, ExitWaits, AllDone
  <2>6. HooksRunOnce' /\ CrashIsLate' /\ ErrorsReported'
    BY <1>2, <2>1 DEF gsRest, HooksRunOnce, CrashIsLate, ErrorsReported
  <2> QED BY <2>3, <2>4, <2>5, <2>6
<1>5. CASE MakeErrorChan(c) /\ gsHooks # {}
  <2>1. gsAt' = [gsAt EXCEPT ![c] = "starting"] /\ gsCap' = Cardinality(gsHooks)
        /\ UNCHANGED <<gsProcess, gsHooks, gsStarted, gsRange, gsHook, gsErrors, gsClosed, gsExpired, gsRuns, gsFailed, gsLogged>>
    BY <1>5 DEF MakeErrorChan, Moves
  <2>2. \A d \in ShutdownCallers : gsAt'[d] = (IF d = c THEN "starting" ELSE gsAt[d])
    BY <2>1
  <2>3. gsCap' \in Nat
    BY <2>1, HooksAssumption, FS_Subset, FS_CardinalityType
  <2>4. GsTyped'
    BY <1>2, <2>1, <2>3
  <2>5. OneShutdown' /\ HooksUntouched' /\ HooksOfRange'
    BY <1>1, <1>2, <1>3, <2>1, <2>2 DEF OneShutdown, HooksUntouched, HooksOfRange, Running
  <2>6. ClosedInTime' /\ ErrorsCounted' /\ ExitWaits'
    BY <1>1, <1>2, <1>3, <2>1, <2>2 DEF ClosedInTime, ErrorsCounted, ExitWaits, AllDone
  <2>7. HooksRunOnce' /\ CrashIsLate' /\ ErrorsReported'
    BY <1>1, <1>2, <2>1 DEF HooksRunOnce, CrashIsLate, ErrorsReported
  <2> QED BY <2>4, <2>5, <2>6, <2>7
<1>6. CASE StartHooks(c)
  <2>1. /\ gsAt[c] = "starting" /\ gsAt' = [gsAt EXCEPT ![c] = "waiting"] /\ gsRange' = gsHooks
        /\ gsHook' = [h \in Hooks |-> IF h \in gsHooks THEN "running" ELSE gsHook[h]]
        /\ gsRuns' = [h \in Hooks |-> IF h \in gsHooks THEN gsRuns[h] + 1 ELSE gsRuns[h]]
        /\ UNCHANGED <<gsHooks, gsStarted, gsCap, gsErrors, gsClosed, gsExpired, gsProcess, gsFailed, gsLogged>>
    BY <1>6 DEF StartHooks, Moves
  <2>2. \A d \in ShutdownCallers : gsAt'[d] = (IF d = c THEN "waiting" ELSE gsAt[d])
    BY <2>1
  <2>3. \A h \in Hooks : gsHook'[h] = (IF h \in gsHooks THEN "running" ELSE "none")
                         /\ gsRuns'[h] = (IF h \in gsHooks THEN 1 ELSE 0)
    BY <1>2, <2>1
  <2>4. gsRuns' \in [Hooks -> Nat] /\ gsHook' \in [Hooks -> {"none", "running", "sending", "done"}]
    BY <2>1
  <2>5. GsTyped'
    BY <1>2, <2>1, <2>4
  <2>6. OneShutdown' /\ HooksUntouched' /\ HooksOfRange'
    BY <1>2, <1>3, <2>1, <2>2, <2>3 DEF OneShutdown, HooksUntouched, HooksOfRange, Running
  <2>7. ClosedInTime' /\ ExitWaits'
    BY <1>1, <1>2, <1>3, <2>1, <2>2 DEF ClosedInTime, ExitWaits, Running
  <2>8. ErrorsCounted'
    <3>1. FailedAndSent' = {}
      BY <1>2, <2>1 DEF FailedAndSent
    <3>2. \A d \in ShutdownCallers : gsAt'[d] # "reporting"
      BY <1>3, <2>2
    <3> QED BY <1>2, <2>1, <3>1, <3>2, FS_EmptySet DEF ErrorsCounted
  <2>9. HooksRunOnce' /\ CrashIsLate' /\ ErrorsReported'
    BY <1>1, <1>2, <2>1, <2>3 DEF HooksRunOnce, CrashIsLate, ErrorsReported
  <2> QED BY <2>5, <2>6, <2>7, <2>8, <2>9
<1> QED BY <1>4, <1>5, <1>6

\* What a hook does is seen by the channel and the wait group only.
LEMMA HookReturns == ASSUME GsInv, NEW h \in Hooks, HookSucceeds(h) \/ HookFails(h) PROVE GsInv'
<1> USE DEF GsInv, GsTyped, GsTypeOK, Lives
<1>1. gsHook[h] = "running" /\ gsProcess = "up" /\ h \in gsRange
      /\ UNCHANGED <<gsHooks, gsStarted, gsAt, gsCap, gsRange, gsClosed, gsExpired, gsRuns, gsLogged>>
  BY DEF HookSucceeds, HookFails, HooksOfRange
<1>2. h \notin gsFailed /\ ~AllDone
  BY <1>1 DEF HooksOfRange, AllDone
<1>3. OneShutdown'
  BY <1>1 DEF OneShutdown, Running
<1>4. ~(~gsStarted \/ \E c \in ShutdownCallers : gsAt[c] \in {"counting", "starting"})
  BY <1>1 DEF HooksUntouched
<1>5. HooksUntouched' /\ HooksRunOnce'
  BY <1>1, <1>4 DEF HooksUntouched, HooksRunOnce
<1>6. gsClosed \/ (gsStarted /\ \A c \in ShutdownCallers : ~Running(c)) => gsExpired
  BY <1>2 DEF ClosedInTime
<1>7. ClosedInTime'
  BY <1>1, <1>6 DEF ClosedInTime, Running
<1>8. gsClosed => gsExpired
  BY <1>6
<1>9. ErrorsReported'
  BY <1>1, <1>8 DEF ErrorsReported
<1>10. IsFiniteSet(FailedAndSent)
  BY HooksAssumption, FS_Subset DEF FailedAndSent
<1>11. ASSUME NEW c \in ShutdownCallers, gsAt[c] = "reporting" PROVE gsExpired
  BY <1>8, <1>11 DEF ClosedInTime
<1>12. CASE HookSucceeds(h)
  <2>1. gsHook' = [gsHook EXCEPT ![h] = "done"] /\ UNCHANGED <<gsErrors, gsProcess, gsFailed>>
    BY <1>12 DEF HookSucceeds
  <2>2. FailedAndSent' = FailedAndSent
    BY <1>2, <2>1 DEF FailedAndSent
  <2>3. GsTyped' /\ HooksOfRange'
    BY <1>1, <2>1 DEF HooksOfRange
  <2>4. ErrorsCounted'
    BY <1>1, <1>11, <2>1, <2>2 DEF ErrorsCounted
  <2>5. ExitWaits' /\ CrashIsLate'
    BY <1>1, <2>1 DEF ExitWaits, CrashIsLate
  <2> QED BY <1>3, <1>5, <1>7, <1>9, <2>3, <2>4, <2>5
<1>13. CASE HookFails(h)
  <2>1. gsFailed' = gsFailed \cup {h}
    BY <1>13 DEF HookFails
  <2>2. CASE gsClosed
    <3>1. gsProcess' = "crashed" /\ UNCHANGED <<gsHook, gsErrors>>
      BY <1>13, <2>2 DEF HookFails
    <3>2. ~AllDone' /\ gsExpired'
      BY <1>1, <1>2, <1>8, <2>2, <3>1 DEF AllDone
    <3>3. GsTyped' /\ HooksOfRange' /\ ErrorsCounted' /\ ExitWaits' /\ CrashIsLate'
      BY <1>1, <2>1, <3>1, <3>2 DEF HooksOfRange, ErrorsCounted, ExitWaits, CrashIsLate
    <3> QED BY <1>3, <1>5, <1>7, <1>9, <3>3
  <2>3. CASE ~gsClosed /\ gsErrors < gsCap
    <3>1. gsHook' = [gsHook EXCEPT ![h] = "done"] /\ gsErrors' = gsErrors + 1 /\ gsProcess' = gsProcess
      BY <1>13, <2>3 DEF HookFails
    <3>2. FailedAndSent' = FailedAndSent \cup {h} /\ h \notin FailedAndSent
      BY <1>2, <2>1, <3>1 DEF FailedAndSent
    <3>3. Cardinality(FailedAndSent') = Cardinality(FailedAndSent) + 1
      BY <1>10, <3>2, FS_AddElement
    <3>4. ErrorsCounted'
      BY <1>1, <1>11, <3>1, <3>3 DEF ErrorsCounted
    <3>5. GsTyped' /\ HooksOfRange' /\ ExitWaits' /\ CrashIsLate'
      BY <1>1, <2>1, <2>3, <3>1 DEF HooksOfRange, ExitWaits, CrashIsLate
    <3> QED BY <1>3, <1>5, <1>7, <1>9, <3>4, <3>5
  <2>4. CASE ~gsClosed /\ ~(gsErrors < gsCap)
    <3>1. gsHook' = [gsHook EXCEPT ![h] = "sending"] /\ UNCHANGED <<gsErrors, gsProcess>>
      BY <1>13, <2>4 DEF HookFails
    <3>2. FailedAndSent' = FailedAndSent
      BY <1>2, <2>1, <3>1 DEF FailedAndSent
    <3>3. ErrorsCounted'
      BY <1>1, <1>11, <3>1, <3>2 DEF ErrorsCounted
    <3>4. GsTyped' /\ HooksOfRange' /\ ExitWaits' /\ CrashIsLate'
      BY <1>1, <2>1, <3>1 DEF HooksOfRange, ExitWaits, CrashIsLate
    <3> QED BY <1>3, <1>5, <1>7, <1>9, <3>3, <3>4
  <2> QED BY <2>2, <2>3, <2>4
<1> QED BY <1>12, <1>13

\* The channel is closed when all hooks are done or the time is over, and then emptied.
LEMMA ChannelIsClosed ==
    ASSUME GsInv, NEW c \in ShutdownCallers, CloseErrorChan(c) \/ ReportErrors(c) PROVE GsInv'
<1> USE DEF GsInv, GsTyped, GsTypeOK, ShutdownCallers, Lives
<1>1. gsAt[c] \in {"waiting", "reporting"} /\ gsProcess = "up"
      /\ UNCHANGED <<gsHooks, gsStarted, gsCap, gsRange, gsHook, gsExpired, gsRuns, gsFailed>>
  BY DEF CloseErrorChan, ReportErrors
<1>2. \A d \in ShutdownCallers : d # c => gsAt[d] \in {"idle", "returned"}
  BY <1>1 DEF OneShutdown, Running
<1>3. gsStarted /\ AllDone' = AllDone /\ FailedAndSent' = FailedAndSent
  BY <1>1 DEF OneShutdown, AllDone, FailedAndSent
<1>4. CASE CloseErrorChan(c)
  <2>1. /\ gsAt[c] = "waiting" /\ (AllDone \/ gsExpired) /\ gsAt' = [gsAt EXCEPT ![c] = "reporting"]
        /\ gsClosed' = TRUE /\ UNCHANGED <<gsErrors, gsLogged>>
        /\ gsProcess' = (IF \E h \in gsRange : gsHook[h] = "sending" THEN "crashed" ELSE "up")
    BY <1>4 DEF CloseErrorChan, Moves
  <2>2. \A d \in ShutdownCallers : gsAt'[d] = (IF d = c THEN "reporting" ELSE gsAt[d])
    BY <2>1
  <2>3. GsTyped' /\ HooksOfRange' /\ HooksRunOnce'
    BY <1>1, <2>1 DEF HooksOfRange, HooksRunOnce
  <2>4. OneShutdown' /\ HooksUntouched'
    BY <1>1, <1>2, <1>3, <2>2 DEF OneShutdown, HooksUntouched, Running
  <2>5. ClosedInTime'
    BY <1>1, <1>2, <1>3, <2>1, <2>2 DEF ClosedInTime
  <2>6. ExitWaits' /\ CrashIsLate'
    <3>1. gsProcess' = "crashed" => ~AllDone
      BY <2>1 DEF AllDone
    <3> QED BY <1>1, <1>3, <2>1, <3>1 DEF ExitWaits, CrashIsLate
  <2>7. ErrorsReported'
    BY <2>2 DEF ErrorsReported
  <2>8. ErrorsCounted'
    <3>1. gsErrors = Cardinality(FailedAndSent)
      BY <1>1, <2>1 DEF ErrorsCounted
    <3>2. AllDone => FailedAndSent = gsFailed
      BY <1>1 DEF HooksOfRange, AllDone, FailedAndSent
    <3>3. \A d \in ShutdownCallers : gsAt'[d] # "waiting"
      BY <1>2, <2>2
    <3> QED BY <1>1, <2>1, <3>1, <3>2, <3>3 DEF ErrorsCounted
  <2> QED BY <2>3, <2>4, <2>5, <2>6, <2>7, <2>8
<1>5. CASE ReportErrors(c)
  <2>1. /\ gsAt[c] = "reporting" /\ gsAt' = [gsAt EXCEPT ![c] = "returned"]
        /\ gsProcess' = (IF c = "wait" THEN "exited" ELSE "up")
        /\ gsLogged' = gsErrors /\ gsErrors' = 0 /\ gsClosed' = gsClosed
    BY <1>1, <1>5 DEF ReportErrors, EndsCall, Moves
  <2>2. \A d \in ShutdownCallers : gsAt'[d] = (IF d = c THEN "returned" ELSE gsAt[d])
    BY <2>1
  <2>3. gsClosed /\ (AllDone \/ gsExpired)
    BY <2>1 DEF ClosedInTime
  <2>4. GsTyped' /\ HooksOfRange' /\ HooksRunOnce'
    BY <1>1, <2>1 DEF HooksOfRange, HooksRunOnce
  <2>5. OneShutdown' /\ HooksUntouched'
    BY <1>1, <1>2, <1>3, <2>2 DEF OneShutdown, HooksUntouched, Running
  <2>6. ClosedInTime' /\ ExitWaits' /\ CrashIsLate'
    BY <1>1, <1>2, <1>3, <2>1, <2>2, <2>3 DEF ClosedInTime, ExitWaits, CrashIsLate
  <2>7. ErrorsReported'
    BY <1>1, <2>1 DEF ErrorsReported, ErrorsCounted
  <2>8. ErrorsCounted'
    BY <1>2, <2>2 DEF ErrorsCounted
  <2> QED BY <2>4, <2>5, <2>6, <2>7, <2>8
<1> QED BY <1>4, <1>5

\* Every step keeps the invariant; adding a hook late and the timeout touch no hook.
LEMMA ShutdownGoesOn == GsInv /\ [GsNext]_gsVars => GsInv'
<1> SUFFICES ASSUME GsInv, [GsNext]_gsVars PROVE GsInv'
  OBVIOUS
<1>1. ASSUME TimeoutExpires \/ (\E h \in Hooks : AddHook(h)) \/ UNCHANGED gsVars PROVE GsInv'
  <2> USE DEF GsInv, GsTyped, GsTypeOK
  <2>1. /\ gsHooks \subseteq gsHooks' /\ gsHooks' \subseteq Hooks /\ (gsExpired => gsExpired') /\ gsExpired' \in BOOLEAN
        /\ UNCHANGED <<gsStarted, gsAt, gsCap, gsRange, gsHook, gsErrors, gsClosed, gsProcess, gsRuns, gsFailed, gsLogged>>
    BY <1>1 DEF TimeoutExpires, AddHook, gsVars, gsRest
  <2>2. GsTyped' /\ OneShutdown' /\ HooksUntouched' /\ HooksOfRange' /\ HooksRunOnce'
    BY <2>1 DEF OneShutdown, HooksUntouched, HooksOfRange, HooksRunOnce, Running, Lives
  <2>3. ClosedInTime' /\ ExitWaits' /\ CrashIsLate'
    BY <2>1 DEF ClosedInTime, ExitWaits, CrashIsLate, AllDone, Running
  <2>4. ErrorsCounted' /\ ErrorsReported'
    BY <2>1 DEF ErrorsCounted, ErrorsReported, FailedAndSent, Lives
  <2> QED BY <2>2, <2>3, <2>4
<1>2. ASSUME NEW h \in Hooks, HookSucceeds(h) \/ HookFails(h) PROVE GsInv'
  BY <1>2, HookReturns
<1>3. ASSUME NEW c \in ShutdownCallers, InitiateShutdown(c) PROVE GsInv'
  BY <1>3, ShutdownIsInitiated
<1>4. ASSUME NEW c \in ShutdownCallers, MakeErrorChan(c) \/ StartHooks(c) PROVE GsInv'
  BY <1>4, HooksAreStarted
<1>5. ASSUME NEW c \in ShutdownCallers, CloseErrorChan(c) \/ ReportErrors(c) PROVE GsInv'
  BY <1>5, ChannelIsClosed
<1> QED BY <1>1, <1>2, <1>3, <1>4, <1>5 DEF GsNext

\* However signal, call, hooks and timeout overlap, with any number of hooks: each runs once, the
\* process waits for them, dies of none that is in time, and reports every one that failed.
THEOREM ShutdownIsGraceful == GsSpec => []GracefulSafety
<1>1. GsInv => GracefulSafety
  BY DEF GsInv, GracefulSafety
<1> QED BY <1>1, ShutdownStarts, ShutdownGoesOn, PTL DEF GsSpec

----------------------------------------------------------------------------
(***************************************************************************)
(* Registration and tenant management: a request's place says which of its   *)
(* saves are done, and a manager's copy is not older than what it says, or   *)
(* its save is refused.                                                    *)
(***************************************************************************)
RegistrationPlaces == {"email", "slug", "tenant", "user", "workspace", "done", "refused"}
UserType == [by : Registrants, status : {"pending", "active"}, version : Nat]
TenantType == [by : Registrants, slug : Slugs, status : {"active", "suspended"}, plan : {"free", "paid"},
               version : Nat]
UserCopy == [at : {"save user"}, of : Registrants, version : Nat]
TenantCopy == [at : {"save tenant"}, of : Registrants, version : Nat, status : {"active", "suspended"},
               plan : {"free", "paid"}]

RgTyped ==
    /\ rgUsers \subseteq UserType /\ rgTenants \subseteq TenantType /\ rgSpaces \subseteq Registrants
    /\ rgReq \in [Registrants -> [at : RegistrationPlaces, slug : Slugs]]
    /\ rgMgr \in [Managers -> {IdleManager} \cup UserCopy \cup TenantCopy]

HasTenant(r) == \E t \in rgTenants : t.by = r
HasUser(r) == \E u \in rgUsers : u.by = r
\* What a request has saved when it gets to a place.
SavedOnTheWay ==
    \A r \in Registrants :
        /\ rgReq[r].at \in {"email", "slug", "tenant"} => ~HasTenant(r) /\ ~HasUser(r)
        /\ rgReq[r].at \in {"user", "workspace", "done"} => HasTenant(r)
        /\ rgReq[r].at = "user" => ~HasUser(r)
        /\ rgReq[r].at \in {"workspace", "done"} => HasUser(r)
        /\ rgReq[r].at = "done" => r \in rgSpaces
\* Who passed the check of the e-mail address had seen none of those who have the same.
CheckedBlind ==
    \A r, o \in Registrants :
        /\ r # o /\ EmailOf[r] = EmailOf[o]
        /\ rgReq[r].at \in {"slug", "tenant", "user", "workspace", "done"} \/ HasUser(r)
        => <<r, o>> \in rgBlind
OneTenantEach == \A t, s \in rgTenants : t.by = s.by => t = s
\* A copy is of a tenant that was active when it was loaded, and is saved over that version only.
CopiesAreOld ==
    \A g \in Managers : rgMgr[g].at = "save tenant" =>
        /\ HasTenant(rgMgr[g].of)
        /\ \A t \in rgTenants : t.by = rgMgr[g].of =>
              /\ rgMgr[g].version <= t.version
              /\ rgMgr[g].version = t.version => t.status = "active"
HeldAreTenants == \A r \in rgHeld : HasTenant(r)

RgIInv ==
    /\ RgTyped /\ SavedOnTheWay /\ CheckedBlind /\ OneTenantEach /\ CopiesAreOld /\ HeldAreTenants
    /\ NothingDangles /\ SuspensionHolds

\* Before the first request nothing is saved.
LEMMA RgInitially == RgInit => RgIInv
<1> SUFFICES ASSUME RgInit PROVE RgIInv
  OBVIOUS
<1>1. RgTyped
  BY RegistrationAssumption DEF RgInit, RgTyped, RegistrationPlaces, Slugs
<1>2. \A g \in Managers : rgMgr[g].at = "idle"
  BY DEF RgInit, IdleManager
<1> QED BY <1>1, <1>2 DEF RgInit, RgIInv, SavedOnTheWay, CheckedBlind, OneTenantEach, CopiesAreOld, HeldAreTenants,
            NothingDangles, SuspensionHolds, HasTenant, HasUser

\* A request that ends or goes on without a save.
LEMMA RegistrationGoes ==
    ASSUME RgIInv, NEW r \in Registrants, NEW at, NEW slug \in Slugs,
           rgReq' = [rgReq EXCEPT ![r] = [at |-> at, slug |-> slug]],
           at = "refused" \/ <<rgReq[r].at, at>> \in {<<"email", "slug">>, <<"slug", "slug">>, <<"slug", "tenant">>},
           UNCHANGED <<rgUsers, rgTenants, rgSpaces, rgMgr, rgHeld>>,
           rgBlind \subseteq rgBlind',
           rgReq[r].at = "email" /\ at = "slug" =>
               \A o \in Registrants \ {r} : EmailOf[o] = EmailOf[r] => <<r, o>> \in rgBlind'
    PROVE  RgIInv'
<1> USE DEF RgIInv, RgTyped
<1>1. /\ rgReq'[r].at = at /\ \A s \in Registrants \ {r} : rgReq'[s] = rgReq[s]
      /\ RgTyped'
  BY DEF RegistrationPlaces
<1>2. \A s \in Registrants : HasTenant(s)' = HasTenant(s) /\ HasUser(s)' = HasUser(s)
  BY DEF HasTenant, HasUser
<1>3. SavedOnTheWay'
  BY <1>1, <1>2 DEF SavedOnTheWay
<1>4. CheckedBlind'
  BY <1>1, <1>2 DEF CheckedBlind
<1>5. OneTenantEach' /\ CopiesAreOld' /\ HeldAreTenants' /\ NothingDangles' /\ SuspensionHolds'
  BY DEF OneTenantEach, CopiesAreOld, HeldAreTenants, NothingDangles, SuspensionHolds, HasTenant
<1> QED BY <1>1, <1>3, <1>4, <1>5

\* The steps of a registration before its first save, and any refusal.
LEMMA ChecksMove ==
    ASSUME RgIInv, NEW r \in Registrants,
           ExistsByEmail(r) \/ EnsureUniqueSlug(r)
    PROVE  RgIInv'
<1> DEFINE slug == rgReq[r].slug
<1>1. rgReq[r] \in [at : RegistrationPlaces, slug : Slugs] /\ rgReq \in [Registrants -> [at : RegistrationPlaces, slug : Slugs]]
  BY DEF RgIInv, RgTyped
<1>2. \A at : Then(r, at) => rgReq' = [rgReq EXCEPT ![r] = [at |-> at, slug |-> slug]]
  BY <1>1 DEF Then
<1>3. CASE ExistsByEmail(r)
  <2>1. UNCHANGED <<rgUsers, rgTenants, rgSpaces, rgMgr, rgHeld>> /\ rgReq[r].at = "email"
    BY <1>3 DEF ExistsByEmail
  <2>2. CASE /\ Then(r, "slug")
             /\ rgBlind' = rgBlind \cup {<<r, o>> : o \in {o \in Registrants \ {r} : EmailOf[o] = EmailOf[r]}}
    BY <1>1, <1>2, <2>1, <2>2, RegistrationGoes
  <2>3. CASE Then(r, "refused") /\ UNCHANGED rgBlind
    BY <1>1, <1>2, <2>1, <2>3, RegistrationGoes
  <2> QED BY <1>3, <2>2, <2>3 DEF ExistsByEmail, RegistrationRefused
<1>4. CASE EnsureUniqueSlug(r)
  <2>1. UNCHANGED <<rgUsers, rgTenants, rgSpaces, rgMgr, rgHeld, rgBlind>> /\ rgReq[r].at = "slug"
    BY <1>4 DEF EnsureUniqueSlug
  <2>2. CASE Then(r, "tenant")
    BY <1>1, <1>2, <2>1, <2>2, RegistrationGoes
  <2>3. CASE Then(r, "refused")
    BY <1>1, <1>2, <2>1, <2>3, RegistrationGoes
  <2>4. CASE slug[2] # MaxSlugs /\ rgReq' = [rgReq EXCEPT ![r].slug = <<slug[1], slug[2] + 1>>]
    <3> DEFINE next == <<slug[1], slug[2] + 1>>
    <3>1. next \in Slugs
      <4>1. slug[1] \in {SlugOf[q] : q \in Registrants} /\ slug[2] \in 0 .. MaxSlugs
        BY <1>1 DEF Slugs
      <4>2. slug[2] + 1 \in 0 .. MaxSlugs
        BY <2>4, <4>1, RegistrationAssumption
      <4> QED BY <4>1, <4>2 DEF Slugs
    <3>2. rgReq' = [rgReq EXCEPT ![r] = [at |-> "slug", slug |-> next]]
      <4>1. [rgReq[r] EXCEPT !.slug = next] = [at |-> "slug", slug |-> next]
        BY <1>1, <2>1
      <4> HIDE DEF next
      <4>2. rgReq' = [rgReq EXCEPT ![r] = [rgReq[r] EXCEPT !.slug = next]]
        BY <2>4 DEF next
      <4> QED BY <4>1, <4>2
    <3> HIDE DEF next
    <3> QED BY <2>1, <3>1, <3>2, RegistrationGoes
  <2> QED BY <1>4, <2>2, <2>3, <2>4 DEF EnsureUniqueSlug, RegistrationRefused
<1> QED BY <1>3, <1>4

\* A save of a registration: of its tenant, its user or its workspace.
LEMMA SavesMove ==
    ASSUME RgIInv, NEW r \in Registrants, SaveTenant(r) \/ SaveUser(r) \/ SaveWorkspace(r)
    PROVE  RgIInv'
<1> USE DEF RgIInv, RgTyped
<1> DEFINE slug == rgReq[r].slug
<1>1. rgReq[r] \in [at : RegistrationPlaces, slug : Slugs]
  OBVIOUS
<1>2. \A at : Then(r, at) => /\ rgReq' = [rgReq EXCEPT ![r] = [at |-> at, slug |-> slug]]
                             /\ rgReq'[r].at = at /\ \A s \in Registrants \ {r} : rgReq'[s] = rgReq[s]
  BY <1>1 DEF Then
<1>3. UNCHANGED <<rgMgr, rgBlind, rgHeld>>
  BY DEF SaveTenant, SaveUser, SaveWorkspace
<1>4. CASE Then(r, "refused") /\ UNCHANGED <<rgUsers, rgTenants, rgSpaces>>
  BY <1>1, <1>2, <1>3, <1>4, RegistrationGoes
<1>5. CASE /\ rgReq[r].at = "tenant" /\ Then(r, "user") /\ UNCHANGED <<rgUsers, rgSpaces>>
           /\ rgTenants' = rgTenants \cup
                {[by |-> r, slug |-> rgReq[r].slug, status |-> "active", plan |-> "free", version |-> 1]}
  <2> DEFINE new == [by |-> r, slug |-> slug, status |-> "active", plan |-> "free", version |-> 1]
  <2>1. /\ rgReq[r].at = "tenant" /\ Then(r, "user") /\ rgTenants' = rgTenants \cup {new}
        /\ UNCHANGED <<rgUsers, rgSpaces>>
    BY <1>5
  <2>2. new \in TenantType /\ new.by = r
    BY <1>1 DEF TenantType
  <2> HIDE DEF new
  <2>3. ~HasTenant(r) /\ ~HasUser(r)
    BY <2>1 DEF SavedOnTheWay
  <2>4. \A s \in Registrants : HasTenant(s)' = (HasTenant(s) \/ s = r) /\ HasUser(s)' = HasUser(s)
    BY <2>1, <2>2 DEF HasTenant, HasUser
  <2>5. RgTyped'
    BY <1>2, <1>3, <2>1, <2>2 DEF RegistrationPlaces
  <2>6. SavedOnTheWay'
    <3>1. rgReq'[r].at = "user" /\ \A s \in Registrants \ {r} : rgReq'[s] = rgReq[s]
      BY <1>2, <2>1
    <3>2. /\ rgReq[r].at \notin {"user", "workspace", "done"} \/ HasTenant(r)
          /\ rgSpaces' = rgSpaces
      BY <2>1, <2>3
    <3> QED BY <2>3, <2>4, <3>1, <3>2 DEF SavedOnTheWay
  <2>7. CheckedBlind'
    BY <1>2, <1>3, <2>1, <2>4 DEF CheckedBlind
  <2>8. OneTenantEach'
    BY <2>1, <2>2, <2>3 DEF OneTenantEach, HasTenant
  <2>9. CopiesAreOld'
    <3>1. \A g \in Managers : rgMgr[g].at = "save tenant" => rgMgr[g].of # r
      BY <2>3 DEF CopiesAreOld
    <3> QED BY <1>3, <2>1, <2>2, <3>1 DEF CopiesAreOld, HasTenant
  <2>10. HeldAreTenants' /\ SuspensionHolds'
    <3>1. r \notin rgHeld
      BY <2>3 DEF HeldAreTenants
    <3> QED BY <1>3, <2>1, <2>2, <3>1 DEF HeldAreTenants, SuspensionHolds, HasTenant
  <2>11. NothingDangles'
    BY <2>1 DEF NothingDangles
  <2> QED BY <2>5, <2>6, <2>7, <2>8, <2>9, <2>10, <2>11
<1>6. CASE /\ rgReq[r].at = "user" /\ Then(r, "workspace") /\ UNCHANGED <<rgTenants, rgSpaces>>
           /\ rgUsers' = rgUsers \cup {[by |-> r, status |-> "pending", version |-> 1]}
  <2> DEFINE new == [by |-> r, status |-> "pending", version |-> 1]
  <2>1. /\ rgReq[r].at = "user" /\ Then(r, "workspace") /\ rgUsers' = rgUsers \cup {new}
        /\ UNCHANGED <<rgTenants, rgSpaces>>
    BY <1>6
  <2>2. new \in UserType /\ new.by = r
    BY DEF UserType
  <2> HIDE DEF new
  <2>3. HasTenant(r) /\ ~HasUser(r)
    BY <2>1 DEF SavedOnTheWay
  <2>4. \A s \in Registrants : HasTenant(s)' = HasTenant(s) /\ HasUser(s)' = (HasUser(s) \/ s = r)
    BY <2>1, <2>2 DEF HasTenant, HasUser
  <2>5. RgTyped'
    BY <1>2, <1>3, <2>1, <2>2 DEF RegistrationPlaces
  <2>6. SavedOnTheWay'
    <3>1. rgReq'[r].at = "workspace" /\ \A s \in Registrants \ {r} : rgReq'[s] = rgReq[s]
      BY <1>2, <2>1
    <3>2. /\ rgReq[r].at \notin {"user", "workspace", "done"} \/ HasTenant(r)
          /\ rgSpaces' = rgSpaces
      BY <2>1, <2>3
    <3> QED BY <2>3, <2>4, <3>1, <3>2 DEF SavedOnTheWay
  <2>7. CheckedBlind'
    BY <1>2, <1>3, <2>1, <2>4 DEF CheckedBlind
  <2>8. OneTenantEach' /\ CopiesAreOld' /\ HeldAreTenants' /\ SuspensionHolds'
    BY <1>3, <2>1 DEF OneTenantEach, CopiesAreOld, HeldAreTenants, SuspensionHolds, HasTenant
  <2>9. NothingDangles'
    BY <2>1, <2>2, <2>3 DEF NothingDangles, HasTenant
  <2> QED BY <2>5, <2>6, <2>7, <2>8, <2>9
<1>7. CASE /\ rgReq[r].at = "workspace" /\ Then(r, "done") /\ rgSpaces' = rgSpaces \cup {r}
           /\ UNCHANGED <<rgTenants, rgUsers>>
  <2>1. /\ rgReq[r].at = "workspace" /\ Then(r, "done") /\ rgSpaces' = rgSpaces \cup {r}
        /\ UNCHANGED <<rgTenants, rgUsers>>
    BY <1>7
  <2>2. HasTenant(r) /\ HasUser(r)
    BY <2>1 DEF SavedOnTheWay
  <2>3. \A s \in Registrants : HasTenant(s)' = HasTenant(s) /\ HasUser(s)' = HasUser(s)
    BY <2>1 DEF HasTenant, HasUser
  <2>4. RgTyped'
    BY <1>2, <1>3, <2>1 DEF RegistrationPlaces
  <2>5. SavedOnTheWay' /\ CheckedBlind'
    BY <1>2, <1>3, <2>1, <2>2, <2>3 DEF SavedOnTheWay, CheckedBlind
  <2>6. OneTenantEach' /\ CopiesAreOld' /\ HeldAreTenants' /\ SuspensionHolds'
    BY <1>3, <2>1 DEF OneTenantEach, CopiesAreOld, HeldAreTenants, SuspensionHolds, HasTenant
  <2>7. NothingDangles'
    BY <2>1, <2>2 DEF NothingDangles, HasUser
  <2> QED BY <2>4, <2>5, <2>6, <2>7
<1> QED BY <1>4, <1>5, <1>6, <1>7 DEF SaveTenant, SaveUser, SaveWorkspace, RegistrationRefused

\* A version that is not beyond one is not the one after that.
LEMMA AfterLater == \A i, j \in Nat : i <= j => i <= j + 1 /\ i # j + 1
OBVIOUS

\* What the rows become that are saved over their last version.
NewUser(u) == [u EXCEPT !.status = "active", !.version = @ + 1]
NewTenant(t, status, plan) == [t EXCEPT !.status = status, !.plan = plan, !.version = @ + 1]

\* The new row of a user is one of the same registrant.
LEMMA UserVersions == ASSUME NEW u \in UserType PROVE NewUser(u) \in UserType /\ NewUser(u).by = u.by
<1> DEFINE v == u.version + 1
<1>1. v \in Nat
  BY DEF UserType
<1> HIDE DEF v
<1> DEFINE n == [u EXCEPT !.status = "active", !.version = v]
<1>2. n \in UserType /\ n.by = u.by
  BY <1>1 DEF UserType
<1>3. n = NewUser(u)
  BY DEF v, NewUser
<1> QED BY <1>2, <1>3

\* The new row of a tenant has the next version.
LEMMA TenantVersions ==
    ASSUME NEW t \in TenantType, NEW status \in {"active", "suspended"}, NEW plan \in {"free", "paid"}
    PROVE  /\ NewTenant(t, status, plan) \in TenantType /\ NewTenant(t, status, plan).by = t.by
           /\ NewTenant(t, status, plan).status = status
           /\ NewTenant(t, status, plan).version = t.version + 1 /\ t.version \in Nat
<1> DEFINE v == t.version + 1
<1>1. v \in Nat /\ t.version \in Nat
  BY DEF TenantType
<1> HIDE DEF v
<1> DEFINE n == [t EXCEPT !.status = status, !.plan = plan, !.version = v]
<1>2. n \in TenantType /\ n.by = t.by /\ n.status = status /\ n.version = v
  BY <1>1 DEF TenantType
<1>3. n = NewTenant(t, status, plan)
  BY DEF v, NewTenant
<1> HIDE DEF n
<1> QED BY <1>1, <1>2, <1>3 DEF v

\* Which of the records a manager may hold is told by its place.
LEMMA CopiesKnown ==
    ASSUME NEW x \in {IdleManager} \cup UserCopy \cup TenantCopy
    PROVE  /\ x.at = "save tenant" <=> x \in TenantCopy
           /\ x \in TenantCopy => /\ x.version \in Nat /\ x.of \in Registrants
                                  /\ x.status \in {"active", "suspended"} /\ x.plan \in {"free", "paid"}
           /\ IdleManager.at = "idle"
<1>1. IdleManager.at = "idle"
  BY DEF IdleManager
<1>2. \A y \in UserCopy : y.at = "save user"
  BY DEF UserCopy
<1>3. \A y \in TenantCopy : /\ y.at = "save tenant" /\ y.version \in Nat /\ y.of \in Registrants
                           /\ y.status \in {"active", "suspended"} /\ y.plan \in {"free", "paid"}
  BY DEF TenantCopy
<1> QED BY <1>1, <1>2, <1>3

\* What a manager loads is a copy of what is saved.
LEMMA LoadsMove ==
    ASSUME RgIInv, NEW g \in Managers,
           ActivateUser(g) \/ ChangeSubscription(g) \/ SuspendTenant(g) \/ ReactivateTenant(g),
           UNCHANGED <<rgSpaces, rgReq, rgBlind>>
    PROVE  RgIInv'
<1> USE DEF RgIInv, RgTyped
<1>1. UNCHANGED <<rgUsers, rgTenants, rgHeld>>
  BY DEF ActivateUser, ChangeSubscription, SuspendTenant, ReactivateTenant, Loads
<1>2. \A s \in Registrants : HasTenant(s)' = HasTenant(s) /\ HasUser(s)' = HasUser(s)
  BY <1>1 DEF HasTenant, HasUser
<1>3. SavedOnTheWay' /\ CheckedBlind' /\ OneTenantEach' /\ HeldAreTenants' /\ NothingDangles' /\ SuspensionHolds'
  BY <1>1, <1>2 DEF SavedOnTheWay, CheckedBlind, OneTenantEach, HeldAreTenants, NothingDangles, SuspensionHolds, HasTenant
<1>4. ASSUME NEW copy \in UserCopy \cup TenantCopy, rgMgr' = [rgMgr EXCEPT ![g] = copy],
             copy \in TenantCopy => \E t \in rgTenants : /\ t.by = copy.of /\ t.version = copy.version
                                                        /\ t.status = "active"
      PROVE  RgIInv'
  <2>1. rgMgr'[g] = copy /\ \A h \in Managers \ {g} : rgMgr'[h] = rgMgr[h]
    BY <1>4
  <2>2. RgTyped'
    BY <1>1, <1>4
  <2>3. copy.at = "save tenant" => copy \in TenantCopy
    BY CopiesKnown
  <2>4. copy \in TenantCopy => /\ HasTenant(copy.of)
                               /\ \A t \in rgTenants : t.by = copy.of => copy.version <= t.version /\ t.status = "active"
    <3>1. \A t \in rgTenants : t.version <= t.version
      BY DEF TenantType
    <3> QED BY <1>4, <3>1 DEF OneTenantEach, HasTenant
  <2>5. CopiesAreOld'
    <3>1. \A h \in Managers \ {g} : rgMgr'[h].at = "save tenant" =>
              /\ HasTenant(rgMgr'[h].of)
              /\ \A t \in rgTenants : t.by = rgMgr'[h].of =>
                    /\ rgMgr'[h].version <= t.version
                    /\ rgMgr'[h].version = t.version => t.status = "active"
      BY <2>1 DEF CopiesAreOld
    <3>2. \A h \in Managers : rgMgr'[h].at = "save tenant" =>
              /\ HasTenant(rgMgr'[h].of)
              /\ \A t \in rgTenants : t.by = rgMgr'[h].of =>
                    /\ rgMgr'[h].version <= t.version
                    /\ rgMgr'[h].version = t.version => t.status = "active"
      BY <2>1, <2>3, <2>4, <3>1
    <3> QED BY <1>1, <3>2 DEF CopiesAreOld, HasTenant
  <2> QED BY <1>3, <2>2, <2>5
<1>5. CASE UNCHANGED rgMgr
  <2>1. CopiesAreOld'
    BY <1>1, <1>5 DEF CopiesAreOld, HasTenant
  <2> QED BY <1>1, <1>3, <1>5, <2>1
<1>6. CASE ActivateUser(g)
  <2>1. PICK u \in rgUsers : rgMgr' = [rgMgr EXCEPT ![g] = [at |-> "save user", of |-> u.by, version |-> u.version]]
    BY <1>6 DEF ActivateUser, Loads, Work
  <2> DEFINE copy == [at |-> "save user", of |-> u.by, version |-> u.version]
  <2>2. copy \in UserCopy /\ copy \notin TenantCopy
    BY DEF UserCopy, TenantCopy, UserType
  <2> HIDE DEF copy
  <2> QED BY <1>4, <2>1, <2>2 DEF copy
<1>7. ASSUME NEW t \in rgTenants, t.status = "active", NEW status \in {"active", "suspended"}, NEW plan \in {"free", "paid"},
             Loads(g, [at |-> "save tenant", of |-> t.by, version |-> t.version, status |-> status, plan |-> plan])
      PROVE  RgIInv'
  <2> DEFINE copy == [at |-> "save tenant", of |-> t.by, version |-> t.version, status |-> status, plan |-> plan]
  <2>1. copy \in TenantCopy /\ copy.of = t.by /\ copy.version = t.version
    BY DEF TenantCopy, TenantType
  <2>2. rgMgr' = [rgMgr EXCEPT ![g] = copy]
    BY <1>7 DEF Loads, Work
  <2> HIDE DEF copy
  <2> QED BY <1>4, <1>7, <2>1, <2>2
<1>8. \A t \in rgTenants : (t.status # "suspended" => t.status = "active") /\ t.plan \in {"free", "paid"}
  BY DEF TenantType
<1>9. CASE ChangeSubscription(g) \/ SuspendTenant(g)
  BY <1>7, <1>8, <1>9 DEF ChangeSubscription, SuspendTenant
<1> QED BY <1>5, <1>6, <1>9 DEF ReactivateTenant

\* A copy is saved over the version it was made of, or not at all.
LEMMA ChangesAreSaved ==
    ASSUME RgIInv, NEW g \in Managers, SaveChanges(g), UNCHANGED <<rgSpaces, rgReq, rgBlind>>
    PROVE  RgIInv'
<1> USE DEF RgIInv, RgTyped
<1> DEFINE c == rgMgr[g]
<1>1. /\ c.at \in {"save user", "save tenant"} /\ rgMgr' = [rgMgr EXCEPT ![g] = IdleManager]
      /\ rgMgr'[g].at = "idle" /\ \A h \in Managers \ {g} : rgMgr'[h] = rgMgr[h]
  <2>1. c.at \in {"save user", "save tenant"} /\ rgMgr' = [rgMgr EXCEPT ![g] = IdleManager]
    BY DEF SaveChanges, Work
  <2>2. IdleManager.at = "idle"
    BY DEF IdleManager
  <2> QED BY <2>1, <2>2
<1>2. CASE UNCHANGED <<rgUsers, rgTenants, rgHeld>>
  <2>1. \A s \in Registrants : HasTenant(s)' = HasTenant(s) /\ HasUser(s)' = HasUser(s)
    BY <1>2 DEF HasTenant, HasUser
  <2>2. SavedOnTheWay' /\ CheckedBlind' /\ OneTenantEach' /\ HeldAreTenants' /\ NothingDangles' /\ SuspensionHolds'
    BY <1>2, <2>1 DEF SavedOnTheWay, CheckedBlind, OneTenantEach, HeldAreTenants, NothingDangles, SuspensionHolds, HasTenant
  <2>3. CopiesAreOld'
    BY <1>1, <1>2 DEF CopiesAreOld, HasTenant
  <2> QED BY <1>1, <1>2, <2>2, <2>3
<1>3. ASSUME NEW u \in rgUsers, rgUsers' = (rgUsers \ {u}) \cup {[u EXCEPT !.status = "active", !.version = @ + 1]},
             UNCHANGED <<rgTenants, rgHeld>>
      PROVE  RgIInv'
  <2> DEFINE new == [u EXCEPT !.status = "active", !.version = @ + 1]
  <2>1. new \in UserType /\ new.by = u.by
    BY UserVersions DEF NewUser
  <2>2. rgUsers' = (rgUsers \ {u}) \cup {new}
    BY <1>3
  <2> HIDE DEF new
  <2>3. \A s \in Registrants : HasTenant(s)' = HasTenant(s) /\ HasUser(s)' = HasUser(s)
    BY <1>3, <2>1, <2>2 DEF HasTenant, HasUser
  <2>4. RgTyped'
    BY <1>1, <1>3, <2>1, <2>2
  <2>5. SavedOnTheWay' /\ CheckedBlind'
    BY <2>3 DEF SavedOnTheWay, CheckedBlind
  <2>6. OneTenantEach' /\ HeldAreTenants' /\ SuspensionHolds' /\ CopiesAreOld'
    BY <1>1, <1>3 DEF OneTenantEach, HeldAreTenants, SuspensionHolds, CopiesAreOld, HasTenant
  <2>7. NothingDangles'
    BY <1>3, <2>1, <2>2 DEF NothingDangles
  <2> QED BY <2>4, <2>5, <2>6, <2>7
<1>4. ASSUME NEW t \in rgTenants, t.by = c.of, t.version = c.version, c.at = "save tenant", UNCHANGED rgUsers,
             NEW new \in TenantType, new.by = t.by, new.status = c.status, new.version = t.version + 1,
             t.version \in Nat, rgTenants' = (rgTenants \ {t}) \cup {new},
             rgHeld' = IF c.status = "suspended" THEN rgHeld \cup {t.by} ELSE rgHeld
      PROVE  RgIInv'
  <2>1. new.by = t.by /\ new.status = c.status /\ new.version = t.version + 1 /\ t.version \in Nat
    BY <1>4
  <2>2. rgTenants' = (rgTenants \ {t}) \cup {new}
    BY <1>4
  <2> HIDE DEF c
  <2>3. \A s \in Registrants : HasTenant(s)' = HasTenant(s) /\ HasUser(s)' = HasUser(s)
    BY <1>4, <2>1, <2>2 DEF HasTenant, HasUser
  <2>4. RgTyped'
    BY <1>1, <1>4, <2>1, <2>2
  <2>5. SavedOnTheWay' /\ CheckedBlind'
    BY <2>3 DEF SavedOnTheWay, CheckedBlind
  <2>6. OneTenantEach'
    BY <2>1, <2>2 DEF OneTenantEach
  <2>7. HeldAreTenants'
    BY <1>4, <2>1, <2>2 DEF HeldAreTenants, HasTenant
  <2>8. NothingDangles'
    BY <1>4, <2>1, <2>2 DEF NothingDangles
  <2>9. t.status = "active"
    <3>1. t.version = c.version => t.status = "active"
      BY <1>4 DEF CopiesAreOld, c
    <3> QED BY <1>4, <3>1
  <2>10. SuspensionHolds'
    <3>1. t.by \notin rgHeld
      BY <2>9 DEF SuspensionHolds
    <3>2. \A s \in rgTenants : s.by = t.by => s = t
      BY DEF OneTenantEach
    <3> QED BY <1>4, <2>1, <2>2, <3>1, <3>2 DEF SuspensionHolds
  <2>11. CopiesAreOld'
    <3> SUFFICES ASSUME NEW h \in Managers, rgMgr'[h].at = "save tenant"
                 PROVE  /\ \E s \in rgTenants' : s.by = rgMgr'[h].of
                        /\ \A s \in rgTenants' : s.by = rgMgr'[h].of =>
                              /\ rgMgr'[h].version <= s.version
                              /\ rgMgr'[h].version = s.version => s.status = "active"
      BY DEF CopiesAreOld, HasTenant
    <3>1. h # g /\ rgMgr'[h] = rgMgr[h]
      BY <1>1
    <3>2. HasTenant(rgMgr[h].of)
      BY <3>1 DEF CopiesAreOld
    <3>3. \E s \in rgTenants' : s.by = rgMgr[h].of
      BY <2>1, <2>2, <3>2 DEF HasTenant
    <3>4. rgMgr[h].version \in Nat
      BY <3>1, CopiesKnown
    <3>5. t.by = rgMgr[h].of => rgMgr[h].version <= t.version
      BY <3>1 DEF CopiesAreOld
    <3>6. t.by = rgMgr[h].of => rgMgr[h].version <= new.version /\ rgMgr[h].version # new.version
      <4>1. CASE t.by = rgMgr[h].of
        BY <2>1, <3>4, <3>5, <4>1, AfterLater
      <4> QED BY <4>1
    <3>7. \A s \in rgTenants : s.by = rgMgr[h].of => /\ rgMgr[h].version <= s.version
                                                     /\ rgMgr[h].version = s.version => s.status = "active"
      BY <3>1 DEF CopiesAreOld
    <3> QED BY <2>1, <2>2, <3>1, <3>3, <3>6, <3>7
  <2> QED BY <2>4, <2>5, <2>6, <2>7, <2>8, <2>10, <2>11
<1>5. ASSUME NEW t \in rgTenants, t.by = c.of, t.version = c.version, c.at = "save tenant", UNCHANGED rgUsers,
             rgTenants' = (rgTenants \ {t}) \cup {[t EXCEPT !.status = c.status, !.plan = c.plan, !.version = @ + 1]},
             rgHeld' = IF c.status = "suspended" THEN rgHeld \cup {t.by} ELSE rgHeld
      PROVE  RgIInv'
  <2>1. c.status \in {"active", "suspended"} /\ c.plan \in {"free", "paid"} /\ t \in TenantType
    BY <1>5, CopiesKnown
  <2>2. PICK status \in {"active", "suspended"}, plan \in {"free", "paid"} : status = c.status /\ plan = c.plan
    BY <2>1
  <2> DEFINE new == NewTenant(t, status, plan)
  <2>3. /\ new \in TenantType /\ new.by = t.by /\ new.status = status /\ new.version = t.version + 1
        /\ t.version \in Nat
    BY <2>1, TenantVersions
  <2>4. rgTenants' = (rgTenants \ {t}) \cup {new}
    BY <1>5, <2>2 DEF NewTenant
  <2> HIDE DEF new
  <2> QED BY <1>4, <1>5, <2>2, <2>3, <2>4
<1> QED BY <1>1, <1>2, <1>3, <1>5 DEF SaveChanges, Work

\* Every step of the two services keeps the invariant.
LEMMA RgStep == RgIInv /\ [RgNext]_rgVars => RgIInv'
<1> SUFFICES ASSUME RgIInv, [RgNext]_rgVars PROVE RgIInv'
  OBVIOUS
<1>1. CASE UNCHANGED rgVars
  BY <1>1 DEF rgVars, RgIInv, RgTyped, SavedOnTheWay, CheckedBlind, OneTenantEach, CopiesAreOld, HeldAreTenants,
     NothingDangles, SuspensionHolds, HasTenant, HasUser
<1> QED BY <1>1, ChecksMove, SavesMove, LoadsMove, ChangesAreSaved DEF RgNext

\* The invariant implies the safety properties.
LEMMA RegistrationIsConsistent == RgIInv => RegistrationSafety
<1> SUFFICES ASSUME RgIInv PROVE RegistrationSafety
  OBVIOUS
<1> USE DEF RgIInv, RgTyped
<1>1. DoneIsWhole
  BY DEF DoneIsWhole, SavedOnTheWay, HasUser
<1>2. DuplicatesAreBlind
  BY DEF DuplicatesAreBlind, CheckedBlind, HasUser, UserType
<1> QED BY <1>1, <1>2 DEF RegistrationSafety

\* However registrations and managers overlap, and whichever saves fail: nothing saved dangles, a
\* success has left all three aggregates, two users share an address only if neither check saw the
\* other, and a suspension that was answered with success holds.
THEOREM RegistrationIsSafe == RgSpec => []RegistrationSafety
BY RgInitially, RgStep, RegistrationIsConsistent, PTL DEF RgSpec

----------------------------------------------------------------------------
(***************************************************************************)
(* The units: what each holds open, and what a commit has compared when it   *)
(* reaches the business rules.                                             *)
(***************************************************************************)
UnitType ==
    [at : {"idle", "begin", "body", "check", "hung", "failed"}, call : UnitCalls, attempt : Nat, step : Nat,
     tx : BOOLEAN, dead : BOOLEAN, tracked : SUBSET Stored, unchecked : SUBSET Stored,
     base : [Stored -> Nat], seen : [Stored -> Nat], error : {"none", "retryable", "final", "panic"},
     conflicts : {0, 1}]

UnitOK(u) ==
    /\ u.tx <=> u.at \in {"body", "check", "hung"}
    /\ u.conflicts = 1 => u.at = "failed"
    /\ u.at = "body" => u.step > 0
    /\ u.at = "check" => /\ u.step > Len(u.call.body)
                         /\ \A a \in u.tracked \ u.unchecked : u.seen[a] = u.base[a]
    /\ u.at = "hung" /\ u.step > Len(u.call.body) => \A a \in u.tracked : u.seen[a] = u.base[a]

UnIInv ==
    /\ uwStored \in [Stored -> Nat] /\ uwTask \in [UnitTasks -> UnitType]
    /\ \A t \in UnitTasks : UnitOK(uwTask[t])

\* The two parts of the unit's safety follow.
LEMMA UnitsAreSafe == UnIInv => NoTransactionLeft /\ ConflictsAreFinal
<1> SUFFICES ASSUME UnIInv PROVE NoTransactionLeft /\ ConflictsAreFinal
  OBVIOUS
<1>1. \A t \in UnitTasks : UnitOK(uwTask[t]) /\ uwTask[t].conflicts \in {0, 1}
  BY DEF UnIInv, UnitType
<1>2. NoTransactionLeft
  BY <1>1 DEF UnitOK, NoTransactionLeft
<1>3. ConflictsAreFinal
  BY <1>1 DEF UnitOK, ConflictsAreFinal
<1> QED BY <1>2, <1>3

\* The call of a unit has a number of attempts and a body.
LEMMA CallFields ==
    ASSUME NEW call \in UnitCalls
    PROVE  Attempts(call) \in Nat /\ call.body \in Seq(BodySteps) /\ Len(call.body) \in Nat
BY UnitOfWorkAssumption DEF UnitCall, Attempts

\* What an idle unit is.
LEMMA IdleUnitFields ==
    /\ IdleUnit \in UnitType /\ IdleUnit.at = "idle" /\ IdleUnit.tx = FALSE /\ IdleUnit.conflicts = 0
    /\ UnitOK(IdleUnit)
<1>1. (CHOOSE c \in UnitCalls : TRUE) \in UnitCalls
  BY UnitOfWorkAssumption
<1>2. [a \in Stored |-> 0] \in [Stored -> Nat]
  OBVIOUS
<1>3. IdleUnit.at = "idle" /\ IdleUnit.tx = FALSE /\ IdleUnit.conflicts = 0
  BY DEF IdleUnit
<1>4. IdleUnit \in UnitType
  BY <1>1, <1>2 DEF IdleUnit, UnitType
<1> QED BY <1>3, <1>4 DEF UnitOK

\* At first no unit runs.
LEMMA UnitsStart == UnInit => UnIInv
<1> SUFFICES ASSUME UnInit PROVE UnIInv
  OBVIOUS
<1>1. uwTask \in [UnitTasks -> UnitType] /\ \A t \in UnitTasks : UnitOK(uwTask[t])
  BY IdleUnitFields DEF UnInit
<1>2. uwStored \in [Stored -> Nat]
  BY DEF UnInit
<1> QED BY <1>1, <1>2 DEF UnIInv

\* One unit changes, and is then as it should be.
LEMMA UnitChanges ==
    ASSUME UnIInv, NEW t \in UnitTasks, NEW u \in UnitType, UnitOK(u), SetUnit(t, u), UNCHANGED uwStored
    PROVE  UnIInv'
<1>1. uwTask' \in [UnitTasks -> UnitType] /\ \A s \in UnitTasks : uwTask'[s] = IF s = t THEN u ELSE uwTask[s]
  BY DEF SetUnit, UnIInv
<1>2. \A s \in UnitTasks : UnitOK(uwTask'[s])
  BY <1>1 DEF UnIInv
<1>3. \A s \in UnitTasks : UnitOK(uwTask[s])'
  BY <1>2 DEF UnitOK
<1> QED BY <1>1, <1>3 DEF UnIInv

\* An attempt that ended has no transaction, and begins again only after an error that may be tried
\* again.
LEMMA AttemptFields ==
    ASSUME NEW u \in UnitType, NEW error \in {"retryable", "final", "panic"}, error = "retryable" => u.conflicts = 0
    PROVE  AfterAttempt(u, error) \in UnitType /\ UnitOK(AfterAttempt(u, error))
<1> DEFINE at == CASE error = "panic" -> "failed"
                       [] RetryableUnitError(error) /\ u.attempt < Attempts(u.call) -> "begin"
                       [] OTHER -> "failed"
           n == [u EXCEPT !.error = error, !.tx = FALSE, !.at = at]
<1>1. at \in {"begin", "failed"} /\ (error # "retryable" => at = "failed")
  BY DEF RetryableUnitError
<1> HIDE DEF at
<1>2. n \in UnitType /\ n.at = at /\ n.tx = FALSE /\ n.conflicts = u.conflicts
  BY <1>1 DEF UnitType
<1> HIDE DEF n
<1>3. UnitOK(n) /\ n \in UnitType
  BY <1>1, <1>2 DEF UnitOK
<1> QED BY <1>3 DEF AfterAttempt, n, at

\* A call begins, or fails at once when it has no attempt.
LEMMA CallMoves ==
    ASSUME UnIInv, NEW t \in UnitTasks, CallUnit(t)
    PROVE  UnIInv'
<1>1. PICK call \in UnitCalls :
        SetUnit(t, [IdleUnit EXCEPT
            !.call = call, !.base = uwStored,
            !.at = IF Attempts(call) = 0 THEN "failed" ELSE "begin",
            !.error = IF Attempts(call) = 0 THEN "final" ELSE "none"])
  BY DEF CallUnit
<1> DEFINE at == IF Attempts(call) = 0 THEN "failed" ELSE "begin"
           error == IF Attempts(call) = 0 THEN "final" ELSE "none"
           n == [IdleUnit EXCEPT !.call = call, !.base = uwStored, !.at = at, !.error = error]
<1>2. at \in {"failed", "begin"} /\ error \in {"final", "none"} /\ uwStored \in [Stored -> Nat]
  BY DEF UnIInv
<1>3. SetUnit(t, n)
  BY <1>1
<1> HIDE DEF at, error
<1>4. n \in UnitType /\ n.at = at /\ n.tx = FALSE /\ n.conflicts = 0
  BY <1>2, IdleUnitFields DEF UnitType
<1> HIDE DEF n
<1>5. UnitOK(n)
  BY <1>2, <1>4 DEF UnitOK
<1> QED BY <1>3, <1>4, <1>5, UnitChanges DEF CallUnit

\* The unit of a new attempt: a fresh one, or the last one with what it tracked.
LEMMA FreshFields ==
    ASSUME NEW u \in UnitType
    PROVE  LET n == FreshUnit([u EXCEPT !.attempt = @ + 1])
           IN  n \in UnitType /\ n.at = u.at /\ n.conflicts = u.conflicts
<1> DEFINE v == u.attempt + 1
           m == [u EXCEPT !.attempt = v]
           n == IF m.call.style = "retryable" THEN m ELSE [m EXCEPT !.tracked = {}, !.dead = FALSE]
<1>1. v \in Nat
  BY DEF UnitType
<1> HIDE DEF v
<1>2. m \in UnitType /\ m.at = u.at /\ m.conflicts = u.conflicts
  BY <1>1 DEF UnitType
<1> HIDE DEF m
<1>3. n \in UnitType /\ n.at = m.at /\ n.conflicts = m.conflicts
  BY <1>2 DEF UnitType
<1>4. n \in UnitType /\ n.at = u.at /\ n.conflicts = u.conflicts
  BY <1>2, <1>3
<1> QED BY <1>4 DEF n, m, v, FreshUnit

\* Begin opens the transaction, or ends the attempt.
LEMMA BeginMoves ==
    ASSUME UnIInv, NEW t \in UnitTasks, BeginUnit(t)
    PROVE  UnIInv'
<1> DEFINE u == FreshUnit([uwTask[t] EXCEPT !.attempt = @ + 1])
           n == [u EXCEPT !.at = "body", !.step = 1, !.tx = TRUE, !.dead = u.call.timeout]
<1>1. uwTask[t] \in UnitType /\ UnitOK(uwTask[t]) /\ uwTask[t].at = "begin" /\ UNCHANGED uwStored
  BY DEF BeginUnit, UnIInv
<1>2. \/ SetUnit(t, n)
      \/ SetUnit(t, AfterAttempt(u, "final")) \/ SetUnit(t, AfterAttempt(u, "retryable"))
  BY DEF BeginUnit
<1>3. u \in UnitType /\ u.at = "begin" /\ u.conflicts = 0
  <2>1. uwTask[t].conflicts \in {0, 1} /\ uwTask[t].conflicts # 1
    BY <1>1 DEF UnitOK, UnitType
  <2> QED BY <1>1, <2>1, FreshFields
<1> HIDE DEF u
<1>4. u.call.timeout \in BOOLEAN
  BY <1>3, UnitOfWorkAssumption DEF UnitType, UnitCall
<1>5. n \in UnitType /\ n.at = "body" /\ n.step = 1 /\ n.tx = TRUE /\ n.conflicts = 0
  BY <1>3, <1>4 DEF UnitType
<1> HIDE DEF n
<1>6. UnitOK(n)
  BY <1>5 DEF UnitOK
<1> QED BY <1>1, <1>2, <1>3, <1>5, <1>6, AttemptFields, UnitChanges

\* An aggregate is tracked, and perhaps read.
LEMMA TrackedFields ==
    ASSUME NEW u \in UnitType, u.at = "body", UnitOK(u), NEW a \in Stored, NEW k \in Nat
    PROVE  /\ RegisterAggregate(u, a) \in UnitType /\ UnitOK(RegisterAggregate(u, a))
           /\ LET n == [RegisterAggregate(u, a) EXCEPT !.base[a] = k] IN n \in UnitType /\ UnitOK(n)
<1> DEFINE v == u.step + 1
           m == [u EXCEPT !.tracked = @ \cup {a}, !.step = v]
           n == [m EXCEPT !.base[a] = k]
<1>1. v \in Nat /\ v > 0
  BY DEF UnitType
<1> HIDE DEF v
<1>2. m \in UnitType /\ m.at = "body" /\ m.tx = TRUE /\ m.conflicts = u.conflicts /\ m.step = v
  BY <1>1 DEF UnitType, UnitOK
<1>3. UnitOK(m)
  BY <1>1, <1>2 DEF UnitOK
<1> HIDE DEF m
<1>4. [m.base EXCEPT ![a] = k] \in [Stored -> Nat]
  BY <1>2 DEF UnitType
<1>5. n \in UnitType /\ n.at = "body" /\ n.tx = TRUE /\ n.conflicts = m.conflicts /\ n.step = v
  BY <1>2, <1>4 DEF UnitType
<1> HIDE DEF n
<1>6. UnitOK(n)
  BY <1>1, <1>2, <1>5 DEF UnitOK
<1> QED BY <1>2, <1>3, <1>5, <1>6 DEF n, m, v, RegisterAggregate

\* A step of the operation: something is tracked, the attempt ends, the goroutine hangs in
\* saveUser, or the next step is due.
LEMMA BodyMoves ==
    ASSUME UnIInv, NEW t \in UnitTasks, BodyStep(t)
    PROVE  UnIInv'
<1> DEFINE u == uwTask[t]
           s == u.call.body[u.step]
           next == u.step + 1
           stepped == [u EXCEPT !.step = next]
           hung == [u EXCEPT !.at = "hung"]
<1>1. u \in UnitType /\ UnitOK(u) /\ u.at = "body" /\ UNCHANGED uwStored /\ uwStored \in [Stored -> Nat]
      /\ u.step <= Len(u.call.body) /\ u.step \in Nat /\ u.step > 0
  BY DEF BodyStep, UnIInv, UnitType, UnitOK
<1>2. \/ s.op \in {"track", "get", "load"} /\ SetUnit(t, RegisterAggregate(u, s.of))
      \/ /\ s.op \in {"get", "load"}
         /\ SetUnit(t, [RegisterAggregate(u, s.of) EXCEPT !.base[s.of] = uwStored[s.of]])
      \/ \E error \in {"retryable", "final", "panic"} : SetUnit(t, AfterAttempt(u, error))
      \/ SetUnit(t, hung) \/ SetUnit(t, stepped)
  BY DEF BodyStep, RolledBack
<1>3. u.conflicts = 0
  BY <1>1 DEF UnitOK, UnitType
<1> HIDE DEF u
<1>4. CASE \E error \in {"retryable", "final", "panic"} : SetUnit(t, AfterAttempt(u, error))
  BY <1>1, <1>3, <1>4, AttemptFields, UnitChanges
<1>5. CASE SetUnit(t, hung)
  <2>1. hung \in UnitType /\ hung.at = "hung" /\ hung.tx = u.tx /\ hung.conflicts = 0
        /\ hung.step = u.step /\ hung.call = u.call
    BY <1>1, <1>3 DEF UnitType
  <2>2. ~(u.step > Len(u.call.body))
    <3>1. Len(u.call.body) \in Nat
      BY <1>1, CallFields DEF UnitType
    <3> QED BY <1>1, <3>1
  <2> HIDE DEF hung
  <2>3. UnitOK(hung)
    BY <1>1, <2>1, <2>2 DEF UnitOK
  <2> QED BY <1>1, <1>5, <2>1, <2>3, UnitChanges
<1>6. CASE SetUnit(t, stepped)
  <2>1. next \in Nat /\ next > 0
    BY <1>1
  <2> HIDE DEF next
  <2>2. stepped \in UnitType /\ stepped.at = "body" /\ stepped.tx = u.tx /\ stepped.conflicts = 0
        /\ stepped.step = next
    BY <1>1, <1>3, <2>1 DEF UnitType
  <2> HIDE DEF stepped
  <2>3. UnitOK(stepped)
    BY <1>1, <2>1, <2>2 DEF UnitOK
  <2> QED BY <1>1, <1>6, <2>2, <2>3, UnitChanges
<1>7. CASE s.op \in {"track", "get", "load"}
           /\ (\/ SetUnit(t, RegisterAggregate(u, s.of))
               \/ SetUnit(t, [RegisterAggregate(u, s.of) EXCEPT !.base[s.of] = uwStored[s.of]]))
  <2>1. s \in BodySteps
    <3>1. u.call.body \in Seq(BodySteps) /\ u.step \in 1 .. Len(u.call.body)
      BY <1>1, CallFields DEF UnitType
    <3> QED BY <3>1, ElementOfSeq
  <2>2. s.of \in Stored
    BY <1>7, <2>1 DEF BodySteps
  <2>3. uwStored[s.of] \in Nat
    BY <1>1, <2>2
  <2> HIDE DEF s
  <2> QED BY <1>1, <1>7, <2>2, <2>3, TrackedFields, UnitChanges
<1> QED BY <1>2, <1>4, <1>5, <1>6, <1>7

\* Commit has the versions of everything tracked yet to check.
LEMMA CommitMoves ==
    ASSUME UnIInv, NEW t \in UnitTasks, CommitUnit(t)
    PROVE  UnIInv'
<1> DEFINE u == uwTask[t]
           n == [u EXCEPT !.at = "check", !.unchecked = u.tracked]
<1>1. u \in UnitType /\ UnitOK(u) /\ u.at = "body" /\ u.step > Len(u.call.body) /\ UNCHANGED uwStored
      /\ SetUnit(t, n)
  BY DEF CommitUnit, UnIInv
<1> HIDE DEF u
<1>2. n \in UnitType /\ n.at = "check" /\ n.tx = u.tx /\ n.conflicts = u.conflicts /\ n.step = u.step
      /\ n.call = u.call /\ n.tracked \ n.unchecked = {}
  BY <1>1 DEF UnitType
<1> HIDE DEF n
<1>3. UnitOK(n)
  BY <1>1, <1>2 DEF UnitOK
<1> QED BY <1>1, <1>2, <1>3, UnitChanges

\* A commit that fails forgets what was tracked.
LEMMA FailFields ==
    ASSUME NEW u \in UnitType, NEW error \in {"retryable", "final"}, error = "retryable" => u.conflicts = 0
    PROVE  CommitFails(u, error) \in UnitType /\ UnitOK(CommitFails(u, error))
<1> DEFINE n == [u EXCEPT !.tracked = {}, !.unchecked = {}]
<1>1. n \in UnitType /\ n.conflicts = u.conflicts
  BY DEF UnitType
<1> HIDE DEF n
<1>2. AfterAttempt(n, error) \in UnitType /\ UnitOK(AfterAttempt(n, error))
  BY <1>1, AttemptFields
<1> QED BY <1>2 DEF CommitFails, n

\* An aggregate whose stored version is the one it was read at is checked; another one ends the call.
LEMMA CheckMoves ==
    ASSUME UnIInv, NEW t \in UnitTasks, NEW a \in Stored, CheckAggregate(t, a)
    PROVE  UnIInv'
<1> DEFINE u == uwTask[t]
           k == uwStored[a]
           count == u.conflicts + 1
           more == [u EXCEPT !.conflicts = count]
           n == [u EXCEPT !.unchecked = @ \ {a}, !.seen[a] = k]
<1>1. u \in UnitType /\ UnitOK(u) /\ u.at = "check" /\ a \in u.unchecked /\ UNCHANGED uwStored /\ k \in Nat
  BY DEF CheckAggregate, UnIInv
<1>2. \/ SetUnit(t, CommitFails(u, "final")) \/ SetUnit(t, CommitFails(u, "retryable"))
      \/ k = u.base[a] /\ SetUnit(t, n)
      \/ SetUnit(t, CommitFails(more, "final"))
  BY DEF CheckAggregate
<1>3. u.conflicts = 0 /\ count = 1
  BY <1>1 DEF UnitOK, UnitType
<1> HIDE DEF u, count, k
<1>4. CASE SetUnit(t, CommitFails(u, "final")) \/ SetUnit(t, CommitFails(u, "retryable"))
  BY <1>1, <1>3, <1>4, FailFields, UnitChanges
<1>5. CASE SetUnit(t, CommitFails(more, "final"))
  <2>1. more \in UnitType
    BY <1>1, <1>3 DEF UnitType
  <2> HIDE DEF more
  <2> QED BY <1>1, <1>5, <2>1, FailFields, UnitChanges
<1>6. CASE k = u.base[a] /\ SetUnit(t, n)
  <2>1. n \in UnitType /\ n.at = "check" /\ n.tx = u.tx /\ n.conflicts = u.conflicts /\ n.step = u.step
        /\ n.call = u.call /\ n.tracked = u.tracked /\ n.unchecked = u.unchecked \ {a} /\ n.base = u.base
        /\ n.seen = [u.seen EXCEPT ![a] = k] /\ u.seen \in [Stored -> Nat] /\ u.tracked \subseteq Stored
    BY <1>1 DEF UnitType
  <2> HIDE DEF n
  <2>2. \A b \in n.tracked \ n.unchecked : n.seen[b] = n.base[b]
    BY <1>1, <1>6, <2>1 DEF UnitOK
  <2>3. UnitOK(n)
    BY <1>1, <2>1, <2>2 DEF UnitOK
  <2> QED BY <1>1, <1>6, <2>1, <2>3, UnitChanges
<1> QED BY <1>2, <1>4, <1>5, <1>6

\* Nothing is left to check: the goroutine hangs in the business rules.
LEMMA ValidateMoves ==
    ASSUME UnIInv, NEW t \in UnitTasks, ValidateBusinessRules(t)
    PROVE  UnIInv'
<1> DEFINE u == uwTask[t]
           n == [u EXCEPT !.at = "hung"]
<1>1. u \in UnitType /\ UnitOK(u) /\ u.at = "check" /\ u.unchecked = {} /\ UNCHANGED uwStored /\ SetUnit(t, n)
  BY DEF ValidateBusinessRules, UnIInv
<1> HIDE DEF u
<1>2. n \in UnitType /\ n.at = "hung" /\ n.tx = u.tx /\ n.conflicts = u.conflicts
      /\ n.tracked = u.tracked /\ n.seen = u.seen /\ n.base = u.base
  BY <1>1 DEF UnitType
<1> HIDE DEF n
<1>3. UnitOK(n)
  BY <1>1, <1>2 DEF UnitOK
<1> QED BY <1>1, <1>2, <1>3, UnitChanges

\* The wait between two attempts is over because the caller's context ended.
LEMMA ContextMoves ==
    ASSUME UnIInv, NEW t \in UnitTasks, ContextEnds(t)
    PROVE  UnIInv'
<1> DEFINE u == uwTask[t]
           n == [u EXCEPT !.at = "failed", !.error = "final"]
<1>1. u \in UnitType /\ UnitOK(u) /\ u.at = "begin" /\ UNCHANGED uwStored /\ SetUnit(t, n)
  BY DEF ContextEnds, UnIInv
<1> HIDE DEF u
<1>2. n \in UnitType /\ n.at = "failed" /\ n.tx = u.tx
  BY <1>1 DEF UnitType
<1> HIDE DEF n
<1>3. UnitOK(n)
  BY <1>1, <1>2 DEF UnitOK
<1> QED BY <1>1, <1>2, <1>3, UnitChanges

\* Another program's events raise a stored version, and no unit's.
LEMMA OtherSavesMoves ==
    ASSUME UnIInv, \/ \E a \in Stored : OtherSaves(a)
                   \/ UNCHANGED <<uwTask, uwStored>>
    PROVE  UnIInv'
<1>1. UNCHANGED uwTask
  BY DEF OtherSaves
<1>2. uwStored' \in [Stored -> Nat]
  <2>1. CASE UNCHANGED uwStored
    BY <2>1 DEF UnIInv
  <2>2. ASSUME NEW a \in Stored, OtherSaves(a) PROVE uwStored' \in [Stored -> Nat]
    <3> DEFINE k == uwStored[a] + 1
    <3>1. k \in Nat /\ uwStored' = [uwStored EXCEPT ![a] = k]
      BY <2>2 DEF OtherSaves, UnIInv
    <3> HIDE DEF k
    <3> QED BY <3>1 DEF UnIInv
  <2> QED BY <2>1, <2>2
<1> QED BY <1>1, <1>2 DEF UnIInv, UnitOK

\* Every step of the units keeps UnIInv.
LEMMA UnStep == ASSUME UnIInv, UnNext \/ UNCHANGED unVars PROVE UnIInv'
<1>1. CASE \E t \in UnitTasks : CallUnit(t)
  BY <1>1, CallMoves
<1>2. CASE \E t \in UnitTasks : BeginUnit(t)
  BY <1>2, BeginMoves
<1>3. CASE \E t \in UnitTasks : BodyStep(t)
  BY <1>3, BodyMoves
<1>4. CASE \E t \in UnitTasks : CommitUnit(t)
  BY <1>4, CommitMoves
<1>5. CASE \E t \in UnitTasks : ValidateBusinessRules(t)
  BY <1>5, ValidateMoves
<1>6. CASE \E t \in UnitTasks : ContextEnds(t)
  BY <1>6, ContextMoves
<1>7. CASE \E t \in UnitTasks : \E a \in Stored : CheckAggregate(t, a)
  BY <1>7, CheckMoves
<1>8. CASE (\E a \in Stored : OtherSaves(a)) \/ UNCHANGED unVars
  BY <1>8, OtherSavesMoves DEF unVars
<1> QED BY <1>1, <1>2, <1>3, <1>4, <1>5, <1>6, <1>7, <1>8 DEF UnNext

----------------------------------------------------------------------------
(***************************************************************************)
(* The locks of the concurrency manager: who believes to hold one, and was   *)
(* not robbed of it, has the entry with the end of the own lease.            *)
(***************************************************************************)
LockerType == [at : {"idle", "checking", "locked"}, of : Stored \cup {IdleLocker.of}, read : Nat, until : Nat]

CmIInv ==
    /\ cmNow \in Nat /\ cmLocks \in [Stored -> Nat]
    /\ cmRetry \in [Stored -> Nat] /\ cmRow = cmRetry /\ \A a \in Stored : cmRow[a] <= ConflictRetries
    /\ cmLocker \in [Lockers -> LockerType]
    /\ \A l \in Lockers : cmLocker[l].at # "idle" => cmLocker[l].of \in Stored
    /\ \A l \in Lockers \ cmRobbed : \A a \in Stored :
          HasLock(l, a) => cmLocks[a] = cmLocker[l].until
    /\ LocksApart

\* A goroutine that is idle holds no lock.
LEMMA IdleLockerFields == IdleLocker \in LockerType /\ IdleLocker.at = "idle"
BY DEF IdleLocker, LockerType

\* At first no lock is held and no conflict was met.
LEMMA LocksStart == CmInit => CmIInv
<1> SUFFICES ASSUME CmInit PROVE CmIInv
  OBVIOUS
<1>1. cmLocker \in [Lockers -> LockerType] /\ \A l \in Lockers : cmLocker[l].at = "idle"
  BY IdleLockerFields DEF CmInit
<1>2. LocksApart
  BY <1>1, UnitOfWorkAssumption DEF CmInit, LocksApart, HasLock
<1> QED BY <1>1, <1>2, UnitOfWorkAssumption DEF CmInit, CmIInv, HasLock, LocksApart

\* A step after which nobody has a lock who had none, and every lock's entry is left alone.
LEMMA LocksStay ==
    ASSUME CmIInv, cmNow' \in Nat, cmNow <= cmNow', cmLocks' \in [Stored -> Nat],
           cmRetry' \in [Stored -> Nat], cmRow' = cmRetry', \A a \in Stored : cmRow'[a] <= ConflictRetries,
           cmLocker' \in [Lockers -> LockerType], cmRobbed \subseteq cmRobbed',
           \A l \in Lockers : cmLocker'[l].at # "idle" => cmLocker'[l].of \in Stored,
           \A l \in Lockers : cmLocker'[l] = cmLocker[l] \/ cmLocker'[l].at # "locked",
           \A l \in Lockers \ cmRobbed', a \in Stored : HasLock(l, a)' => cmLocks'[a] = cmLocks[a]
    PROVE  CmIInv'
<1> USE DEF CmIInv
<1>1. \A l \in Lockers, a \in Stored : HasLock(l, a)' => HasLock(l, a) /\ cmLocker'[l] = cmLocker[l]
  <2> SUFFICES ASSUME NEW l \in Lockers, NEW a \in Stored, HasLock(l, a)'
               PROVE  HasLock(l, a) /\ cmLocker'[l] = cmLocker[l]
    OBVIOUS
  <2>1. cmLocker'[l] = cmLocker[l] /\ cmLocker[l].until \in Nat
    BY DEF HasLock, LockerType
  <2> QED BY <2>1 DEF HasLock
<1>2. LocksApart'
  BY <1>1 DEF LocksApart
<1>3. \A l \in Lockers \ cmRobbed' : \A a \in Stored : HasLock(l, a)' => cmLocks'[a] = cmLocker'[l].until
  BY <1>1
<1> QED BY <1>2, <1>3

\* The lock is granted when no entry of a running lease is there.
LEMMA AcquireMoves ==
    ASSUME CmIInv, NEW l \in Lockers, NEW a \in Stored, AcquireOptimisticLock(l, a)
    PROVE  CmIInv'
<1> USE DEF CmIInv
<1> DEFINE until == cmNow + LockDuration
           w == [IdleLocker EXCEPT !.at = "locked", !.of = a, !.until = until]
<1>1. /\ ~(cmNow < cmLocks[a]) /\ cmLocks' = [cmLocks EXCEPT ![a] = until]
      /\ cmLocker' = [cmLocker EXCEPT ![l] = w] /\ cmRobbed' = cmRobbed \ {l}
      /\ UNCHANGED <<cmRetry, cmNow, cmRow>>
  BY DEF AcquireOptimisticLock, SetLocker
<1>2. until \in Nat
  BY UnitOfWorkAssumption
<1> HIDE DEF until
<1>3. w \in LockerType /\ w.at = "locked" /\ w.of = a /\ w.until = until
  BY <1>2, IdleLockerFields DEF LockerType
<1> HIDE DEF w
<1>4. /\ cmLocker' \in [Lockers -> LockerType] /\ cmLocker'[l] = w
      /\ \A k \in Lockers \ {l} : cmLocker'[k] = cmLocker[k]
  BY <1>1, <1>3
<1>5. \A k \in Lockers \ {l}, b \in Stored : HasLock(k, b)' = HasLock(k, b)
  BY <1>1, <1>4 DEF HasLock
<1>6. \A b \in Stored : HasLock(l, b)' => b = a
  BY <1>3, <1>4 DEF HasLock
<1>7. \A k \in Lockers \ {l} : k \notin cmRobbed => ~HasLock(k, a)
  <2> SUFFICES ASSUME NEW k \in Lockers \ {l}, k \notin cmRobbed, HasLock(k, a) PROVE FALSE
    OBVIOUS
  <2>1. cmLocks[a] = cmLocker[k].until /\ cmNow < cmLocker[k].until
    BY DEF HasLock
  <2> QED BY <1>1, <2>1
<1>8. LocksApart'
  BY <1>1, <1>4, <1>5, <1>6, <1>7 DEF LocksApart
<1>9. \A k \in Lockers \ cmRobbed' : \A b \in Stored : HasLock(k, b)' => cmLocks'[b] = cmLocker'[k].until
  <2> SUFFICES ASSUME NEW k \in Lockers \ cmRobbed', NEW b \in Stored, HasLock(k, b)'
               PROVE  cmLocks'[b] = cmLocker'[k].until
    OBVIOUS
  <2>1. CASE k = l
    BY <1>1, <1>3, <1>4, <1>6, <2>1
  <2>2. CASE k # l
    <3>1. HasLock(k, b) /\ k \notin cmRobbed /\ b # a
      BY <1>1, <1>5, <1>7, <2>2
    <3> QED BY <1>1, <1>4, <2>2, <3>1
  <2> QED BY <2>1, <2>2
<1>10. cmLocks' \in [Stored -> Nat]
  BY <1>1, <1>2
<1>11. \A k \in Lockers : cmLocker'[k].at # "idle" => cmLocker'[k].of \in Stored
  BY <1>3, <1>4
<1> QED BY <1>1, <1>4, <1>8, <1>9, <1>10, <1>11

\* Who believes to hold the lock whose entry is deleted is robbed.
LEMMA ReleaseMoves ==
    ASSUME CmIInv, NEW l \in Lockers, ReleaseOptimisticLock(l)
    PROVE  CmIInv'
<1> USE DEF CmIInv
<1> DEFINE a == cmLocker[l].of
<1>1. /\ cmLocker[l].at = "locked" /\ cmLocks' = [cmLocks EXCEPT ![a] = 0]
      /\ cmRobbed' = cmRobbed \cup {k \in Lockers \ {l} : HasLock(k, a)}
      /\ cmLocker' = [cmLocker EXCEPT ![l] = IdleLocker] /\ UNCHANGED <<cmRetry, cmNow, cmRow>>
  BY DEF ReleaseOptimisticLock, SetLocker
<1>2. a \in Stored
  BY <1>1
<1>3. /\ cmLocker' \in [Lockers -> LockerType] /\ cmLocker'[l].at = "idle"
      /\ \A k \in Lockers \ {l} : cmLocker'[k] = cmLocker[k]
  BY <1>1, IdleLockerFields
<1>4. \A k \in Lockers \ cmRobbed', b \in Stored : HasLock(k, b)' => cmLocks'[b] = cmLocks[b]
  <2> SUFFICES ASSUME NEW k \in Lockers \ cmRobbed', NEW b \in Stored, HasLock(k, b)', b = a PROVE FALSE
    BY <1>1
  <2>1. k # l
    BY <1>3 DEF HasLock
  <2>2. HasLock(k, a)
    BY <1>1, <1>3, <2>1 DEF HasLock
  <2> QED BY <1>1, <2>1, <2>2
<1>5. cmLocks' \in [Stored -> Nat] /\ cmNow' \in Nat /\ cmNow <= cmNow' /\ cmRobbed \subseteq cmRobbed'
  BY <1>1, <1>2
<1>6. \A k \in Lockers : /\ cmLocker'[k].at # "idle" => cmLocker'[k].of \in Stored
                         /\ cmLocker'[k] = cmLocker[k] \/ cmLocker'[k].at # "locked"
  BY <1>3
<1> HIDE DEF a
<1> QED BY <1>1, <1>3, <1>4, <1>5, <1>6, LocksStay

\* The resolver counts its retries in a row, and gives up after ConflictRetries.
LEMMA ConflictMoves ==
    ASSUME CmIInv, NEW l \in Lockers, NEW expected, ResolveConflict(l, expected)
    PROVE  CmIInv'
<1> USE DEF CmIInv
<1> DEFINE a == cmLocker[l].of
           conflict == expected # cmLocker[l].read
           n == IF ~conflict THEN cmRetry[a] ELSE IF cmRetry[a] >= ConflictRetries THEN 0 ELSE cmRetry[a] + 1
<1>1. /\ cmLocker[l].at = "checking" /\ cmLocker' = [cmLocker EXCEPT ![l] = IdleLocker]
      /\ cmRetry' = [cmRetry EXCEPT ![a] = n] /\ cmRow' = [cmRow EXCEPT ![a] = n]
      /\ UNCHANGED <<cmLocks, cmNow, cmRobbed>>
  BY DEF ResolveConflict, SetLocker
<1>2. a \in Stored /\ cmRetry[a] \in Nat /\ cmRetry[a] <= ConflictRetries
  BY <1>1
<1>3. n \in Nat /\ n <= ConflictRetries
  BY <1>2, UnitOfWorkAssumption
<1>4. /\ cmLocker' \in [Lockers -> LockerType] /\ cmLocker'[l].at = "idle"
      /\ \A k \in Lockers \ {l} : cmLocker'[k] = cmLocker[k]
  BY <1>1, IdleLockerFields
<1> HIDE DEF n, a
<1>5. cmRetry' \in [Stored -> Nat] /\ cmRow' = cmRetry' /\ \A b \in Stored : cmRow'[b] <= ConflictRetries
  BY <1>1, <1>2, <1>3
<1>6. \A k \in Lockers : /\ cmLocker'[k].at # "idle" => cmLocker'[k].of \in Stored
                         /\ cmLocker'[k] = cmLocker[k] \/ cmLocker'[k].at # "locked"
  BY <1>4
<1> QED BY <1>1, <1>4, <1>5, <1>6, LocksStay

\* A version is read, and the goroutine remembers it.
LEMMA VersionIsRead ==
    ASSUME CmIInv, uwStored \in [Stored -> Nat], NEW l \in Lockers, NEW a \in Stored, GetDatabaseVersion(l, a)
    PROVE  CmIInv'
<1> USE DEF CmIInv
<1> DEFINE w == [IdleLocker EXCEPT !.at = "checking", !.of = a, !.read = uwStored[a]]
<1>1. w \in LockerType /\ w.at = "checking" /\ w.of = a
  BY IdleLockerFields DEF LockerType
<1>2. cmLocker' = [cmLocker EXCEPT ![l] = w] /\ UNCHANGED <<cmLocks, cmRetry, cmNow, cmRow, cmRobbed>>
  BY DEF GetDatabaseVersion, SetLocker
<1> HIDE DEF w
<1>3. /\ cmLocker' \in [Lockers -> LockerType] /\ cmLocker'[l] = w
      /\ \A k \in Lockers \ {l} : cmLocker'[k] = cmLocker[k]
  BY <1>1, <1>2
<1>4. \A k \in Lockers : /\ cmLocker'[k].at # "idle" => cmLocker'[k].of \in Stored
                         /\ cmLocker'[k] = cmLocker[k] \/ cmLocker'[k].at # "locked"
  BY <1>1, <1>3
<1> QED BY <1>2, <1>3, <1>4, LocksStay

\* The entries of locks that have run out are deleted: no lock that runs is among them.
LEMMA ExpiredLocksGo ==
    ASSUME CmIInv, CleanupExpiredLocks
    PROVE  CmIInv'
<1> USE DEF CmIInv
<1>1. /\ cmLocks' = [a \in Stored |-> IF cmNow > cmLocks[a] THEN 0 ELSE cmLocks[a]]
      /\ UNCHANGED <<cmRetry, cmNow, cmLocker, cmRow, cmRobbed>>
  BY DEF CleanupExpiredLocks
<1>2. \A l \in Lockers \ cmRobbed', a \in Stored : HasLock(l, a)' => cmLocks'[a] = cmLocks[a]
  <2> SUFFICES ASSUME NEW l \in Lockers \ cmRobbed', NEW a \in Stored, HasLock(l, a)' PROVE cmLocks'[a] = cmLocks[a]
    OBVIOUS
  <2>1. HasLock(l, a)
    BY <1>1 DEF HasLock
  <2>2. cmLocks[a] = cmLocker[l].until /\ cmNow < cmLocker[l].until /\ cmLocks[a] \in Nat
    BY <1>1, <2>1 DEF HasLock
  <2> QED BY <1>1, <2>2
<1>3. cmLocks' \in [Stored -> Nat]
  BY <1>1
<1> QED BY <1>1, <1>2, <1>3, LocksStay

\* Time passes, or only the cache changes.
LEMMA LocksLeftAlone ==
    ASSUME CmIInv, UNCHANGED <<cmLocks, cmRetry, cmLocker, cmRow, cmRobbed>>, cmNow' \in Nat, cmNow <= cmNow'
    PROVE  CmIInv'
BY LocksStay DEF CmIInv

\* Every step of the locks keeps CmIInv.
LEMMA CmStep ==
    ASSUME CmIInv, uwStored \in [Stored -> Nat], CmNext \/ UNCHANGED cmVars
    PROVE  CmIInv'
<1>0. cmNow \in Nat
  BY DEF CmIInv
<1>1. CASE \E l \in Lockers, a \in Stored : RegisterAggregateVersion(l, a)
  BY <1>0, <1>1, LocksLeftAlone DEF RegisterAggregateVersion
<1>2. CASE \E l \in Lockers, a \in Stored : GetDatabaseVersion(l, a)
  BY <1>2, VersionIsRead
<1>3. CASE \E l \in Lockers, a \in Stored : AcquireOptimisticLock(l, a)
  BY <1>3, AcquireMoves
<1>4. CASE \E l \in Lockers : \E expected \in 0 .. MaxStored : ResolveConflict(l, expected)
  BY <1>4, ConflictMoves
<1>5. CASE \E l \in Lockers : ReleaseOptimisticLock(l)
  BY <1>5, ReleaseMoves
<1>6. CASE \E l \in Lockers : UpdateVersionAfterSave(l)
  BY <1>0, <1>6, LocksLeftAlone DEF UpdateVersionAfterSave
<1>7. CASE CleanupExpiredLocks
  BY <1>7, ExpiredLocksGo
<1>8. CASE LockTick
  BY <1>0, <1>8, LocksLeftAlone DEF LockTick
<1>9. CASE UNCHANGED cmVars
  BY <1>0, <1>9, LocksLeftAlone DEF cmVars
<1> QED BY <1>1, <1>2, <1>3, <1>4, <1>5, <1>6, <1>7, <1>8, <1>9 DEF CmNext

----------------------------------------------------------------------------
(***************************************************************************)
(* The event collector: its counters and the fates of the events.            *)
(***************************************************************************)
EventFates == {"filtered", "aborted", "intercepted", "processed"}
CollectionEnded(g) == \E i \in 1 .. Len(coFate[g]) : coFate[g][i] = "aborted"

CoIInv ==
    /\ coCount \in CollectorMetrics
    /\ coLeft \in [Collecting -> Seq(CollectedEvent)] /\ coFate \in [Collecting -> Seq(EventFates)]
    /\ CollectorAddsUp

\* Whatever a step does to one aggregate, the counters and the collections that ended grow together.
LEMMA CountsGrow ==
    ASSUME NEW total \in Nat, NEW filtered \in Nat, NEW intercepted \in Nat, NEW transformed \in Nat,
           NEW doneCount \in Nat, NEW ended \in Nat, NEW f \in {0, 1}, NEW i \in {0, 1}, NEW t \in {0, 1},
           NEW p \in {0, 1}, NEW e \in {0, 1},
           total = filtered + intercepted + doneCount + ended, transformed <= doneCount + ended,
           f + i + p + e = 1, t <= p + e
    PROVE  /\ total + 1 = (filtered + f) + (intercepted + i) + (doneCount + p) + (ended + e)
           /\ transformed + t <= (doneCount + p) + (ended + e)
OBVIOUS

\* At first nothing is counted.
LEMMA CollectorStart == CoInit => CoIInv
<1> SUFFICES ASSUME CoInit PROVE CoIInv
  OBVIOUS
<1>1. coCount \in CollectorMetrics /\ coFate \in [Collecting -> Seq(EventFates)]
      /\ \A g \in Collecting : coFate[g] = <<>>
  BY DEF CoInit, CollectorMetrics
<1>2. coLeft \in [Collecting -> Seq(CollectedEvent)]
  BY UnitOfWorkAssumption DEF CoInit
<1>3. Ended = {} /\ Cardinality({}) = 0
  BY <1>1, FS_EmptySet DEF Ended
<1>4. CollectorAddsUp
  BY <1>1, <1>3 DEF CoInit, CollectorAddsUp
<1> QED BY <1>1, <1>2, <1>4 DEF CoIInv

\* An event of an aggregate is looked at: it is filtered, stopped or handled, or ends the collection.
LEMMA CollectMoves ==
    ASSUME CoIInv, NEW g \in Collecting, CollectEvent(g)
    PROVE  CoIInv'
<1> DEFINE event == Head(coLeft[g])
           fate == FateOf(event)
           changed == Changed(event)
           left == IF fate = "aborted" THEN <<>> ELSE Tail(coLeft[g])
           fates == Append(coFate[g], fate)
<1>1. /\ coLeft[g] # <<>> /\ coLeft[g] \in Seq(CollectedEvent) /\ coFate[g] \in Seq(EventFates)
      /\ coCount \in CollectorMetrics /\ CollectorAddsUp
  BY DEF CoIInv, CollectEvent
<1>2. /\ coFate' = [coFate EXCEPT ![g] = fates] /\ coLeft' = [coLeft EXCEPT ![g] = left]
      /\ coCount' = CountOf(coCount, event)
  BY DEF CollectEvent
<1>3. fate \in EventFates /\ (changed => fate \in {"processed", "aborted"}) /\ changed \in BOOLEAN
  BY DEF FateOf, EventFates, Changed
<1>4. left \in Seq(CollectedEvent) /\ (fate = "aborted" => left = <<>>)
  BY <1>1
<1> DEFINE f == IF fate = "filtered" THEN 1 ELSE 0
           i == IF fate = "intercepted" THEN 1 ELSE 0
           t == IF changed THEN 1 ELSE 0
           p == IF fate = "processed" THEN 1 ELSE 0
           e == IF fate = "aborted" THEN 1 ELSE 0
<1>5. coCount' = [total |-> coCount.total + 1, filtered |-> coCount.filtered + f, intercepted |-> coCount.intercepted + i,
                  transformed |-> coCount.transformed + t, processed |-> coCount.processed + p]
  BY <1>2 DEF CountOf
<1> HIDE DEF event, fate, changed, left
<1>6. /\ f \in {0, 1} /\ i \in {0, 1} /\ t \in {0, 1} /\ p \in {0, 1} /\ e \in {0, 1}
      /\ f + i + p + e = 1 /\ t <= p + e
  BY <1>3 DEF EventFates
<1>7. /\ Len(fates) = Len(coFate[g]) + 1 /\ fates[Len(coFate[g]) + 1] = fate /\ fates \in Seq(EventFates)
      /\ \A k \in 1 .. Len(coFate[g]) : fates[k] = coFate[g][k]
      /\ Len(coFate[g]) \in Nat
  BY <1>1, <1>3, AppendProperties
<1> HIDE DEF fates, f, i, t, p
<1>8. /\ coFate' \in [Collecting -> Seq(EventFates)] /\ coLeft' \in [Collecting -> Seq(CollectedEvent)]
      /\ coFate'[g] = fates /\ coLeft'[g] = left
      /\ \A h \in Collecting \ {g} : coFate'[h] = coFate[h] /\ coLeft'[h] = coLeft[h]
  BY <1>2, <1>4, <1>7 DEF CoIInv
\* The collection was not ended before: an ended one has no events left.
<1>9. \A k \in 1 .. Len(coFate[g]) : coFate[g][k] # "aborted"
  BY <1>1 DEF CollectorAddsUp
<1>10. g \notin Ended
  BY <1>9 DEF Ended
<1>11. IsFiniteSet(Ended) /\ Cardinality(Ended) \in Nat
  BY UnitOfWorkAssumption, FS_Subset, FS_CardinalityType DEF Ended
<1>12. Ended' = IF fate = "aborted" THEN Ended \cup {g} ELSE Ended
  <2>1. \A h \in Collecting \ {g} : h \in Ended' <=> h \in Ended
    BY <1>8 DEF Ended
  <2>2. g \in Ended' <=> fate = "aborted"
    <3>1. g \in Ended' <=> \E k \in 1 .. Len(fates) : fates[k] = "aborted"
      BY <1>8 DEF Ended
    <3>2. ASSUME NEW k \in 1 .. Len(fates), fates[k] = "aborted" PROVE fate = "aborted"
      <4>1. k = Len(coFate[g]) + 1 \/ k \in 1 .. Len(coFate[g])
        BY <1>7
      <4> QED BY <1>7, <1>9, <3>2, <4>1
    <3>3. Len(coFate[g]) + 1 \in 1 .. Len(fates)
      BY <1>7
    <3> QED BY <1>7, <3>1, <3>2, <3>3
  <2>3. Ended \subseteq Collecting /\ Ended' \subseteq Collecting
    BY DEF Ended
  <2> QED BY <1>10, <2>1, <2>2, <2>3
<1>13. Cardinality(Ended') = Cardinality(Ended) + e
  <2>1. CASE fate = "aborted"
    BY <1>10, <1>11, <1>12, <2>1, FS_AddElement
  <2>2. CASE fate # "aborted"
    BY <1>11, <1>12, <2>2
  <2> QED BY <2>1, <2>2
<1> HIDE DEF e
<1>14. coCount.total \in Nat /\ coCount.filtered \in Nat /\ coCount.intercepted \in Nat /\ coCount.transformed \in Nat
       /\ coCount.processed \in Nat
  BY <1>1 DEF CollectorMetrics
<1>15. /\ coCount.total = coCount.filtered + coCount.intercepted + coCount.processed + Cardinality(Ended)
       /\ coCount.transformed <= coCount.processed + Cardinality(Ended)
  BY <1>1 DEF CollectorAddsUp
<1>16. /\ coCount.total + 1 = (coCount.filtered + f) + (coCount.intercepted + i) + (coCount.processed + p)
                                  + (Cardinality(Ended) + e)
       /\ coCount.transformed + t <= (coCount.processed + p) + (Cardinality(Ended) + e)
  BY <1>6, <1>11, <1>14, <1>15, CountsGrow
<1>17. coCount' \in CollectorMetrics
  BY <1>5, <1>6, <1>14 DEF CollectorMetrics
<1>18. /\ coCount'.total = coCount'.filtered + coCount'.intercepted + coCount'.processed + Cardinality(Ended')
       /\ coCount'.transformed <= coCount'.processed + Cardinality(Ended')
  BY <1>5, <1>13, <1>16
<1>19. \A h \in Collecting : \A k \in 1 .. Len(coFate'[h]) :
         coFate'[h][k] = "aborted" => k = Len(coFate'[h]) /\ coLeft'[h] = <<>>
  <2> SUFFICES ASSUME NEW h \in Collecting, NEW k \in 1 .. Len(coFate'[h]), coFate'[h][k] = "aborted"
               PROVE  k = Len(coFate'[h]) /\ coLeft'[h] = <<>>
    OBVIOUS
  <2>1. CASE h = g
    <3>1. k = Len(coFate[g]) + 1 \/ k \in 1 .. Len(coFate[g])
      BY <1>7, <1>8, <2>1
    <3> QED BY <1>4, <1>7, <1>8, <1>9, <2>1, <3>1
  <2>2. CASE h # g
    BY <1>1, <1>8, <2>2 DEF CollectorAddsUp
  <2> QED BY <2>1, <2>2
<1>20. CollectorAddsUp'
  BY <1>18, <1>19 DEF CollectorAddsUp
<1> QED BY <1>8, <1>17, <1>20 DEF CoIInv

\* Every step of the collector keeps CoIInv.
LEMMA CoStep == ASSUME CoIInv, CoNext \/ UNCHANGED coVars PROVE CoIInv'
<1>1. CASE \E g \in Collecting : CollectEvent(g)
  BY <1>1, CollectMoves
<1>2. CASE RegisterEventFilter \/ UNCHANGED coVars
  BY <1>2 DEF RegisterEventFilter, coVars, CoIInv, CollectorAddsUp, Ended
<1> QED BY <1>1, <1>2 DEF CoNext

----------------------------------------------------------------------------
(***************************************************************************)
(* The connection pools: a pool's handles are open while a name or the       *)
(* AddPool under way has it, and a user's commits are counted once unless    *)
(* their answer was lost.                                                  *)
(***************************************************************************)
PoolUserType ==
    [at : {"idle", "begin", "commit", "done", "failed"}, pool : Nat, workload : Workloads, attempt : Nat,
     applied : Nat, lost : Nat]
Adding == [name : PoolNames, stage : 1 .. 4]

CommitsCounted(u) ==
    /\ u.at = "done" => u.applied > 0 /\ u.applied <= 1 + u.lost
    /\ u.at # "done" => u.applied <= u.lost

PoIInv ==
    /\ poMade \in Nat /\ poOf \in [PoolNames -> 0 .. poMade]
    /\ poAdding \in Adding \cup {NoAdding}
    /\ poAdding # NoAdding => poMade > 0 /\ \A name \in PoolNames : poOf[name] < poMade
    /\ poOpen \subseteq (1 .. poMade) \X {"read", "write", "longRunning"}
    /\ poUser \in [PoolUsers -> PoolUserType]
    /\ \A p \in PoolUsers : CommitsCounted(poUser[p])
    /\ HandlesOwned

\* The stage of an AddPool under way is not that of none.
LEMMA AddingFields ==
    /\ NoAdding.stage = 0 /\ NoAdding \notin Adding
    /\ \A x \in Adding : x # NoAdding /\ x.name \in PoolNames /\ x.stage \in 1 .. 4
<1>1. NoAdding.stage = 0
  BY DEF NoAdding
<1>2. \A x \in Adding : x.name \in PoolNames /\ x.stage \in 1 .. 4
  BY DEF Adding
<1> QED BY <1>1, <1>2

\* An idle user has applied nothing.
LEMMA IdlePoolUserFields == IdlePoolUser \in PoolUserType /\ CommitsCounted(IdlePoolUser)
BY DEF IdlePoolUser, PoolUserType, Workloads, CommitsCounted

\* Nothing is open before the first pool.
LEMMA PoolsStart == PoInit => PoIInv
<1> SUFFICES ASSUME PoInit PROVE PoIInv
  OBVIOUS
<1>1. poUser \in [PoolUsers -> PoolUserType] /\ \A p \in PoolUsers : poUser[p] = IdlePoolUser
  BY IdlePoolUserFields DEF PoInit
<1>2. \A p \in PoolUsers : CommitsCounted(poUser[p])
  BY <1>1, IdlePoolUserFields
<1>3. HandlesOwned
  BY <1>1 DEF PoInit, HandlesOwned, IdlePoolUser
<1> QED BY <1>1, <1>2, <1>3 DEF PoInit, PoIInv

\* A step of one user that leaves pools and handles alone.
LEMMA UserMoves ==
    ASSUME PoIInv, NEW p \in PoolUsers, NEW u \in PoolUserType, CommitsCounted(u), SetPoolUser(p, u),
           UNCHANGED <<poOf, poMade, poOpen, poAdding>>
    PROVE  PoIInv'
<1> USE DEF PoIInv
<1>1. poUser' \in [PoolUsers -> PoolUserType] /\ \A q \in PoolUsers : poUser'[q] = IF q = p THEN u ELSE poUser[q]
  BY DEF SetPoolUser
<1>2. \A q \in PoolUsers : CommitsCounted(poUser[q])'
  BY <1>1 DEF CommitsCounted
<1>3. HandlesOwned'
  <2>1. \A q \in PoolUsers : poUser'[q].applied \in Nat /\ poUser'[q].lost \in Nat
    BY <1>1 DEF PoolUserType
  <2>2. \A q \in PoolUsers : /\ poUser'[q].at = "done" => poUser'[q].applied > 0
                             /\ poUser'[q].applied <= 1 + poUser'[q].lost
    BY <1>2, <2>1 DEF CommitsCounted
  <2> QED BY <2>2 DEF HandlesOwned
<1> QED BY <1>1, <1>2, <1>3

\* A user is given a handle, or refused.
LEMMA GetPoolMoves ==
    ASSUME PoIInv, NEW p \in PoolUsers, NEW name \in PoolNames, GetPool(p, name)
    PROVE  PoIInv'
<1>1. PICK workload \in Workloads :
        SetPoolUser(p, [IdlePoolUser EXCEPT
            !.pool = poOf[name], !.workload = workload,
            !.at = IF poOf[name] = 0 \/ PoolRetries = 0 THEN "failed" ELSE "begin"])
  BY DEF GetPool
<1> DEFINE u == [IdlePoolUser EXCEPT
            !.pool = poOf[name], !.workload = workload,
            !.at = IF poOf[name] = 0 \/ PoolRetries = 0 THEN "failed" ELSE "begin"]
<1>2. poOf[name] \in Nat
  BY DEF PoIInv
<1>3. u \in PoolUserType /\ CommitsCounted(u)
  <2> DEFINE k == poOf[name]
             at == IF k = 0 \/ PoolRetries = 0 THEN "failed" ELSE "begin"
             n == [IdlePoolUser EXCEPT !.pool = k, !.workload = workload, !.at = at]
  <2>1. k \in Nat /\ at \in {"failed", "begin"}
    BY <1>2
  <2>2. IdlePoolUser \in PoolUserType /\ IdlePoolUser.applied = 0 /\ IdlePoolUser.lost = 0
    BY IdlePoolUserFields DEF IdlePoolUser
  <2> HIDE DEF k, at
  <2>3. n \in PoolUserType /\ n.at = at /\ n.applied = IdlePoolUser.applied /\ n.lost = IdlePoolUser.lost
    BY <2>1, <2>2 DEF PoolUserType
  <2> HIDE DEF n
  <2>4. CommitsCounted(n)
    BY <2>1, <2>2, <2>3 DEF CommitsCounted
  <2> QED BY <2>3, <2>4 DEF n, at, k
<1> HIDE DEF u
<1>4. UNCHANGED <<poOf, poMade, poOpen, poAdding>>
  BY DEF GetPool
<1> QED BY <1>1, <1>3, <1>4, UserMoves DEF u

\* An attempt more.
LEMMA NextAttempt ==
    ASSUME NEW u \in PoolUserType
    PROVE  LET n == [u EXCEPT !.attempt = @ + 1]
           IN  n \in PoolUserType /\ n.at = u.at /\ n.applied = u.applied /\ n.lost = u.lost
<1> DEFINE v == u.attempt + 1
<1>1. v \in Nat
  BY DEF PoolUserType
<1> HIDE DEF v
<1>2. LET n == [u EXCEPT !.attempt = v]
      IN  n \in PoolUserType /\ n.at = u.at /\ n.applied = u.applied /\ n.lost = u.lost
  BY <1>1 DEF PoolUserType
<1> QED BY <1>2 DEF v

\* After an error the user begins again or has failed, with what it had applied.
LEMMA PoolErrorFields ==
    ASSUME NEW u \in PoolUserType, u.applied <= u.lost, NEW retryable \in BOOLEAN
    PROVE  AfterPoolError(u, retryable) \in PoolUserType /\ CommitsCounted(AfterPoolError(u, retryable))
BY DEF AfterPoolError, PoolUserType, CommitsCounted

\* BEGIN on the user's handle, if that is open.
LEMMA BeginPoolMoves ==
    ASSUME PoIInv, NEW p \in PoolUsers, BeginPoolTx(p)
    PROVE  PoIInv'
<1> DEFINE u == [poUser[p] EXCEPT !.attempt = @ + 1]
<1>1. poUser[p] \in PoolUserType /\ CommitsCounted(poUser[p]) /\ UNCHANGED <<poOf, poMade, poOpen, poAdding>>
  BY DEF PoIInv, BeginPoolTx
<1>2. /\ u.at = "begin"
      /\ \/ SetPoolUser(p, [u EXCEPT !.at = "commit"])
         \/ SetPoolUser(p, AfterPoolError(u, FALSE))
         \/ SetPoolUser(p, AfterPoolError(u, TRUE))
  BY DEF BeginPoolTx
<1>3. u \in PoolUserType /\ u.at = poUser[p].at /\ u.applied = poUser[p].applied /\ u.lost = poUser[p].lost
  BY <1>1, NextAttempt
<1> HIDE DEF u
<1>4. u.applied <= u.lost
  BY <1>1, <1>2, <1>3 DEF CommitsCounted
<1>5. [u EXCEPT !.at = "commit"] \in PoolUserType /\ CommitsCounted([u EXCEPT !.at = "commit"])
  BY <1>3, <1>4 DEF PoolUserType, CommitsCounted
<1> QED BY <1>1, <1>2, <1>3, <1>4, <1>5, PoolErrorFields, UserMoves

\* What a commit makes of its user, with and without its answer.
LEMMA CommitCounts ==
    ASSUME NEW u \in PoolUserType, u.applied <= u.lost
    PROVE  /\ LET n == [u EXCEPT !.at = "done", !.applied = @ + 1]
              IN  n \in PoolUserType /\ CommitsCounted(n)
           /\ LET n == [u EXCEPT !.applied = @ + 1, !.lost = @ + 1]
              IN  n \in PoolUserType /\ n.applied <= n.lost
<1> DEFINE v == u.applied + 1
           w == u.lost + 1
<1>1. v \in Nat /\ w \in Nat /\ v <= w /\ v > 0 /\ v <= 1 + u.lost
  BY DEF PoolUserType
<1> HIDE DEF v, w
<1>2. LET n == [u EXCEPT !.at = "done", !.applied = v]
      IN  n \in PoolUserType /\ n.at = "done" /\ n.applied = v /\ n.lost = u.lost
  BY <1>1 DEF PoolUserType
<1>3. LET n == [u EXCEPT !.at = "done", !.applied = v]
      IN  n \in PoolUserType /\ CommitsCounted(n)
  <2> DEFINE n == [u EXCEPT !.at = "done", !.applied = v]
  <2>1. n \in PoolUserType /\ n.at = "done" /\ n.applied = v /\ n.lost = u.lost
    BY <1>2
  <2> HIDE DEF n
  <2>2. CommitsCounted(n)
    BY <1>1, <2>1 DEF CommitsCounted
  <2> QED BY <2>1, <2>2 DEF n
<1>4. LET n == [u EXCEPT !.applied = v, !.lost = w]
      IN  n \in PoolUserType /\ n.applied <= n.lost
  BY <1>1 DEF PoolUserType
<1> QED BY <1>3, <1>4 DEF v, w

\* COMMIT, which may be lost on its way out or on its way back.
LEMMA CommitPoolMoves ==
    ASSUME PoIInv, NEW p \in PoolUsers, CommitPoolTx(p)
    PROVE  PoIInv'
<1> DEFINE u == poUser[p]
           sent == [u EXCEPT !.at = "done", !.applied = @ + 1]
           lost == [u EXCEPT !.applied = @ + 1, !.lost = @ + 1]
<1>1. u \in PoolUserType /\ CommitsCounted(u) /\ UNCHANGED <<poOf, poMade, poOpen, poAdding>> /\ u.at = "commit"
  BY DEF PoIInv, CommitPoolTx
<1>2. \/ SetPoolUser(p, sent)
      \/ SetPoolUser(p, AfterPoolError(u, FALSE))
      \/ SetPoolUser(p, AfterPoolError(u, TRUE))
      \/ SetPoolUser(p, AfterPoolError(lost, TRUE))
  BY DEF CommitPoolTx
<1>3. u.applied <= u.lost
  BY <1>1 DEF CommitsCounted
<1>4. sent \in PoolUserType /\ CommitsCounted(sent) /\ lost \in PoolUserType /\ lost.applied <= lost.lost
  BY <1>1, <1>3, CommitCounts
<1> HIDE DEF u, sent, lost
<1> QED BY <1>1, <1>2, <1>3, <1>4, PoolErrorFields, UserMoves

\* The manager opens, stores and closes pools.
LEMMA ManagerMoves ==
    ASSUME PoIInv, (\E name \in PoolNames : AddPool(name)) \/ OpenHandle \/ StorePool \/ CloseAll
    PROVE  PoIInv'
<1> USE DEF PoIInv
<1>1. UNCHANGED poUser
  BY DEF AddPool, OpenHandle, StorePool, CloseAll
<1>2. \A p \in PoolUsers : CommitsCounted(poUser[p])'
  BY <1>1
<1>3. \A p \in PoolUsers : /\ poUser'[p].at = "done" => poUser'[p].applied > 0
                           /\ poUser'[p].applied <= 1 + poUser'[p].lost
  BY <1>1 DEF HandlesOwned
<1>4. \A h \in poOpen : /\ h[1] \in 1 .. poMade /\ h \in HandlesOf(h[1])
                        /\ (\E name \in PoolNames : poOf[name] = h[1]) \/ (poAdding # NoAdding /\ h[1] = poMade)
  BY DEF HandlesOwned, HandlesOf
<1>5. ASSUME NEW name \in PoolNames, AddPool(name) PROVE PoIInv'
  <2>1. /\ poAdding = NoAdding /\ poMade' = poMade + 1 /\ UNCHANGED <<poOf, poOpen>>
        /\ poAdding' = [name |-> name, stage |-> 1]
    BY <1>5 DEF AddPool
  <2>2. poAdding' \in Adding
    BY <2>1 DEF Adding
  <2>3. HandlesOwned'
    BY <1>3, <1>4, <2>1 DEF HandlesOwned
  <2>4. /\ poMade' \in Nat /\ poMade' > 0 /\ poOf' \in [PoolNames -> 0 .. poMade']
        /\ \A n \in PoolNames : poOf'[n] < poMade'
    BY <2>1
  <2>5. poOpen' \subseteq (1 .. poMade') \X {"read", "write", "longRunning"}
    BY <2>1
  <2> QED BY <1>1, <1>2, <2>2, <2>3, <2>4, <2>5
<1>6. CASE OpenHandle
  <2>1. poAdding \in Adding /\ poAdding.stage \in 1 .. 3 /\ UNCHANGED <<poOf, poMade>> /\ poAdding # NoAdding
    BY <1>6, AddingFields DEF OpenHandle
  <2>2. CASE /\ poOpen' = poOpen \cup {<<poMade, HandleKinds[poAdding.stage]>>}
             /\ poAdding' = [poAdding EXCEPT !.stage = @ + 1]
    <3>1. poAdding' \in Adding
      <4> DEFINE v == poAdding.stage + 1
      <4>1. v \in 1 .. 4
        BY <2>1
      <4> HIDE DEF v
      <4>2. [poAdding EXCEPT !.stage = v] \in Adding
        BY <2>1, <4>1 DEF Adding
      <4> QED BY <2>2, <4>2 DEF v
    <3>2. HandleKinds[poAdding.stage] \in {"read", "write", "longRunning"}
      BY <2>1 DEF HandleKinds
    <3>3. \A h \in poOpen' : h \in poOpen \/ h[1] = poMade
      BY <2>2
    <3>4. poAdding' # NoAdding
      BY <3>1, AddingFields
    <3>5. HandlesOwned'
      BY <1>3, <1>4, <2>1, <3>3, <3>4 DEF HandlesOwned
    <3>6. poOpen' \subseteq (1 .. poMade') \X {"read", "write", "longRunning"}
      BY <2>1, <2>2, <3>2
    <3> QED BY <1>1, <1>2, <2>1, <3>1, <3>5, <3>6
  <2>3. CASE poOpen' = poOpen \ HandlesOf(poMade) /\ poAdding' = NoAdding
    <3>1. \A h \in poOpen' : h \in poOpen /\ h[1] # poMade
      BY <1>4, <2>3
    <3>2. HandlesOwned'
      BY <1>3, <1>4, <2>1, <3>1 DEF HandlesOwned
    <3> QED BY <1>1, <1>2, <2>1, <2>3, <3>1, <3>2
  <2> QED BY <1>6, <2>2, <2>3 DEF OpenHandle
<1>7. CASE StorePool
  <2> DEFINE old == poOf[poAdding.name]
  <2>1. /\ poAdding \in Adding /\ UNCHANGED poMade /\ poAdding # NoAdding /\ poAdding.name \in PoolNames
        /\ poOpen' = poOpen \ HandlesOf(old) /\ poOf' = [poOf EXCEPT ![poAdding.name] = poMade] /\ poAdding' = NoAdding
    BY <1>7, AddingFields DEF StorePool, ClosePool
  <2>2. \A h \in poOpen' : h \in poOpen /\ h[1] # old
    BY <1>4, <2>1
  <2>3. \A n \in PoolNames : poOf'[n] = IF n = poAdding.name THEN poMade ELSE poOf[n]
    BY <2>1
  <2>4. HandlesOwned'
    <3> SUFFICES ASSUME NEW h \in poOpen' PROVE \E name \in PoolNames : poOf'[name] = h[1]
      BY <1>3 DEF HandlesOwned
    <3>1. CASE h[1] = poMade
      BY <2>1, <2>3, <3>1
    <3>2. CASE h[1] # poMade
      <4>1. PICK name \in PoolNames : poOf[name] = h[1]
        BY <1>4, <2>2, <3>2
      <4>2. name # poAdding.name
        BY <2>2, <4>1
      <4> QED BY <2>3, <4>1, <4>2
    <3> QED BY <3>1, <3>2
  <2>5. poOf' \in [PoolNames -> 0 .. poMade']
    BY <2>1
  <2> QED BY <1>1, <1>2, <2>1, <2>2, <2>4, <2>5
<1>8. CASE CloseAll
  <2>1. /\ poAdding = NoAdding /\ poAdding' = NoAdding /\ UNCHANGED poMade
        /\ poOpen' = poOpen \ UNION {HandlesOf(poOf[name]) : name \in PoolNames}
        /\ poOf' = [name \in PoolNames |-> 0]
    BY <1>8 DEF CloseAll
  <2>2. poOpen' = {}
    BY <1>4, <2>1
  <2>3. HandlesOwned'
    BY <1>3, <2>2 DEF HandlesOwned
  <2> QED BY <1>1, <1>2, <2>1, <2>2, <2>3
<1> QED BY <1>5, <1>6, <1>7, <1>8

\* Every step of the pools keeps the invariant.
LEMMA PoolsStep == PoIInv /\ [PoNext]_poVars => PoIInv'
<1> SUFFICES ASSUME PoIInv, [PoNext]_poVars PROVE PoIInv'
  OBVIOUS
<1>1. CASE UNCHANGED poVars
  BY <1>1 DEF poVars, PoIInv, HandlesOwned, CommitsCounted
<1> QED BY <1>1, GetPoolMoves, BeginPoolMoves, CommitPoolMoves, ManagerMoves DEF PoNext

----------------------------------------------------------------------------
(***************************************************************************)
(* The outbox's writers.  What a transaction has done is read off its call;  *)
(* locks are exclusive among the writers of a kind, and a nested store's     *)
(* events are stored and not yet announced until its call returns.         *)
(***************************************************************************)
WriteCalls == [at : {"idle", "operate", "step", "add"}, ran : Nat, added : Nat, locks : BOOLEAN, nested : BOOLEAN]
Stores == {w \in Writers : oiKind[w] = "store"}
Capacity == PerCall * (Cardinality(Writers) + 1)

CallOK(w, c) ==
    /\ c.at = "idle" => ~c.locks /\ ~c.nested
    /\ c.at = "operate" => c.ran < Operations(w) /\ ~c.locks /\ ~c.nested
    /\ c.at = "step" => oiKind[w] = "saga" /\ ~c.nested
    /\ c.at = "add" => c.ran = Operations(w)
    /\ c.at = "add" /\ oiKind[w] = "store" => c.locks = oiTakes /\ c.nested = ~oiTakes
    /\ c.locks => oiKind[w] \in {"store", "saga"}
    /\ c.nested => oiKind[w] = "store" /\ ~oiTakes
    /\ oiKind[w] = "saga" /\ c.at \in {"step", "add"} => (c.locks <=> oiSaga = "running")

OiTyped ==
    /\ oiKind \in [Writers -> WriterKinds] /\ oiTakes \in BOOLEAN /\ oiSaga \in {"pending", "running", "completed"}
    /\ oiCall \in [Writers -> WriteCalls] /\ oiFree \in Nat
    /\ oiRows \in [Writers -> Nat] /\ oiCommits \in [Writers -> Nat]
    /\ oiOutbox \in [Writers -> [1 .. Capacity -> Nat]]
    /\ oiStored \in Seq(Stores) /\ Len(oiStored) <= Capacity
    /\ oiBase \in [Writers -> Nat] /\ \A w \in Writers : oiBase[w] + PerCall <= Capacity

LocksExclude ==
    /\ \A v, w \in Writers : oiCall[v].locks /\ oiCall[w].locks /\ oiKind[v] = oiKind[w] => v = w
    /\ \A w \in Writers : oiCall[w].locks /\ oiKind[w] = "store" => oiBase[w] = Len(oiStored)

NestedFresh == \A w \in Writers : oiCall[w].nested => \A e \in EventsOf(w) :
    e <= Len(oiStored) /\ oiStored[e] = w /\ oiOutbox[w][e] = 0

ConnectionsCounted == oiFree + Cardinality(Writing) = Connections

OiIInv ==
    /\ OiTyped /\ \A w \in Writers : CallOK(w, oiCall[w])
    /\ LocksExclude /\ NestedFresh /\ ConnectionsCounted
    /\ WrittenIsAnnounced /\ AnnouncedIsStored /\ StoredIsAnnounced /\ KeptUntilOut /\ SagaFollows

\* There is room for the events of every writer, and of one call more.
LEMMA CapacityIsNat == Capacity \in Nat /\ Capacity >= PerCall
<1>1. Cardinality(Writers) \in Nat
  BY IntegrationAssumption, FS_CardinalityType
<1> QED BY <1>1 DEF Capacity, PerCall

\* What everybody waits for: whoever has a lock is not waiting.
LEMMA WritersStall == OiIInv => StallIsNested
<1> SUFFICES ASSUME OiIInv PROVE StallIsNested
  OBVIOUS
<1>1. ASSUME Writing # {}, \A w \in Writing : Waiting(w)
      PROVE  oiFree = 0 /\ \A w \in Writing : oiKind[w] = "store" /\ ~oiTakes
  <2>1. \A w \in Writing : w \in Writers /\ oiCall[w].at = "operate"
    BY <1>1 DEF Waiting, Writing
  <2>2. \A w \in Writing : ~oiCall[w].locks
    BY <2>1 DEF OiIInv, CallOK
  <2>3. \A w \in Writing : ~LockedByOther(w)
    BY <2>2 DEF LockedByOther
  <2> QED BY <1>1, <2>3 DEF Waiting
<1> QED BY <1>1 DEF StallIsNested, OiIInv, ConnectionsCounted

\* The safety of the wrapper follows.
LEMMA IntegrationIsSafe == OiIInv => IntegrationSafety
BY WritersStall DEF OiIInv, IntegrationSafety

\* A call that has not begun.
LEMMA NoWriteFields ==
    /\ NoWrite \in WriteCalls /\ NoWrite.at = "idle" /\ ~NoWrite.locks /\ ~NoWrite.nested /\ NoWrite.ran = 0
    /\ \A w : CallOK(w, NoWrite)
BY DEF NoWrite, WriteCalls, CallOK

\* At first nothing is written.
LEMMA WritersStart == OiInit => OiIInv
<1> SUFFICES ASSUME OiInit PROVE OiIInv
  OBVIOUS
<1>1. /\ oiCall \in [Writers -> WriteCalls]
      /\ \A w \in Writers : oiCall[w] = NoWrite
  BY NoWriteFields DEF OiInit
<1>2. OiTyped
  BY <1>1, CapacityIsNat, IntegrationAssumption DEF OiInit, OiTyped, Capacity, PerCall
<1>3. Writing = {} /\ Cardinality({}) = 0
  BY <1>1, NoWriteFields, FS_EmptySet DEF Writing
<1>4. ConnectionsCounted
  BY <1>3, IntegrationAssumption DEF ConnectionsCounted, OiInit
<1>5. LocksExclude /\ NestedFresh /\ \A w \in Writers : CallOK(w, oiCall[w])
  BY <1>1, NoWriteFields DEF LocksExclude, NestedFresh
<1>6. WrittenIsAnnounced
  <2>1. \A w \in Writers : Operations(w) \in {1, 2}
    BY DEF Operations, PerCall
  <2>2. \A e \in 1 .. PerCall : e \in 1 .. Capacity
    BY CapacityIsNat DEF PerCall
  <2> QED BY <2>1, <2>2 DEF OiInit, WrittenIsAnnounced, Capacity
<1>7. AnnouncedIsStored
  BY DEF OiInit, AnnouncedIsStored
<1>8. StoredIsAnnounced /\ KeptUntilOut /\ SagaFollows
  BY DEF OiInit, StoredIsAnnounced, KeptUntilOut, SagaFollows
<1> QED BY <1>2, <1>4, <1>5, <1>6, <1>7, <1>8 DEF OiIInv

\* A call under way goes on within its transaction.
LEMMA QuietMoves ==
    ASSUME OiIInv, NEW w \in Writers, NEW c \in WriteCalls, oiCall[w].at # "idle", c.at # "idle",
           Goes(w, c), CallOK(w, c), c.nested = oiCall[w].nested,
           UNCHANGED <<oiFixed, oiTables, oiFree, oiBase, oiTorn>>,
           c.locks => oiCall[w].locks \/ (~LockedByOther(w) /\ (oiKind[w] = "store" => oiBase[w] = Len(oiStored)))
    PROVE  OiIInv'
<1> USE DEF oiFixed, oiTables
<1>1. /\ oiCall' \in [Writers -> WriteCalls] /\ oiCall'[w] = c
      /\ \A v \in Writers \ {w} : oiCall'[v] = oiCall[v]
  BY DEF Goes, OiIInv, OiTyped
<1>2. OiTyped'
  BY <1>1 DEF OiIInv, OiTyped, Stores
<1>3. Writing' = Writing
  BY <1>1 DEF Writing
<1>4. ConnectionsCounted'
  BY <1>3 DEF ConnectionsCounted, OiIInv
<1>5. \A v \in Writers : CallOK(v, oiCall[v])'
  BY <1>1 DEF OiIInv, CallOK, Operations
<1>6. \A v \in Writers \ {w} : oiKind[v] = oiKind[w] /\ oiCall[v].locks /\ c.locks => FALSE
  <2> SUFFICES ASSUME NEW v \in Writers \ {w}, oiKind[v] = oiKind[w], oiCall[v].locks, c.locks PROVE FALSE
    OBVIOUS
  <2>1. CASE oiCall[w].locks
    BY <2>1 DEF OiIInv, LocksExclude
  <2>2. CASE ~LockedByOther(w)
    <3>1. v \in Writing
      BY DEF OiIInv, CallOK, Writing
    <3> QED BY <2>2, <3>1 DEF LockedByOther
  <2> QED BY <2>1, <2>2
<1>7. LocksExclude'
  BY <1>1, <1>6 DEF OiIInv, LocksExclude
<1>8. NestedFresh'
  BY <1>1 DEF OiIInv, NestedFresh, EventsOf, FirstEvents, EventsBefore
<1>9. StoredIsAnnounced'
  <2>1. \A e \in DOMAIN oiStored : oiStored[e] \in Writers
    BY DEF OiIInv, OiTyped, Stores
  <2> QED BY <1>1, <2>1 DEF OiIInv, StoredIsAnnounced, EventsOf, FirstEvents, EventsBefore
<1>10. (WrittenIsAnnounced /\ AnnouncedIsStored /\ KeptUntilOut /\ SagaFollows)'
  BY DEF OiIInv, WrittenIsAnnounced, AnnouncedIsStored, KeptUntilOut, SagaFollows, Operations
<1> QED BY <1>2, <1>4, <1>5, <1>7, <1>8, <1>9, <1>10 DEF OiIInv

\* The connection of a call that returned is free again.
LEMMA GivesBack ==
    ASSUME OiIInv, NEW w \in Writing, Writing' = Writing \ {w}, oiFree' = oiFree + 1
    PROVE  ConnectionsCounted'
<1>1. IsFiniteSet(Writing)
  BY IntegrationAssumption, FS_Subset DEF Writing
<1>2. Cardinality(Writing') = Cardinality(Writing) - 1 /\ Cardinality(Writing) \in Nat
  BY <1>1, FS_RemoveElement, FS_CardinalityType
<1> QED BY <1>2, IntegrationAssumption DEF ConnectionsCounted, OiIInv, OiTyped

\* A call returns an error: its connection is back, and what its store committed is torn.
LEMMA FailMoves ==
    ASSUME OiIInv, NEW w \in Writers, oiCall[w].at # "idle", Fails(w), UNCHANGED <<oiFixed, oiTables, oiBase>>
    PROVE  OiIInv'
<1> USE DEF oiFixed, oiTables
<1>1. /\ oiCall' \in [Writers -> WriteCalls] /\ oiCall'[w] = NoWrite
      /\ \A v \in Writers \ {w} : oiCall'[v] = oiCall[v]
      /\ oiFree' = oiFree + 1
  BY NoWriteFields DEF Fails, Goes, OiIInv, OiTyped
<1>2. OiTyped'
  BY <1>1 DEF OiIInv, OiTyped, Stores
<1>3. ConnectionsCounted'
  <2>1. Writing' = Writing \ {w} /\ w \in Writing
    BY <1>1, NoWriteFields DEF Writing
  <2> QED BY <1>1, <2>1, GivesBack
<1>4. \A v \in Writers : CallOK(v, oiCall[v])'
  BY <1>1, NoWriteFields DEF OiIInv, CallOK, Operations
<1>5. LocksExclude'
  BY <1>1, NoWriteFields DEF OiIInv, LocksExclude
<1>6. NestedFresh'
  BY <1>1, NoWriteFields DEF OiIInv, NestedFresh, EventsOf, FirstEvents, EventsBefore
<1>7. StoredIsAnnounced'
  <2>1. \A e \in DOMAIN oiStored : oiStored[e] \in Writers
    BY DEF OiIInv, OiTyped, Stores
  <2>2. oiTorn' = IF oiCall[w].nested THEN oiTorn \cup EventsOf(w) ELSE oiTorn
    BY DEF Fails
  <2>3. oiTakes => ~oiCall[w].nested
    BY DEF OiIInv, CallOK
  <2>4. \A v \in Writers : EventsOf(v)' = EventsOf(v)
    BY DEF EventsOf, FirstEvents, EventsBefore
  <2> QED BY <1>1, <2>1, <2>2, <2>3, <2>4 DEF OiIInv, StoredIsAnnounced
<1>8. (WrittenIsAnnounced /\ AnnouncedIsStored /\ KeptUntilOut /\ SagaFollows)'
  BY DEF OiIInv, WrittenIsAnnounced, AnnouncedIsStored, KeptUntilOut, SagaFollows, Operations
<1> QED BY <1>2, <1>3, <1>4, <1>5, <1>6, <1>7, <1>8 DEF OiIInv

\* The caller loads a version, or begins a transaction on a free connection.
LEMMA BeginningMoves ==
    ASSUME OiIInv, NEW w \in Writers, LoadVersion(w) \/ BeginTx(w)
    PROVE  OiIInv'
<1> USE DEF oiFixed, oiTables
<1>0. oiCall[w].at = "idle" /\ ~oiCall[w].locks /\ ~oiCall[w].nested
  BY DEF LoadVersion, BeginTx, OiIInv, CallOK
<1>1. CASE LoadVersion(w)
  <2> DEFINE k == Len(oiStored)
  <2>1. /\ k \in Nat /\ oiBase' = [oiBase EXCEPT ![w] = k] /\ k <= PerCall * (Cardinality(Writers) - 1)
        /\ UNCHANGED <<oiCall, oiFree, oiKind, oiTakes, oiTorn, oiRows, oiOutbox, oiStored, oiUncommitted, oiSaga, oiCommits>>
    BY <1>1 DEF LoadVersion, OiIInv, OiTyped
  <2>2. k + PerCall <= Capacity
    <3>1. Cardinality(Writers) \in Nat
      BY IntegrationAssumption, FS_CardinalityType
    <3> HIDE DEF k
    <3> QED BY <2>1, <3>1 DEF Capacity, PerCall
  <2> HIDE DEF k
  <2>3. oiBase' \in [Writers -> Nat] /\ \A v \in Writers : oiBase'[v] + PerCall <= Capacity
    BY <2>1, <2>2 DEF OiIInv, OiTyped
  <2>4. OiTyped'
    BY <2>1, <2>3 DEF OiIInv, OiTyped, Stores
  <2>5. \A v \in Writers \ {w} : oiBase'[v] = oiBase[v] /\ EventsOf(v)' = EventsOf(v)
    BY <2>1 DEF EventsOf, FirstEvents, EventsBefore, OiIInv, OiTyped
  <2>6. Writing' = Writing
    BY <2>1 DEF Writing
  <2>7. ConnectionsCounted'
    BY <2>1, <2>6 DEF ConnectionsCounted, OiIInv
  <2>8. \A v \in Writers : CallOK(v, oiCall[v])'
    BY <2>1 DEF OiIInv, CallOK, Operations
  <2>9. LocksExclude' /\ NestedFresh'
    BY <1>0, <2>1, <2>5 DEF OiIInv, LocksExclude, NestedFresh
  <2>10. StoredIsAnnounced'
    <3>1. \A e \in DOMAIN oiStored : oiStored[e] \in Writers
      BY DEF OiIInv, OiTyped, Stores
    <3> QED BY <1>0, <2>1, <2>5, <3>1 DEF OiIInv, StoredIsAnnounced
  <2>11. (WrittenIsAnnounced /\ AnnouncedIsStored /\ KeptUntilOut /\ SagaFollows)'
    BY <2>1 DEF OiIInv, WrittenIsAnnounced, AnnouncedIsStored, KeptUntilOut, SagaFollows, Operations
  <2> QED BY <2>4, <2>7, <2>8, <2>9, <2>10, <2>11 DEF OiIInv
<1>2. CASE BeginTx(w)
  <2> DEFINE c == [NoWrite EXCEPT !.at = "operate"]
  <2>1. c \in WriteCalls /\ c.at = "operate" /\ c.ran = 0 /\ ~c.locks /\ ~c.nested
    BY NoWriteFields DEF WriteCalls
  <2>2. CallOK(w, c)
    BY <2>1 DEF CallOK, Operations, PerCall
  <2>3. /\ oiFree > 0 /\ oiFree' = oiFree - 1 /\ oiCall' = [oiCall EXCEPT ![w] = c]
        /\ UNCHANGED <<oiKind, oiTakes, oiTorn, oiRows, oiOutbox, oiStored, oiUncommitted, oiSaga, oiCommits, oiBase>>
    BY <1>2 DEF BeginTx, Goes
  <2> HIDE DEF c
  <2>4. oiCall' \in [Writers -> WriteCalls] /\ oiCall'[w] = c /\ \A v \in Writers \ {w} : oiCall'[v] = oiCall[v]
    BY <2>1, <2>3 DEF OiIInv, OiTyped
  <2>5. OiTyped'
    BY <2>3, <2>4 DEF OiIInv, OiTyped, Stores
  <2>6. ConnectionsCounted'
    <3>1. Writing' = Writing \cup {w} /\ w \notin Writing
      BY <1>0, <2>1, <2>4 DEF Writing
    <3>2. IsFiniteSet(Writing)
      BY IntegrationAssumption, FS_Subset DEF Writing
    <3>3. Cardinality(Writing') = Cardinality(Writing) + 1 /\ Cardinality(Writing) \in Nat
      BY <3>1, <3>2, FS_AddElement, FS_CardinalityType
    <3> QED BY <2>3, <3>3 DEF ConnectionsCounted, OiIInv, OiTyped
  <2>7. \A v \in Writers : CallOK(v, oiCall[v])'
    BY <2>2, <2>3, <2>4 DEF OiIInv, CallOK, Operations
  <2>8. LocksExclude'
    BY <2>1, <2>3, <2>4 DEF OiIInv, LocksExclude
  <2>9. \A v \in Writers : EventsOf(v)' = EventsOf(v)
    BY <2>3 DEF EventsOf, FirstEvents, EventsBefore
  <2>10. NestedFresh'
    BY <2>1, <2>3, <2>4, <2>9 DEF OiIInv, NestedFresh
  <2>11. StoredIsAnnounced'
    <3>1. \A e \in DOMAIN oiStored : oiStored[e] \in Writers
      BY DEF OiIInv, OiTyped, Stores
    <3> QED BY <1>0, <2>3, <2>4, <2>9, <3>1 DEF OiIInv, StoredIsAnnounced
  <2>12. (WrittenIsAnnounced /\ AnnouncedIsStored /\ KeptUntilOut /\ SagaFollows)'
    BY <2>3 DEF OiIInv, WrittenIsAnnounced, AnnouncedIsStored, KeptUntilOut, SagaFollows, Operations
  <2> QED BY <2>5, <2>6, <2>7, <2>8, <2>10, <2>11, <2>12 DEF OiIInv
<1> QED BY <1>1, <1>2

\* Storing a call's events appends them after what is stored.
LEMMA StoredGrows ==
    ASSUME OiTyped, NEW w \in Stores, StoreEvents(w)
    PROVE  /\ oiStored' \in Seq(Stores) /\ Len(oiStored') = Len(oiStored) + PerCall
           /\ \A e \in 1 .. Len(oiStored) : oiStored'[e] = oiStored[e]
           /\ \A e \in Len(oiStored) + 1 .. Len(oiStored) + PerCall : oiStored'[e] = w
<1> DEFINE s == oiStored
           n == [i \in 1 .. PerCall |-> w]
<1>1. n \in Seq(Stores) /\ Len(n) = PerCall
  BY DEF PerCall
<1>2. s \in Seq(Stores) /\ oiStored' = s \o n
  BY DEF OiTyped, StoreEvents
<1> QED BY <1>1, <1>2 DEF PerCall

\* A store commits by itself: its events are those of its nested call, or torn.
LEMMA NestedMoves ==
    ASSUME OiIInv, NEW w \in Stores, ~oiTakes, oiCall[w].at = "operate", oiBase[w] = Len(oiStored),
           StoreEvents(w), NEW c \in WriteCalls, CallOK(w, c), Goes(w, c), ~c.locks,
           \/ c.nested /\ c.at # "idle" /\ UNCHANGED <<oiFree, oiTorn>>
           \/ c.at = "idle" /\ oiFree' = oiFree + 1 /\ oiTorn' = oiTorn \cup EventsOf(w),
           UNCHANGED <<oiFixed, oiRows, oiOutbox, oiUncommitted, oiSaga, oiCommits, oiBase>>
    PROVE  OiIInv'
<1> USE DEF oiFixed
<1>0. w \in Writers /\ oiKind[w] = "store" /\ OiTyped
  BY DEF Stores, OiIInv
<1>1. /\ oiCall' \in [Writers -> WriteCalls] /\ oiCall'[w] = c
      /\ \A v \in Writers \ {w} : oiCall'[v] = oiCall[v]
  BY <1>0 DEF Goes, OiTyped
<1>2. /\ oiStored' \in Seq(Stores) /\ Len(oiStored') = Len(oiStored) + PerCall
      /\ \A e \in 1 .. Len(oiStored) : oiStored'[e] = oiStored[e]
      /\ \A e \in Len(oiStored) + 1 .. Len(oiStored) + PerCall : oiStored'[e] = w
  BY <1>0, StoredGrows
<1>3. EventsOf(w) = Len(oiStored) + 1 .. Len(oiStored) + PerCall /\ \A v \in Writers : EventsOf(v)' = EventsOf(v)
  BY <1>0 DEF EventsOf, FirstEvents, EventsBefore
<1>4. OiTyped'
  <2>1. oiFree' \in Nat /\ Len(oiStored') <= Capacity
    BY <1>0, <1>2 DEF OiTyped
  <2>2. oiStored' \in Seq(Stores') 
    BY <1>2 DEF Stores
  <2> QED BY <1>0, <1>1, <2>1, <2>2 DEF OiTyped
<1>5. ConnectionsCounted'
  <2>1. CASE c.at # "idle" /\ UNCHANGED oiFree
    <3>1. Writing' = Writing
      BY <1>0, <1>1, <2>1 DEF Writing
    <3> QED BY <2>1, <3>1 DEF ConnectionsCounted, OiIInv
  <2>2. CASE c.at = "idle" /\ oiFree' = oiFree + 1
    <3>1. Writing' = Writing \ {w} /\ w \in Writing
      BY <1>0, <1>1, <2>2 DEF Writing
    <3> QED BY <2>2, <3>1, GivesBack
  <2> QED BY <2>1, <2>2
<1>6. \A v \in Writers : CallOK(v, oiCall[v])'
  BY <1>1 DEF OiIInv, CallOK, Operations
<1>7. \A v \in Writers : oiCall'[v].locks => oiCall[v].locks /\ oiKind[v] # "store"
  BY <1>0, <1>1 DEF OiIInv, CallOK, OiTyped, WriteCalls
<1>8. LocksExclude'
  BY <1>7 DEF OiIInv, LocksExclude
<1>9. \A e \in EventsOf(w) : oiOutbox[w][e] = 0
  <2> SUFFICES ASSUME NEW e \in EventsOf(w) PROVE oiOutbox[w][e] = 0
    OBVIOUS
  <2>1. e \in 1 .. Capacity /\ Len(oiStored) \in Nat /\ e \in Nat /\ e > Len(oiStored)
    BY <1>0, <1>3, CapacityIsNat DEF OiTyped, PerCall
  <2>2. oiOutbox[w] \in [1 .. Capacity -> Nat] /\ oiOutbox[w][e] \in Nat
    BY <1>0, <2>1 DEF OiTyped
  <2>3. oiOutbox[w][e] <= 1 /\ oiOutbox[w][e] # 1
    <3>1. e \in DOMAIN oiOutbox[w]
      BY <2>1, <2>2
    <3> QED BY <1>0, <2>1, <3>1 DEF OiIInv, AnnouncedIsStored
  <2> QED BY <2>2, <2>3
<1>10. Len(oiStored) \in Nat /\ Len(oiStored) <= Len(oiStored')
  BY <1>0, <1>2 DEF OiTyped, PerCall
<1>11. NestedFresh'
  <2> SUFFICES ASSUME NEW v \in Writers, oiCall'[v].nested, NEW e \in EventsOf(v)
               PROVE  e <= Len(oiStored') /\ oiStored'[e] = v /\ oiOutbox[v][e] = 0
    BY <1>3 DEF NestedFresh
  <2>1. CASE v = w
    BY <1>2, <1>3, <1>9, <1>10, <2>1
  <2>2. CASE v # w
    <3>1. e <= Len(oiStored) /\ oiStored[e] = v /\ oiOutbox[v][e] = 0
      BY <1>1, <2>2 DEF OiIInv, NestedFresh
    <3>2. e \in Nat /\ e > 0
      BY <1>0 DEF EventsOf, FirstEvents, EventsBefore, PerCall, OiTyped
    <3> QED BY <1>2, <1>10, <3>1, <3>2
  <2> QED BY <2>1, <2>2
<1>12. AnnouncedIsStored'
  <2> SUFFICES ASSUME NEW v \in Writers, oiKind[v] = "store", NEW e \in 1 .. Capacity
               PROVE  /\ oiOutbox[v][e] <= 1
                      /\ oiOutbox[v][e] = 1 => e <= Len(oiStored') /\ oiStored'[e] = v
    BY <1>0 DEF AnnouncedIsStored, OiTyped
  <2>1. /\ oiOutbox[v][e] <= 1
        /\ oiOutbox[v][e] = 1 => e <= Len(oiStored) /\ oiStored[e] = v
    BY <1>0 DEF AnnouncedIsStored, OiTyped, OiIInv
  <2> QED BY <1>2, <1>10, <2>1
<1>13. StoredIsAnnounced'
  <2>1. DOMAIN oiStored' = 1 .. Len(oiStored') /\ \A e \in 1 .. Len(oiStored') : oiStored'[e] \in Writers
    BY <1>2 DEF Stores
  <2>2. SUFFICES ASSUME NEW e \in 1 .. Len(oiStored'), NEW v \in Writers, v = oiStored'[e]
                 PROVE  oiOutbox[v][e] = 1 \/ e \in oiTorn' \/ (oiCall'[v].nested /\ e \in EventsOf(v))
    BY <1>3, <2>1 DEF StoredIsAnnounced
  <2>3. CASE e <= Len(oiStored)
    <3>1. e \in DOMAIN oiStored /\ v = oiStored[e]
      BY <1>2, <1>10, <2>2, <2>3 DEF OiIInv, OiTyped
    <3>2. oiOutbox[v][e] = 1 \/ e \in oiTorn \/ (oiCall[v].nested /\ e \in EventsOf(v))
      BY <3>1 DEF OiIInv, StoredIsAnnounced
    <3>3. ~oiCall[w].nested
      BY <1>0 DEF OiIInv, CallOK
    <3> QED BY <1>1, <3>2, <3>3
  <2>4. CASE ~(e <= Len(oiStored))
    <3>1. e \in EventsOf(w) /\ v = w
      BY <1>2, <1>3, <1>10, <2>2, <2>4
    <3> QED BY <1>1, <3>1
  <2> QED BY <2>3, <2>4
<1>14. (WrittenIsAnnounced /\ KeptUntilOut /\ SagaFollows)'
  BY DEF OiIInv, WrittenIsAnnounced, KeptUntilOut, SagaFollows, Operations
<1> QED BY <1>4, <1>5, <1>6, <1>8, <1>11, <1>12, <1>13, <1>14 DEF OiIInv

\* What a commit makes of the outbox and of the store.
LEMMA CommitWrites ==
    ASSUME OiIInv, NEW w \in Writers, oiCall[w].at = "add", oiCall[w].added = PerCall, Applied(w),
           UNCHANGED <<oiFixed, oiBase, oiTorn>>
    PROVE  /\ \A v \in Writers \ {w} : oiOutbox'[v] = oiOutbox[v]
           /\ oiOutbox' \in [Writers -> [1 .. Capacity -> Nat]]
           /\ \A e \in 1 .. Capacity : oiOutbox'[w][e] = IF e \in EventsOf(w) THEN oiOutbox[w][e] + 1 ELSE oiOutbox[w][e]
           /\ oiStored' \in Seq(Stores) /\ Len(oiStored) <= Len(oiStored') /\ Len(oiStored') <= Capacity
           /\ \A e \in 1 .. Len(oiStored) : oiStored'[e] = oiStored[e]
           /\ \A e \in 1 .. Len(oiStored') : e > Len(oiStored) => e \in EventsOf(w) /\ oiStored'[e] = w /\ oiKind[w] = "store"
           /\ oiKind[w] = "store" => \A e \in EventsOf(w) :
                  oiOutbox[w][e] = 0 /\ e \in 1 .. Len(oiStored') /\ oiStored'[e] = w
<1>0. OiTyped /\ CallOK(w, oiCall[w])
  BY DEF OiIInv
<1>1. EventsOf(w) \subseteq 1 .. Capacity /\ \A e \in EventsOf(w) : e \in Nat /\ e > 0
  BY <1>0, CapacityIsNat DEF OiTyped, EventsOf, FirstEvents, EventsBefore, PerCall
<1>2. oiOutbox' = [oiOutbox EXCEPT ![w] = [e \in DOMAIN @ |-> IF e \in EventsOf(w) THEN @[e] + 1 ELSE @[e]]]
  BY DEF Applied, EventsOf
<1>3. oiOutbox[w] \in [1 .. Capacity -> Nat]
  BY <1>0 DEF OiTyped
<1> DEFINE announced == [e \in 1 .. Capacity |-> IF e \in EventsOf(w) THEN oiOutbox[w][e] + 1 ELSE oiOutbox[w][e]]
<1>4. announced \in [1 .. Capacity -> Nat] /\ oiOutbox' = [oiOutbox EXCEPT ![w] = announced]
  <2>1. DOMAIN oiOutbox[w] = 1 .. Capacity /\ \A e \in 1 .. Capacity : oiOutbox[w][e] \in Nat
    BY <1>3
  <2>2. announced \in [1 .. Capacity -> Nat]
    BY <2>1
  <2> QED BY <1>2, <2>1, <2>2
<1>5. \A e \in 1 .. Capacity : announced[e] = IF e \in EventsOf(w) THEN oiOutbox[w][e] + 1 ELSE oiOutbox[w][e]
  OBVIOUS
<1> HIDE DEF announced
<1>6. /\ \A v \in Writers \ {w} : oiOutbox'[v] = oiOutbox[v]
      /\ oiOutbox' \in [Writers -> [1 .. Capacity -> Nat]] /\ oiOutbox'[w] = announced
  BY <1>0, <1>4 DEF OiTyped
<1>7. Len(oiStored) \in Nat /\ oiStored \in Seq(Stores) /\ Len(oiStored) <= Capacity
  BY <1>0 DEF OiTyped
<1>8. CASE oiKind[w] = "store" /\ oiCall[w].locks
  <2>1. StoreEvents(w) /\ w \in Stores /\ oiBase[w] = Len(oiStored)
    BY <1>8 DEF Applied, Stores, OiIInv, LocksExclude
  <2>2. /\ oiStored' \in Seq(Stores) /\ Len(oiStored') = Len(oiStored) + PerCall
        /\ \A e \in 1 .. Len(oiStored) : oiStored'[e] = oiStored[e]
        /\ \A e \in Len(oiStored) + 1 .. Len(oiStored) + PerCall : oiStored'[e] = w
    BY <1>0, <2>1, StoredGrows
  <2>3. EventsOf(w) = Len(oiStored) + 1 .. Len(oiStored) + PerCall
    BY <1>8, <2>1 DEF EventsOf, FirstEvents, EventsBefore
  <2>4. \A e \in EventsOf(w) : oiOutbox[w][e] = 0
    <3> SUFFICES ASSUME NEW e \in EventsOf(w) PROVE oiOutbox[w][e] = 0
      OBVIOUS
    <3>1. e \in DOMAIN oiOutbox[w] /\ e \in 1 .. Capacity /\ ~(e <= Len(oiStored))
      <4>1. e \in 1 .. Capacity
        BY <1>1
      <4>2. ~(e <= Len(oiStored))
        BY <1>7, <2>3
      <4> QED BY <1>3, <4>1, <4>2
    <3>2. oiOutbox[w][e] <= 1 /\ oiOutbox[w][e] # 1
      BY <1>8, <3>1 DEF OiIInv, AnnouncedIsStored
    <3>3. oiOutbox[w][e] \in Nat
      BY <1>3, <3>1
    <3> QED BY <3>2, <3>3
  <2>5. Len(oiStored') <= Capacity
    BY <1>0, <2>1, <2>2 DEF OiTyped
  <2>6. \A e \in 1 .. Len(oiStored') : e > Len(oiStored) => e \in EventsOf(w)
    BY <1>7, <2>2, <2>3 DEF PerCall
  <2>7. \A e \in EventsOf(w) : e \in 1 .. Len(oiStored')
    BY <1>7, <2>2, <2>3 DEF PerCall
  <2>8. Len(oiStored) <= Len(oiStored')
    BY <1>7, <2>2 DEF PerCall
  <2> QED BY <1>5, <1>6, <1>8, <2>2, <2>3, <2>4, <2>5, <2>6, <2>7, <2>8
<1>9. CASE ~(oiKind[w] = "store" /\ oiCall[w].locks)
  <2>1. UNCHANGED oiStored
    BY <1>9 DEF Applied
  <2>2. oiKind[w] = "store" => oiCall[w].nested
    BY <1>0, <1>9 DEF CallOK, OiTyped
  <2>3. oiKind[w] = "store" => \A e \in EventsOf(w) : e <= Len(oiStored) /\ oiStored[e] = w /\ oiOutbox[w][e] = 0
    BY <2>2 DEF OiIInv, NestedFresh
  <2>4. oiKind[w] = "store" => \A e \in EventsOf(w) : e \in 1 .. Len(oiStored)
    BY <1>1, <1>7, <2>3
  <2> QED BY <1>5, <1>6, <1>7, <2>1, <2>3, <2>4
<1> QED BY <1>8, <1>9

\* The rows of a commit are those of all its operations.
LEMMA RowsMultiply ==
    ASSUME NEW rows \in Nat, NEW commits \in Nat, NEW k \in {1, 2}, rows = commits * k
    PROVE  rows + k = (commits + 1) * k
OBVIOUS

\* A transaction is committed: rows, outbox, store and saga change together.
LEMMA OutboxCommitMoves ==
    ASSUME OiIInv, NEW w \in Writers, CommitTransaction(w)
    PROVE  OiIInv'
<1> USE DEF oiFixed
<1>0. OiTyped /\ CallOK(w, oiCall[w]) /\ oiCall[w].at = "add" /\ oiCall[w].added = PerCall /\ Applied(w)
      /\ UNCHANGED <<oiKind, oiTakes, oiBase, oiTorn>>
  BY DEF OiIInv, CommitTransaction
<1>1. /\ oiCall' \in [Writers -> WriteCalls] /\ oiCall'[w] = NoWrite
      /\ \A v \in Writers \ {w} : oiCall'[v] = oiCall[v]
      /\ oiFree' = oiFree + 1
  BY <1>0, NoWriteFields DEF Applied, Goes, OiTyped
<1>2. /\ \A v \in Writers \ {w} : oiOutbox'[v] = oiOutbox[v]
      /\ oiOutbox' \in [Writers -> [1 .. Capacity -> Nat]]
      /\ \A e \in 1 .. Capacity : oiOutbox'[w][e] = IF e \in EventsOf(w) THEN oiOutbox[w][e] + 1 ELSE oiOutbox[w][e]
      /\ oiStored' \in Seq(Stores) /\ Len(oiStored) <= Len(oiStored') /\ Len(oiStored') <= Capacity
      /\ \A e \in 1 .. Len(oiStored) : oiStored'[e] = oiStored[e]
      /\ \A e \in 1 .. Len(oiStored') : e > Len(oiStored) => e \in EventsOf(w) /\ oiStored'[e] = w /\ oiKind[w] = "store"
      /\ oiKind[w] = "store" => \A e \in EventsOf(w) :
             oiOutbox[w][e] = 0 /\ e \in 1 .. Len(oiStored') /\ oiStored'[e] = w
  BY <1>0, CommitWrites
<1>3. \A v \in Writers : EventsOf(v)' = EventsOf(v) /\ Operations(v)' = Operations(v)
  BY <1>0 DEF EventsOf, FirstEvents, EventsBefore, Operations
<1>4. Operations(w) \in {1, 2} /\ oiCall[w].ran = Operations(w)
  BY <1>0 DEF CallOK, Operations, PerCall
<1> DEFINE commits == oiCommits[w] + 1
           rows == oiRows[w] + Operations(w)
<1>5. /\ commits \in Nat /\ rows \in Nat /\ commits > 0
      /\ oiCommits' = [oiCommits EXCEPT ![w] = commits] /\ oiRows' = [oiRows EXCEPT ![w] = rows]
  BY <1>0, <1>4 DEF Applied, OiTyped
<1>6. oiKind[w] # "store" => rows = commits * Operations(w)
  BY <1>0, <1>4, RowsMultiply DEF OiIInv, WrittenIsAnnounced, OiTyped
<1>7. commits = oiCommits[w] + 1 /\ oiCommits[w] \in Nat
  BY <1>0 DEF OiTyped
<1> HIDE DEF commits, rows
<1>8. /\ oiCommits' \in [Writers -> Nat] /\ oiCommits'[w] = commits
      /\ oiRows' \in [Writers -> Nat] /\ oiRows'[w] = rows
      /\ \A v \in Writers \ {w} : oiCommits'[v] = oiCommits[v] /\ oiRows'[v] = oiRows[v]
  BY <1>0, <1>5 DEF OiTyped
<1>9. oiSaga' = IF oiKind[w] = "saga" /\ oiCall[w].locks THEN "completed" ELSE oiSaga
  BY <1>0 DEF Applied
<1>10. OiTyped'
  <2>1. oiStored' \in Seq(Stores') /\ oiFree' \in Nat
    BY <1>0, <1>1, <1>2 DEF Stores, OiTyped
  <2> QED BY <1>0, <1>1, <1>2, <1>8, <1>9, <2>1 DEF OiTyped
<1>11. ConnectionsCounted'
  <2>1. Writing' = Writing \ {w} /\ w \in Writing
    BY <1>0, <1>1, NoWriteFields DEF Writing
  <2> QED BY <1>1, <2>1, GivesBack
<1>12. \A v \in Writers : CallOK(v, oiCall[v])'
  <2>1. CallOK(w, oiCall[w])'
    BY <1>1, NoWriteFields DEF CallOK
  <2>2. ASSUME NEW v \in Writers \ {w} PROVE CallOK(v, oiCall[v])'
    <3>1. oiKind[v] = "saga" /\ oiKind[w] = "saga" /\ oiCall[w].locks => ~oiCall[v].locks
      BY DEF OiIInv, LocksExclude
    <3>2. CallOK(v, oiCall[v]) /\ oiCall'[v] = oiCall[v]
      BY <1>1 DEF OiIInv
    <3>3. oiKind[v] = "saga" /\ oiCall[v].at \in {"step", "add"} => (oiCall[v].locks <=> oiSaga' = "running")
      BY <1>9, <3>1, <3>2 DEF CallOK
    <3> QED BY <1>0, <1>3, <3>2, <3>3 DEF CallOK
  <2> QED BY <2>1, <2>2
<1>13. LocksExclude'
  <2>1. \A v \in Writers : oiCall'[v].locks => v # w /\ oiCall[v].locks
    BY <1>1, NoWriteFields
  <2>2. \A v \in Writers : oiCall'[v].locks /\ oiKind[v] = "store" => Len(oiStored') = Len(oiStored)
    <3>1. (oiKind[w] = "store" /\ oiCall[w].locks) \/ UNCHANGED oiStored
      BY <1>0 DEF Applied
    <3> QED BY <2>1, <3>1 DEF OiIInv, LocksExclude
  <2> QED BY <1>0, <2>1, <2>2 DEF OiIInv, LocksExclude
<1>14. NestedFresh'
  <2> SUFFICES ASSUME NEW v \in Writers, oiCall'[v].nested, NEW e \in EventsOf(v)
               PROVE  e <= Len(oiStored') /\ oiStored'[e] = v /\ oiOutbox'[v][e] = 0
    BY <1>3 DEF NestedFresh
  <2>1. v # w /\ oiCall[v].nested
    BY <1>1, NoWriteFields
  <2>2. e <= Len(oiStored) /\ oiStored[e] = v /\ oiOutbox[v][e] = 0
    BY <2>1 DEF OiIInv, NestedFresh
  <2>3. e \in Nat /\ e > 0 /\ Len(oiStored) \in Nat /\ Len(oiStored') \in Nat
    BY <1>0, <1>2 DEF EventsOf, FirstEvents, EventsBefore, PerCall, OiTyped
  <2> QED BY <1>2, <2>1, <2>2, <2>3
<1>15. WrittenIsAnnounced'
  <2> SUFFICES ASSUME NEW v \in Writers, oiKind[v] # "store"
               PROVE  /\ oiRows'[v] = oiCommits'[v] * Operations(v)
                      /\ \A e \in 1 .. PerCall : oiOutbox'[v][e] = oiCommits'[v]
    BY <1>0, <1>3 DEF WrittenIsAnnounced
  <2>1. /\ oiRows[v] = oiCommits[v] * Operations(v)
        /\ \A e \in 1 .. PerCall : oiOutbox[v][e] = oiCommits[v]
    BY DEF OiIInv, WrittenIsAnnounced
  <2>2. CASE v # w
    BY <1>2, <1>8, <2>1, <2>2
  <2>3. CASE v = w
    <3>1. EventsOf(w) = 1 .. PerCall
      BY <2>3 DEF EventsOf, FirstEvents, EventsBefore, PerCall
    <3>2. 1 .. PerCall \subseteq 1 .. Capacity
      BY CapacityIsNat DEF PerCall
    <3> QED BY <1>2, <1>6, <1>7, <1>8, <2>1, <2>3, <3>1, <3>2
  <2> QED BY <2>2, <2>3
<1>16. AnnouncedIsStored'
  <2> SUFFICES ASSUME NEW v \in Writers, oiKind[v] = "store", NEW e \in 1 .. Capacity
               PROVE  /\ oiOutbox'[v][e] <= 1
                      /\ oiOutbox'[v][e] = 1 => e <= Len(oiStored') /\ oiStored'[e] = v
    BY <1>0, <1>2 DEF AnnouncedIsStored
  <2>1. e \in DOMAIN oiOutbox[v]
    BY <1>0 DEF OiTyped
  <2>2. /\ oiOutbox[v][e] <= 1
        /\ oiOutbox[v][e] = 1 => e <= Len(oiStored) /\ oiStored[e] = v
    BY <2>1 DEF OiIInv, AnnouncedIsStored
  <2>3. Len(oiStored) \in Nat /\ Len(oiStored') \in Nat
    BY <1>0, <1>2 DEF OiTyped
  <2>4. CASE v = w /\ e \in EventsOf(w)
    <3>1. oiOutbox'[w][e] = 1
      BY <1>2, <2>4
    <3> QED BY <1>2, <2>4, <3>1
  <2>5. CASE ~(v = w /\ e \in EventsOf(w))
    <3>1. oiOutbox'[v][e] = oiOutbox[v][e]
      BY <1>2, <2>5
    <3> QED BY <1>2, <2>2, <2>3, <3>1
  <2> QED BY <2>4, <2>5
<1>17. StoredIsAnnounced'
  <2>1. DOMAIN oiStored' = 1 .. Len(oiStored') /\ \A e \in 1 .. Len(oiStored') : oiStored'[e] \in Stores
    BY <1>2
  <2>2. SUFFICES ASSUME NEW e \in 1 .. Len(oiStored'), NEW v \in Stores, v = oiStored'[e]
                 PROVE  oiOutbox'[v][e] = 1 \/ e \in oiTorn \/ (oiCall'[v].nested /\ e \in EventsOf(v))
    <3>1. oiTakes => oiTorn = {}
      BY DEF OiIInv, StoredIsAnnounced
    <3> QED BY <1>0, <1>3, <2>1, <3>1 DEF StoredIsAnnounced, Stores
  <2>3. e \in 1 .. Capacity /\ v \in Writers /\ oiKind[v] = "store"
        /\ Len(oiStored) \in Nat /\ Len(oiStored') \in Nat
    <3>1. Len(oiStored) \in Nat /\ Len(oiStored') \in Nat /\ Len(oiStored') <= Capacity
      BY <1>0, <1>2 DEF OiTyped
    <3>2. e \in 1 .. Capacity
      BY <3>1, CapacityIsNat
    <3> QED BY <3>1, <3>2 DEF Stores
  <2>4. CASE v = w /\ e \in EventsOf(w)
    BY <1>2, <2>3, <2>4
  <2>5. CASE ~(v = w /\ e \in EventsOf(w))
    <3>1. e <= Len(oiStored) /\ oiStored[e] = v
      BY <1>2, <2>2, <2>3, <2>5
    <3>2. e \in DOMAIN oiStored
      BY <1>0, <2>3, <3>1 DEF OiTyped
    <3>3. oiOutbox[v][e] = 1 \/ e \in oiTorn \/ (oiCall[v].nested /\ e \in EventsOf(v))
      BY <3>1, <3>2 DEF OiIInv, StoredIsAnnounced
    <3>4. oiOutbox'[v][e] = oiOutbox[v][e]
      BY <1>2, <2>3, <2>5
    <3> QED BY <1>1, <2>3, <2>5, <3>3, <3>4
  <2> QED BY <2>4, <2>5
<1>18. KeptUntilOut'
  <2>1. oiUncommitted \ {w} \subseteq oiUncommitted'
    BY DEF CommitTransaction
  <2> QED BY <1>0, <1>5, <1>8, <2>1 DEF OiIInv, KeptUntilOut
<1>19. SagaFollows'
  <2>1. CASE oiKind[w] = "saga" /\ oiCall[w].locks
    BY <1>0, <1>5, <1>8, <1>9, <2>1 DEF SagaFollows
  <2>2. CASE oiKind[w] # "saga"
    <3>1. \A v \in Writers : oiKind[v] = "saga" => oiCommits'[v] = oiCommits[v]
      BY <1>8, <2>2
    <3> QED BY <1>0, <1>9, <2>2, <3>1 DEF OiIInv, SagaFollows
  <2>3. CASE oiKind[w] = "saga" /\ ~oiCall[w].locks
    <3>1. oiSaga' # "running"
      BY <1>0, <1>9, <2>3 DEF CallOK
    <3> QED BY <1>0, <1>5, <1>8, <2>3, <3>1 DEF SagaFollows
  <2> QED BY <2>1, <2>2, <2>3
<1> QED BY <1>10, <1>11, <1>12, <1>13, <1>14, <1>15, <1>16, <1>17, <1>18, <1>19 DEF OiIInv

\* One operation more has run.
LEMMA OperationMoves ==
    ASSUME OiIInv, NEW w \in Writers, RunOperation(w)
    PROVE  OiIInv'
<1> DEFINE n == oiCall[w].ran + 1
           at == IF n < Operations(w) THEN "operate" ELSE "add"
           c == [oiCall[w] EXCEPT !.ran = n, !.at = at]
<1>1. oiCall[w] \in WriteCalls /\ CallOK(w, oiCall[w]) /\ oiCall[w].at = "operate" /\ Goes(w, c)
      /\ oiKind[w] \in {"operation", "batch"} /\ UNCHANGED <<oiFixed, oiTables, oiFree, oiBase, oiTorn>>
  BY DEF RunOperation, OiIInv, OiTyped
<1>2. n \in Nat /\ at \in {"operate", "add"} /\ (at = "operate" => n < Operations(w)) /\ (at = "add" => n = Operations(w))
  BY <1>1 DEF WriteCalls, CallOK, Operations, PerCall
<1> HIDE DEF n, at
<1>3. c \in WriteCalls /\ c.at = at /\ c.ran = n /\ ~c.locks /\ ~c.nested /\ c.nested = oiCall[w].nested
  BY <1>1, <1>2 DEF WriteCalls, CallOK
<1> HIDE DEF c
<1>4. CallOK(w, c)
  BY <1>1, <1>2, <1>3 DEF CallOK
<1> QED BY <1>1, <1>2, <1>3, <1>4, QuietMoves

\* A call that ran its operation in its transaction adds its events next.
LEMMA RanFields ==
    ASSUME NEW c \in WriteCalls, NEW locks \in BOOLEAN, NEW nested \in BOOLEAN
    PROVE  /\ LET d == [c EXCEPT !.ran = 1, !.locks = locks, !.at = "add"]
              IN  d \in WriteCalls /\ d.at = "add" /\ d.ran = 1 /\ d.locks = locks /\ d.nested = c.nested
           /\ LET d == [c EXCEPT !.ran = 1, !.nested = nested, !.at = "add"]
              IN  d \in WriteCalls /\ d.at = "add" /\ d.ran = 1 /\ d.locks = c.locks /\ d.nested = nested
           /\ LET d == [c EXCEPT !.ran = 1, !.at = "add"]
              IN  d \in WriteCalls /\ d.at = "add" /\ d.ran = 1 /\ d.locks = c.locks /\ d.nested = c.nested
BY DEF WriteCalls

\* The aggregate's save takes the transaction, or is an error.
LEMMA AggregateMoves ==
    ASSUME OiIInv, NEW w \in Writers, SaveAggregateInTransaction(w)
    PROVE  OiIInv'
<1> DEFINE c == [oiCall[w] EXCEPT !.ran = 1, !.at = "add"]
<1>1. oiCall[w] \in WriteCalls /\ CallOK(w, oiCall[w]) /\ oiCall[w].at = "operate" /\ oiKind[w] = "aggregate"
      /\ UNCHANGED <<oiFixed, oiTables, oiBase>>
  BY DEF SaveAggregateInTransaction, OiIInv, OiTyped
<1>2. CASE Goes(w, c) /\ UNCHANGED <<oiFree, oiTorn>>
  <2>1. c \in WriteCalls /\ c.at = "add" /\ c.ran = 1 /\ c.locks = oiCall[w].locks /\ c.nested = oiCall[w].nested
    BY <1>1, RanFields
  <2> HIDE DEF c
  <2>2. CallOK(w, c) /\ ~c.locks
    BY <1>1, <2>1 DEF CallOK, Operations
  <2> QED BY <1>1, <1>2, <2>1, <2>2, QuietMoves
<1>3. CASE Fails(w)
  BY <1>1, <1>3, FailMoves
<1> QED BY <1>2, <1>3 DEF SaveAggregateInTransaction

\* A store that takes the transaction writes the next versions, or finds them taken.
LEMMA TakingStoreMoves ==
    ASSUME OiIInv, NEW w \in Writers, SaveEventsInTransaction(w)
    PROVE  OiIInv'
<1> DEFINE c == [oiCall[w] EXCEPT !.ran = 1, !.locks = TRUE, !.at = "add"]
<1>1. oiCall[w] \in WriteCalls /\ CallOK(w, oiCall[w]) /\ oiCall[w].at = "operate" /\ oiKind[w] = "store" /\ oiTakes
      /\ ~LockedByOther(w) /\ UNCHANGED <<oiFixed, oiTables, oiBase>>
  BY DEF SaveEventsInTransaction, OiIInv, OiTyped
<1>0. oiCall[w].nested = FALSE /\ oiTakes = TRUE
  BY <1>1 DEF CallOK, OiIInv, OiTyped, WriteCalls
<1>2. CASE Goes(w, c) /\ UNCHANGED <<oiFree, oiTorn>> /\ oiBase[w] = Len(oiStored)
  <2>1. c \in WriteCalls /\ c.at = "add" /\ c.ran = 1 /\ c.locks = TRUE /\ c.nested = oiCall[w].nested
    BY <1>1, RanFields
  <2> HIDE DEF c
  <2>2. CallOK(w, c)
    BY <1>0, <1>1, <2>1 DEF CallOK, Operations
  <2> QED BY <1>1, <1>2, <2>1, <2>2, QuietMoves
<1>3. CASE Fails(w)
  BY <1>1, <1>3, FailMoves
<1> QED BY <1>2, <1>3 DEF SaveEventsInTransaction

\* Any other store commits on a connection of its own, or finds the versions taken.
LEMMA OwnStoreMoves ==
    ASSUME OiIInv, NEW w \in Writers, SaveEvents(w)
    PROVE  OiIInv'
<1> DEFINE c == [oiCall[w] EXCEPT !.ran = 1, !.nested = TRUE, !.at = "add"]
<1>1. oiCall[w] \in WriteCalls /\ CallOK(w, oiCall[w]) /\ oiCall[w].at = "operate" /\ w \in Stores /\ ~oiTakes
      /\ oiKind[w] = "store" /\ UNCHANGED <<oiFixed, oiRows, oiOutbox, oiUncommitted, oiSaga, oiCommits, oiBase>>
  BY DEF SaveEvents, OiIInv, OiTyped, Stores
<1>0. oiCall[w].locks = FALSE /\ oiTakes = FALSE
  BY <1>1 DEF CallOK, OiIInv, OiTyped, WriteCalls
<1>2. \/ Fails(w) /\ UNCHANGED oiStored
      \/ oiBase[w] = Len(oiStored) /\ StoreEvents(w) /\ Goes(w, c) /\ UNCHANGED <<oiFree, oiTorn>>
      \/ /\ oiBase[w] = Len(oiStored) /\ StoreEvents(w) /\ Goes(w, NoWrite) /\ oiFree' = oiFree + 1
         /\ oiTorn' = oiTorn \cup EventsOf(w)
  BY DEF SaveEvents
<1>3. CASE Fails(w) /\ UNCHANGED oiStored
  BY <1>1, <1>3, FailMoves DEF oiTables
<1>4. CASE oiBase[w] = Len(oiStored) /\ StoreEvents(w) /\ Goes(w, c) /\ UNCHANGED <<oiFree, oiTorn>>
  <2>1. c \in WriteCalls /\ c.at = "add" /\ c.ran = 1 /\ c.locks = oiCall[w].locks /\ c.nested = TRUE
    BY <1>1, RanFields
  <2> HIDE DEF c
  <2>2. CallOK(w, c) /\ ~c.locks
    BY <1>0, <1>1, <2>1 DEF CallOK, Operations
  <2> QED BY <1>1, <1>4, <2>1, <2>2, NestedMoves
<1>5. CASE /\ oiBase[w] = Len(oiStored) /\ StoreEvents(w) /\ Goes(w, NoWrite) /\ oiFree' = oiFree + 1
           /\ oiTorn' = oiTorn \cup EventsOf(w)
  BY <1>1, <1>5, NoWriteFields, NestedMoves
<1> QED BY <1>2, <1>3, <1>4, <1>5

\* The saga's step: marked, locked if it was running, executed, or failed.
LEMMA SagaMoves ==
    ASSUME OiIInv, NEW w \in Writers, MarkStepRunning(w) \/ ExecuteSagaStep(w)
    PROVE  OiIInv'
<1>1. oiCall[w] \in WriteCalls /\ CallOK(w, oiCall[w]) /\ oiKind[w] = "saga" /\ ~oiCall[w].nested
      /\ oiCall[w].at \in {"operate", "step"} /\ UNCHANGED <<oiFixed, oiTables, oiBase>>
  BY DEF MarkStepRunning, ExecuteSagaStep, OiIInv, OiTyped, CallOK
<1>2. CASE MarkStepRunning(w)
  <2> DEFINE locks == oiSaga = "running"
             c == [oiCall[w] EXCEPT !.locks = locks, !.at = "step"]
  <2>1. Goes(w, c) /\ ~LockedByOther(w) /\ UNCHANGED <<oiFree, oiTorn>>
    BY <1>2 DEF MarkStepRunning
  <2>2. locks \in BOOLEAN
    OBVIOUS
  <2>3. c \in WriteCalls /\ c.at = "step" /\ c.locks = locks /\ c.nested = oiCall[w].nested
    <3>1. \A l \in BOOLEAN : LET d == [oiCall[w] EXCEPT !.locks = l, !.at = "step"]
            IN  d \in WriteCalls /\ d.at = "step" /\ d.locks = l /\ d.nested = oiCall[w].nested
      BY <1>1 DEF WriteCalls
    <3> HIDE DEF locks
    <3> QED BY <2>2, <3>1
  <2> HIDE DEF c
  <2>4. CallOK(w, c)
    BY <1>1, <2>3 DEF CallOK
  <2> QED BY <1>1, <2>1, <2>3, <2>4, QuietMoves
<1>3. CASE ExecuteSagaStep(w)
  <2> DEFINE c == [oiCall[w] EXCEPT !.ran = 1, !.at = "add"]
  <2>1. oiCall[w].at = "step" /\ (Fails(w) \/ (Goes(w, c) /\ UNCHANGED <<oiFree, oiTorn>>))
    BY <1>3 DEF ExecuteSagaStep
  <2>2. c \in WriteCalls /\ c.at = "add" /\ c.ran = 1 /\ c.locks = oiCall[w].locks /\ c.nested = oiCall[w].nested
    BY <1>1, RanFields
  <2> HIDE DEF c
  <2>3. CallOK(w, c)
    BY <1>1, <2>1, <2>2 DEF CallOK, Operations
  <2> QED BY <1>1, <2>1, <2>2, <2>3, QuietMoves, FailMoves
<1> QED BY <1>2, <1>3

\* An event more is in the transaction.
LEMMA AddMoves ==
    ASSUME OiIInv, NEW w \in Writers, AddToOutbox(w)
    PROVE  OiIInv'
<1> DEFINE n == oiCall[w].added + 1
           c == [oiCall[w] EXCEPT !.added = n]
<1>1. oiCall[w] \in WriteCalls /\ CallOK(w, oiCall[w]) /\ oiCall[w].at = "add" /\ Goes(w, c)
      /\ UNCHANGED <<oiFixed, oiTables, oiFree, oiBase, oiTorn>>
  BY DEF AddToOutbox, OiIInv, OiTyped
<1>2. n \in Nat
  BY <1>1 DEF WriteCalls
<1> HIDE DEF n
<1>3. c \in WriteCalls /\ c.at = "add" /\ c.ran = oiCall[w].ran /\ c.locks = oiCall[w].locks /\ c.nested = oiCall[w].nested
  BY <1>1, <1>2 DEF WriteCalls
<1> HIDE DEF c
<1>4. CallOK(w, c)
  BY <1>1, <1>3 DEF CallOK
<1> QED BY <1>1, <1>3, <1>4, QuietMoves

\* Every step of a writer keeps OiIInv.
LEMMA OiStep == ASSUME OiIInv, OiNext \/ UNCHANGED oiVars PROVE OiIInv'
<1>1. ASSUME NEW w \in Writers, LoadVersion(w) \/ BeginTx(w) PROVE OiIInv'
  BY <1>1, BeginningMoves
<1>2. ASSUME NEW w \in Writers, StatementFails(w) PROVE OiIInv'
  BY <1>2, FailMoves DEF StatementFails
<1>3. ASSUME NEW w \in Writers, RunOperation(w) PROVE OiIInv'
  BY <1>3, OperationMoves
<1>4. ASSUME NEW w \in Writers, SaveAggregateInTransaction(w) PROVE OiIInv'
  BY <1>4, AggregateMoves
<1>5. ASSUME NEW w \in Writers, SaveEventsInTransaction(w) PROVE OiIInv'
  BY <1>5, TakingStoreMoves
<1>6. ASSUME NEW w \in Writers, SaveEvents(w) PROVE OiIInv'
  BY <1>6, OwnStoreMoves
<1>7. ASSUME NEW w \in Writers, MarkStepRunning(w) \/ ExecuteSagaStep(w) PROVE OiIInv'
  BY <1>7, SagaMoves
<1>8. ASSUME NEW w \in Writers, AddToOutbox(w) PROVE OiIInv'
  BY <1>8, AddMoves
<1>9. ASSUME NEW w \in Writers, CommitTransaction(w) PROVE OiIInv'
  BY <1>9, OutboxCommitMoves
<1>10. CASE UNCHANGED oiVars
  <2> USE <1>10 DEF oiVars
  <2>1. OiTyped' /\ ConnectionsCounted' /\ LocksExclude' /\ NestedFresh' /\ \A w \in Writers : CallOK(w, oiCall[w])'
    BY DEF OiIInv, OiTyped, Stores, ConnectionsCounted, Writing, LocksExclude, NestedFresh, EventsOf, FirstEvents,
           EventsBefore, CallOK, Operations
  <2>2. StoredIsAnnounced'
    BY DEF OiIInv, StoredIsAnnounced, EventsOf, FirstEvents, EventsBefore
  <2>3. (WrittenIsAnnounced /\ AnnouncedIsStored /\ KeptUntilOut /\ SagaFollows)'
    BY DEF OiIInv, WrittenIsAnnounced, AnnouncedIsStored, KeptUntilOut, SagaFollows, Operations
  <2> QED BY <2>1, <2>2, <2>3 DEF OiIInv
<1> QED BY <1>1, <1>2, <1>3, <1>4, <1>5, <1>6, <1>7, <1>8, <1>9, <1>10 DEF OiNext

\* What the outbox's writers committed and what they announced agree, whatever fails and whenever.
THEOREM OutboxFollowsWrites == OiSpec => []IntegrationSafety
<1>1. OiInit => OiIInv
  BY WritersStart
<1>2. OiIInv /\ [OiNext]_oiVars => OiIInv'
  BY OiStep
<1> QED BY <1>1, <1>2, IntegrationIsSafe, PTL DEF OiSpec

----------------------------------------------------------------------------
(***************************************************************************)
(* The writes together: one part moves at a time, and every part keeps its   *)
(* own invariant in the steps of all.                                      *)
(***************************************************************************)
WrIInv == RgIInv /\ UnIInv /\ CmIInv /\ CoIInv /\ PoIInv /\ OiIInv /\ LeInv /\ GsInv
          /\ PbIInv /\ TkIInv

\* Only the part in focus moves; the locks read the stored versions, which other programs raise.
LEMMA WritesStep == WrIInv /\ [MCNext]_MCVars => WrIInv'
<1> SUFFICES ASSUME WrIInv, [MCNext]_MCVars PROVE WrIInv'
  OBVIOUS
<1>1. /\ [RgNext]_rgVars /\ [UnNext]_unVars /\ [CmNext]_cmVars /\ [CoNext]_coVars /\ [PoNext]_poVars
      /\ [OiNext]_oiVars /\ [LeNext]_leVars /\ [GsNext]_gsVars /\ [PbNext]_pbVars /\ [TkNext]_tkVars
  <2>1. CASE UnitMoves \/ LocksMove \/ StoredMoves
    BY <2>1 DEF UnitMoves, LocksMove, StoredMoves, OthersStay, UnNext
  <2>2. CASE ~(UnitMoves \/ LocksMove \/ StoredMoves)
    BY <2>2 DEF MCNext, MCVars, OthersStay, PipelineMoves, CqrsMoves, BusMoves, OutboxBusMoves, PublisherMoves, ReplayMoves,
       CollectorMoves, PoolMoves, AggregatesMove, RegistrationMoves, PublishersMove, TrackersMove, IntegrationMoves,
       ElectionMoves, ShutdownMoves, AuditMoves, SiemMoves, IncidentsMove, MonitorMoves, TrendMoves
  <2> QED BY <2>1, <2>2
<1>2. uwStored \in [Stored -> Nat]
  BY DEF WrIInv, UnIInv
<1> QED BY <1>1, <1>2, RgStep, UnStep, CmStep, CoStep, PoolsStep, OiStep, ElectionGoesOn, ShutdownGoesOn, PbStep, TkStep
       DEF WrIInv

\* Transactions, locks and connections are given back, registrations stay whole, what is written is
\* announced, what is announced is published as often as it was tried, one elector leads and a
\* shutdown waits for its hooks, in every state of the event infrastructure and for every value of
\* its constants.
THEOREM WritesHoldAlways == MCSpec => []WritesHold
<1>1. MCInit => WrIInv
  BY RgInitially, UnitsStart, LocksStart, CollectorStart, PoolsStart, WritersStart, ElectionStarts, ShutdownStarts,
     PbInitially, TkInitially DEF MCInit, UwInit, WrIInv
<1>2. WrIInv => WritesHold
  BY RegistrationIsConsistent, UnitsAreSafe, IntegrationIsSafe, PublishersAreSafe
     DEF WrIInv, WritesHold, UnitOfWorkSafety, CmIInv, CoIInv, PoIInv, LeInv, GsInv, GracefulSafety
<1> QED BY <1>1, <1>2, WritesStep, PTL DEF MCSpec

----------------------------------------------------------------------------
(***************************************************************************)
(* The buses and the watchers together.                                    *)
(***************************************************************************)
BwIInv == KbIInv /\ ObIInv /\ KpIInv /\ AlIInv /\ SiIInv /\ InIInv /\ OmIInv /\ TrIInv

\* Whichever watcher fails counts the failure for all of them.
LEMMA FaultsAreCounted == AlNext \/ InNext \/ OmNext \/ TrNext => moFaults' = moFaults \/ moFaults' = moFaults + 1
<1>1. AlNext => moFaults' = moFaults \/ moFaults' = moFaults + 1
  BY DEF AlNext, LogEvent, TakeBuffer, StoreBatch, BackgroundFlush, AuditClose, MonitorFault
<1>2. InNext => moFaults' = moFaults \/ moFaults' = moFaults + 1
  BY DEF InNext, CreateIncident, ExecuteAutomatedResponse, ReadsIncident, UpdateIncident, MonitorFault
<1>3. OmNext \/ TrNext => moFaults' = moFaults \/ moFaults' = moFaults + 1
  BY DEF OmNext, TrNext, QueueMoves, CollectMetrics, UpdatePerformanceData, MonitorFault
<1> QED BY <1>1, <1>2, <1>3

\* Only the part in focus moves.
LEMMA BusesAndWatchersStep == BwIInv /\ [MCNext]_MCVars => BwIInv'
<1> SUFFICES ASSUME BwIInv, [MCNext]_MCVars PROVE BwIInv'
  OBVIOUS
<1>1. /\ [KbNext]_kbVars /\ [ObNext]_obVars /\ [KpNext]_kpVars /\ [AlNext]_alVars /\ [InNext]_inVars /\ [OmNext]_omVars /\ [TrNext]_trVars
      /\ SiNext \/ (UNCHANGED siVars /\ (UNCHANGED moFaults \/ AlNext \/ InNext \/ OmNext \/ TrNext))
  BY DEF MCNext, MCVars, MonitoringParts, OthersStay, PipelineMoves, CqrsMoves, BusMoves, OutboxBusMoves, PublisherMoves, ReplayMoves,
     UnitMoves, LocksMove, StoredMoves, CollectorMoves, PoolMoves, AggregatesMove, RegistrationMoves, PublishersMove, TrackersMove,
     IntegrationMoves, ElectionMoves, ShutdownMoves, AuditMoves, SiemMoves, IncidentsMove, MonitorMoves, TrendMoves
<1>2. SiNext \/ (UNCHANGED siVars /\ (moFaults' = moFaults \/ moFaults' = moFaults + 1))
  BY <1>1, FaultsAreCounted
<1> QED BY <1>1, <1>2, KbStep, ObStep, KpStep, AlStep, SiStep, InStep, OmStep, TrStep DEF BwIInv

\* The buses mark nothing they did not try, call a handler in the log's order first and are quiet when
\* stopped; what the publisher took is accounted for; audit events and those for the SIEM endpoint are
\* in one place, incidents, gauges and trends follow what they are made from, in every state of the
\* event infrastructure and for every value of its constants.
THEOREM BusesAndWatchersHoldAlways == MCSpec => []BusesAndWatchersHold
<1>1. MCInit => BwIInv
  BY KbStarts, ObStarts, KpStarts, AlStarts, SiStarts, InStarts, OmStarts, TrStarts DEF MCInit, BwIInv
<1>2. BwIInv => BusesAndWatchersHold
  BY BusesAreSafe, WatchersAreSafe DEF BwIInv, BusesAndWatchersHold
<1> QED BY <1>1, <1>2, BusesAndWatchersStep, PTL DEF MCSpec
=============================================================================
