--------------------------- MODULE GatewayRouting ---------------------------
(***************************************************************************)
(* The gateway's routing engine (api-gateway/internal/routing): one service, *)
(* its registry with the health checks, the load balancers, the sticky       *)
(* sessions, and requests that are tried and tried again at one instance.    *)
(* gobreaker is external: it lets a request through or refuses it.           *)
(***************************************************************************)
EXTENDS Integers, Sequences, SequencesExt, FiniteSets, FiniteSetsExt, Functions

CONSTANTS
    Instances,   \* of the service; some are registered at the start
    FirstList,   \* the sequence of instances registered from the configuration
    Weight,      \* Weight[i]: the configured weight
    Algorithms,  \* load balancing algorithms to start with
    Callers,     \* goroutines that serve requests
    Sessions,    \* session ids; NoSession stands for a request without one
    NoSession,
    RetryCount,  \* of every instance
    TTL,         \* ticks a binding lives (30 minutes)
    MaxTicks,    \* bound on the clock
    MaxPicks     \* bound on the balancer's selections

ASSUME RoutingAssumption ==
    /\ Weight \in [Instances -> Nat] /\ NoSession \notin Sessions
    /\ RetryCount \in Nat /\ TTL \in Nat /\ MaxTicks \in Nat /\ MaxPicks \in Nat

VARIABLES
    gwAlg, gwList, gwUp,       \* algorithm; registered instances, in order; the healthy flags
    gwGone,                    \* ticks since an instance was unregistered, 0 while it was not
    gwWeights, gwPicked,       \* the weighted balancer's current weights; selections per instance
    gwBind,                    \* session -> bound instance, age of the binding, written too late?
    gwReq,                     \* what each caller is doing
    gwSeen,                  \* history: every list the balancer was given was the whole first list
    gwTicks

gwVars == <<gwAlg, gwList, gwUp, gwGone, gwWeights, gwPicked, gwBind, gwReq, gwSeen,
            gwTicks>>
gwBalance == <<gwWeights, gwPicked, gwSeen>>
gwRegistry == <<gwList, gwUp, gwGone>>

Unbound == [to |-> "none", age |-> 0, late |-> FALSE]
\* What a call has chosen matters until the binding is written.
Trying(tries) == [at |-> "try", session |-> NoSession, to |-> "none", tries |-> tries]
IdleCall == [at |-> "idle", session |-> NoSession, to |-> "none", tries |-> 0]
Registered == Range(gwList)
Picks == FoldSet(LAMBDA i, n : n + gwPicked[i], 0, Instances)
TotalWeight(list) == FoldLeft(LAMBDA n, i : n + Weight[i], 0, list)

----------------------------------------------------------------------------
(***************************************************************************)
(* The balancers: what each may select from a list of healthy instances.    *)
(***************************************************************************)
RoundRobin(list) == {list[((Picks + 1) % Len(list)) + 1]}
\* The weight an instance has before the selected one pays for the round.
Raised(list) == [i \in Instances |-> IF i \in Range(list) THEN gwWeights[i] + Weight[i] ELSE gwWeights[i]]
Weighted(list) ==
    LET first == SelectInSeq(list, LAMBDA i : \A j \in Range(list) : Raised(list)[j] <= Raised(list)[i])
    IN  {list[first]}
\* The others go by what was measured of the instances (requests and errors so far, the time of the
\* last answer) or by chance: the model leaves the choice open.
Measured(list) == Range(list)
Selectable(list) ==
    CASE gwAlg = "round_robin" -> RoundRobin(list)
      [] gwAlg = "weighted" -> Weighted(list)
      [] OTHER -> Measured(list)
\* Mutant: the selected instance pays only its own weight.
ChargedOwnWeight(list, i) == [Raised(list) EXCEPT ![i] = @ - Weight[i]]
\* The weighted balancer charges the selected instance with the weight of the whole list.
Charged(list, i) == [Raised(list) EXCEPT ![i] = @ - TotalWeight(list)]

----------------------------------------------------------------------------
(***************************************************************************)
(* The registry                                                             *)
(***************************************************************************)
RegisterService(i) ==
    /\ i \notin Registered /\ gwGone[i] = 0
    /\ gwList' = Append(gwList, i)
    /\ UNCHANGED <<gwAlg, gwUp, gwGone, gwBind, gwReq, gwTicks>> /\ UNCHANGED gwBalance
UnregisterService(i) ==
    /\ i \in Registered
    /\ gwList' = SelectSeq(gwList, LAMBDA j : j # i)
    /\ gwGone' = [gwGone EXCEPT ![i] = 1]
    /\ UNCHANGED <<gwAlg, gwUp, gwBind, gwReq, gwTicks>> /\ UNCHANGED gwBalance
\* The round collects the registered instances, and checks each in a goroutine of its own; one that
\* was unregistered in between is checked too.
CheckInstanceHealth(i) ==
    /\ i \in Registered \/ gwGone[i] = 1
    /\ \E up \in BOOLEAN : gwUp' = [gwUp EXCEPT ![i] = up]
    /\ UNCHANGED <<gwAlg, gwList, gwGone, gwBind, gwReq, gwTicks>> /\ UNCHANGED gwBalance

----------------------------------------------------------------------------
(***************************************************************************)
(* RouteRequest                                                             *)
(***************************************************************************)
InCall(c, at) == gwReq[c].at = at
CallMoves(c, at) == gwReq' = [gwReq EXCEPT ![c].at = at]

ExtractSessionID(c) ==
    /\ InCall(c, "idle") /\ Picks < MaxPicks
    /\ \E s \in Sessions \cup {NoSession} :
          gwReq' = [gwReq EXCEPT ![c] = [IdleCall EXCEPT !.session = s, !.at = IF s = NoSession THEN "list" ELSE "bound"]]
    /\ UNCHANGED <<gwAlg, gwBind, gwTicks>> /\ UNCHANGED gwRegistry /\ UNCHANGED gwBalance

\* A binding lives for the TTL from its creation, however often it is used.
LiveBinding(b) == b.to # "none" /\ b.age <= TTL
GetInstance(c) ==
    LET b == gwBind[gwReq[c].session]
    IN  /\ InCall(c, "bound")
        /\ CASE ~LiveBinding(b) ->
                  /\ CallMoves(c, "list") /\ gwBind' = [gwBind EXCEPT ![gwReq[c].session] = Unbound]
             [] LiveBinding(b) /\ gwUp[b.to] ->
                  /\ gwReq' = [gwReq EXCEPT ![c] = Trying(0)]
                  /\ UNCHANGED gwBind
             [] LiveBinding(b) /\ ~gwUp[b.to] -> CallMoves(c, "unbind") /\ UNCHANGED gwBind
        /\ UNCHANGED <<gwAlg, gwTicks>> /\ UNCHANGED gwRegistry /\ UNCHANGED gwBalance
RemoveSession(c) ==
    /\ InCall(c, "unbind") /\ CallMoves(c, "list")
    /\ gwBind' = [gwBind EXCEPT ![gwReq[c].session] = Unbound]
    /\ UNCHANGED <<gwAlg, gwTicks>> /\ UNCHANGED gwRegistry /\ UNCHANGED gwBalance
\* The list is of one moment, and the balancer, whose weights and counter are its own, takes it as it
\* is: a list that has aged meanwhile is an earlier selection of the same list.
GetHealthyInstances == SelectSeq(gwList, LAMBDA i : gwUp[i])
SelectInstance(c) ==
    LET list == GetHealthyInstances
    IN  /\ InCall(c, "list")
        /\ IF list = <<>> THEN gwReq' = [gwReq EXCEPT ![c] = IdleCall] /\ UNCHANGED gwBalance
           ELSE /\ Picks < MaxPicks
                /\ \E i \in Selectable(list) :
                      /\ gwWeights' = IF gwAlg = "weighted" THEN Charged(list, i) ELSE gwWeights
                      /\ gwPicked' = [gwPicked EXCEPT ![i] = @ + 1]
                      /\ gwReq' = [gwReq EXCEPT ![c] = IF @.session = NoSession THEN Trying(0)
                                                               ELSE [@ EXCEPT !.at = "bind", !.to = i]]
                /\ gwSeen' = IF gwSeen \in {{}, {list}} THEN {list} ELSE {<<>>}
        /\ UNCHANGED <<gwAlg, gwBind, gwTicks>> /\ UNCHANGED gwRegistry
SetInstance(c) ==
    LET i == gwReq[c].to
    IN  /\ InCall(c, "bind") /\ gwReq' = [gwReq EXCEPT ![c] = Trying(0)]
        /\ gwBind' = [gwBind EXCEPT ![gwReq[c].session] = [to |-> i, age |-> 0, late |-> gwGone[i] > 0]]
        /\ UNCHANGED <<gwAlg, gwTicks>> /\ UNCHANGED gwRegistry /\ UNCHANGED gwBalance

\* Mutant: one retry too many.
PerformRequestOnceMore(c) ==
    /\ InCall(c, "try")
    /\ \/ gwReq' = [gwReq EXCEPT ![c] = IdleCall]
       \/ gwReq[c].tries <= RetryCount /\ gwReq' = [gwReq EXCEPT ![c] = Trying(@.tries + 1)]
    /\ UNCHANGED <<gwAlg, gwBind, gwTicks>> /\ UNCHANGED gwRegistry /\ UNCHANGED gwBalance
\* An open breaker refuses the request at its first try; the tries that follow are inside the call
\* it let through.  A failed one is repeated, whatever its method, at the same instance; an answer
\* that breaks off is tried again too, and a status of the upstream is no failure.
PerformRequest(c) ==
    /\ InCall(c, "try")
    /\ \/ gwReq' = [gwReq EXCEPT ![c] = IdleCall]
       \/ gwReq[c].tries < RetryCount /\ gwReq' = [gwReq EXCEPT ![c] = Trying(@.tries + 1)]
    /\ UNCHANGED <<gwAlg, gwBind, gwTicks>> /\ UNCHANGED gwRegistry /\ UNCHANGED gwBalance

\* Time passes; performCleanup drops what is past its TTL, whenever its ticker fires.
GwTick ==
    /\ gwTicks < MaxTicks /\ gwTicks' = gwTicks + 1
    /\ gwBind' = [s \in Sessions |-> IF gwBind[s].to = "none" THEN Unbound
                                     ELSE [gwBind[s] EXCEPT !.age = @ + 1]]
    /\ gwGone' = [i \in Instances |-> IF gwGone[i] = 0 THEN 0 ELSE gwGone[i] + 1]
    /\ UNCHANGED <<gwAlg, gwList, gwUp, gwReq>> /\ UNCHANGED gwBalance
PerformCleanup ==
    /\ \E s \in Sessions : gwBind[s].age > TTL
    /\ gwBind' = [s \in Sessions |-> IF gwBind[s].age > TTL THEN Unbound ELSE gwBind[s]]
    /\ UNCHANGED <<gwAlg, gwReq, gwTicks>> /\ UNCHANGED gwRegistry /\ UNCHANGED gwBalance

GwInit ==
    LET none == [i \in Instances |-> 0]
    IN  /\ gwAlg \in Algorithms /\ gwList = FirstList /\ gwUp = [i \in Instances |-> TRUE]
        /\ gwGone = none /\ gwWeights = none /\ gwPicked = none
        /\ gwBind = [s \in Sessions |-> Unbound] /\ gwReq = [c \in Callers |-> IdleCall]
        /\ gwSeen = {} /\ gwTicks = 0

GwNext ==
    \/ \E i \in Instances : RegisterService(i) \/ UnregisterService(i) \/ CheckInstanceHealth(i)
    \/ \E c \in Callers :
          \/ ExtractSessionID(c) \/ GetInstance(c) \/ RemoveSession(c)
          \/ SelectInstance(c) \/ SetInstance(c) \/ PerformRequest(c)
    \/ GwTick \/ PerformCleanup

GwSpec == GwInit /\ [][GwNext]_gwVars

----------------------------------------------------------------------------

GwTypeOK ==
    /\ Registered \subseteq Instances /\ IsInjective(gwList)
    /\ gwUp \in [Instances -> BOOLEAN] /\ gwWeights \in [Instances -> Int]
    /\ \A c \in Callers : gwReq[c].at \in {"idle", "bound", "unbind", "list", "bind", "try"}
    /\ \A c \in Callers : gwReq[c].tries \in 0 .. RetryCount

\* The weighted balancer's weights cancel out, whatever lists it was given: no instance is charged
\* for a round that nobody else was credited for.
WeightsCancel == FoldSet(LAMBDA i, n : n + gwWeights[i], 0, Instances) = 0
\* While every list was the same, however the callers interleave, each instance of it has its share
\* to within one request: of the weights, or of the number of instances.
FairShare ==
    LET share(i, w, all) == LET off == all * gwPicked[i] - w * Picks IN -all < off /\ off < all
    IN  \A list \in gwSeen : \A i \in Range(list) :
            /\ gwAlg = "weighted" => share(i, Weight[i], TotalWeight(list))
            /\ gwAlg = "round_robin" => share(i, 1, Len(list))
\* A session stays with an instance that was unregistered, and which nobody checks any more, only
\* until its binding is past the TTL; unless the binding was written after the instance had gone.
OrphansEnd ==
    \A c \in Callers : InCall(c, "bound") /\ gwBind[gwReq[c].session].to # "none" =>
        LET b == gwBind[gwReq[c].session]
        IN  LiveBinding(b) /\ ~b.late => gwGone[b.to] <= TTL + 1

\* The engine shares the load as configured and leaves instances that have gone.
RoutingSafety == WeightsCancel /\ FairShare /\ OrphansEnd
=============================================================================
