------------------------------ MODULE MCServices ------------------------------
(***************************************************************************)
(* The services around the event system for TLC.  They share no variable:  *)
(* the run explores one part at a time, "focus", from the initial states   *)
(* of the others.                                                          *)
(***************************************************************************)
EXTENDS
    WebhookDelivery, AuthSessions, FileProcessing, GatewayRouting, GatewayLimits,
    Permissions, Plugins, Versioning, FrontendClient, UserService, Caching,
    GraphqlGateway

VARIABLE focus

----------------------------------------------------------------------------
(* Values of the constants.                                                *)

OneChange == {
    [id |-> 1, type |-> "record.updated", resource |-> "r", workspace |-> Anything, user |-> 7,
     time |-> 5, data |-> [x |-> Number(3), y |-> Text(<<"b", "a">>)]]}
NotFour == [conditions |-> [operator |-> "not",
                            rules |-> <<[field |-> "x", operator |-> "equals", value |-> Number(4)],
                                       [field |-> "x", operator |-> "exists"],
                                       [field |-> "y", operator |-> "not_contains", value |-> Text(<<"a">>)]>>]]
ToAll == {[type |-> "record.updated", resource |-> Anything, workspace |-> Anything, filters |-> NotFour]}

OneUser == [c \in Clients |-> "u"]
FirstInstance == <<"i1">>
Heavier == [i \in Instances |-> IF i = "i1" THEN 2 ELSE 1]
DayAndMonth == [p \in {"day", "month"} |-> IF p = "day" THEN 1 ELSE 2]

Named(path, header, query) ==
    [path |-> path, header |-> header, query |-> query, content_type |-> <<>>, accept_header |-> <<>>]
TwoRequests == [r \in VersionRequests |->
    IF r = 1 THEN Named(<<2, 0, 0>>, <<1, 0, 0>>, <<>>) ELSE Named(<<>>, <<1, 0, 0>>, <<2, 0, 0>>)]
ThreeVersions == {<<1, 0, 0>>, <<2, 0, 0>>, <<2, 1, 0>>}
MajorOnly == <<1>>
Mapping(op, source, target) == [op |-> op, source |-> source, target |-> target]
Rule(request, paths, mappings) == [request |-> request, paths |-> paths, mappings |-> mappings]
RuleLists == {
    <<>>,
    <<Rule(TRUE, {"/users/"}, <<Mapping("rename", "id", "key"), Mapping("transform", "id", "id")>>),
      Rule(FALSE, {}, <<Mapping("remove", "id", "id")>>)>>,
    <<Rule(TRUE, {}, <<Mapping("copy", "id", "key"), Mapping("add", "id", "flag"),
                       Mapping("split", "id", "key"), Mapping("merge", "id", "id")>>),
      Rule(TRUE, {}, <<Mapping("bogus", "id", "id")>>)>>}
UserPayload == [id |-> "id", name |-> "name"]

OneTenant == [a \in Accounts |-> "t1"]
OneMail == [a \in Accounts |-> "e1"]
ShortOrLong == [q \in CachedQueries |-> IF q = "short" THEN 1 ELSE 3]

----------------------------------------------------------------------------

Parts == {"webhooks", "auth", "hub", "files", "routing", "limits", "breaker", "permissions",
          "permission client", "plugins", "registry", "memory pool", "detection", "lifecycle",
          "windows", "tokens", "offline queue", "optimistic", "realtime", "users", "resolvers",
          "levels", "edge", "responses", "loaders", "progress"}

VersioningParts == {"detection", "lifecycle", "windows"}
FrontendParts == {"tokens", "offline queue", "optimistic", "realtime"}
GraphqlParts == {"responses", "loaders"}

MCInit ==
    /\ focus \in Parts
    /\ WhInit /\ AuInit /\ PhInit /\ FpInit /\ PtInit /\ GwInit /\ GlInit /\ MbInit /\ PmInit /\ PcInit
    /\ PgInit /\ PrInit /\ MpInit /\ VdInit /\ VlInit /\ VwInit /\ FcInit /\ FoInit /\ FrInit
    /\ UsInit /\ UgInit /\ MlInit /\ EcInit /\ GqInit
    \* where a part may start in several states, it does so only when it is in focus
    /\ focus = "routing" \/ gwAlg = "weighted"
    /\ focus = "limits" \/ glStrategy = "counter"
    /\ pmHeld = {"admin"}
    /\ focus = "detection" \/ vdSet = "header"

\* What is not in focus stands still.
OthersStay ==
    /\ UNCHANGED focus
    /\ IF focus = "webhooks" THEN TRUE ELSE UNCHANGED whVars
    /\ IF focus = "auth" THEN TRUE ELSE UNCHANGED auVars
    /\ IF focus = "hub" THEN TRUE ELSE UNCHANGED phVars
    /\ IF focus = "files" THEN TRUE ELSE UNCHANGED fpVars
    /\ IF focus = "progress" THEN TRUE ELSE UNCHANGED ptVars
    /\ IF focus = "routing" THEN TRUE ELSE UNCHANGED gwVars
    /\ IF focus = "limits" THEN TRUE ELSE UNCHANGED glVars
    /\ IF focus = "breaker" THEN TRUE ELSE UNCHANGED mbVars
    /\ IF focus = "permissions" THEN TRUE ELSE UNCHANGED pmVars
    /\ IF focus = "permission client" THEN TRUE ELSE UNCHANGED pcVars
    /\ IF focus = "plugins" THEN TRUE ELSE UNCHANGED pgVars
    /\ IF focus = "registry" THEN TRUE ELSE UNCHANGED prVars
    /\ IF focus = "memory pool" THEN TRUE ELSE UNCHANGED mpBlocks
    /\ IF focus = "detection" THEN TRUE ELSE UNCHANGED vdVars
    /\ IF focus = "lifecycle" THEN TRUE ELSE UNCHANGED vlVars
    /\ IF focus = "windows" THEN TRUE ELSE UNCHANGED vwVars
    /\ IF focus = "tokens" THEN TRUE ELSE UNCHANGED fcTokenVars
    /\ IF focus = "offline queue" THEN TRUE ELSE UNCHANGED fcQueueVars
    /\ IF focus \in {"tokens", "offline queue"} THEN TRUE ELSE UNCHANGED fcFaults
    /\ IF focus = "optimistic" THEN TRUE ELSE UNCHANGED foVars
    /\ IF focus = "realtime" THEN TRUE ELSE UNCHANGED frVars
    /\ IF focus = "users" THEN TRUE ELSE UNCHANGED usVars
    /\ IF focus = "resolvers" THEN TRUE ELSE UNCHANGED ugVars
    /\ IF focus = "levels" THEN TRUE ELSE UNCHANGED mlVars
    /\ IF focus = "edge" THEN TRUE ELSE UNCHANGED ecVars
    /\ IF focus = "responses" THEN TRUE ELSE UNCHANGED rcVars
    /\ IF focus = "loaders" THEN TRUE ELSE UNCHANGED dlVars

WebhooksMove == focus = "webhooks" /\ WhNext /\ OthersStay
AuthMoves == focus = "auth" /\ AuNext /\ OthersStay
HubMoves == focus = "hub" /\ PhNext /\ OthersStay
FilesMove == focus = "files" /\ FpNext /\ OthersStay
ProgressMoves == focus = "progress" /\ PtNext /\ OthersStay
RoutingMoves == focus = "routing" /\ GwNext /\ OthersStay
LimitsMove == focus = "limits" /\ GlNext /\ OthersStay
BreakerMoves == focus = "breaker" /\ MbNext /\ OthersStay
PermissionsMove == focus = "permissions" /\ PmNext /\ OthersStay
PermissionClientMoves == focus = "permission client" /\ PcNext /\ OthersStay
PluginsMove == focus = "plugins" /\ PgNext /\ OthersStay
RegistryMoves == focus = "registry" /\ PrNext /\ OthersStay
MemoryPoolMoves == focus = "memory pool" /\ MpNext /\ OthersStay
DetectionMoves == focus = "detection" /\ VdNext /\ OthersStay
LifecycleMoves == focus = "lifecycle" /\ VlNext /\ OthersStay
WindowsMove == focus = "windows" /\ VwNext /\ OthersStay
TokensMove == focus = "tokens" /\ FcTokensNext /\ OthersStay
OfflineQueueMoves == focus = "offline queue" /\ FcQueueNext /\ OthersStay
OptimisticMoves == focus = "optimistic" /\ FoNext /\ OthersStay
RealtimeMoves == focus = "realtime" /\ FrNext /\ OthersStay
UsersMove == focus = "users" /\ UsNext /\ OthersStay
ResolversMove == focus = "resolvers" /\ UgNext /\ OthersStay
LevelsMove == focus = "levels" /\ MlNext /\ OthersStay
EdgeMoves == focus = "edge" /\ EcNext /\ OthersStay
ResponsesMove == focus = "responses" /\ RcNext /\ OthersStay
LoadersMove == focus = "loaders" /\ DlNext /\ OthersStay

MCNext ==
    \/ WebhooksMove \/ AuthMoves \/ HubMoves \/ FilesMove \/ ProgressMoves
    \/ RoutingMoves \/ LimitsMove \/ BreakerMoves
    \/ PermissionsMove \/ PermissionClientMoves \/ PluginsMove \/ RegistryMoves \/ MemoryPoolMoves
    \/ DetectionMoves \/ LifecycleMoves \/ WindowsMove
    \/ TokensMove \/ OfflineQueueMoves \/ OptimisticMoves \/ RealtimeMoves
    \/ UsersMove \/ ResolversMove \/ LevelsMove \/ EdgeMoves
    \/ ResponsesMove \/ LoadersMove

MCVars == <<focus, whVars, auVars, phVars, fpVars, ptVars, gwVars, glVars, mbVars, pmVars, pcVars, pgVars,
            prVars, mpBlocks, vdVars, vlVars, vwVars, fcVars, foVars, frVars, usVars, ugVars, mlVars,
            ecVars, gqVars>>
MCSpec == MCInit /\ [][MCNext]_MCVars

----------------------------------------------------------------------------
(* A part that is not in focus stands in its initial state, which the part's own focus checks. *)

\* The variables of the part keep their types.
ServicesTypeOK ==
    CASE focus = "webhooks" -> WhTypeOK
      [] focus = "auth" -> AuTypeOK
      [] focus = "hub" -> PhTypeOK
      [] focus = "files" -> FpTypeOK
      [] focus = "progress" -> PtTypeOK
      [] focus = "routing" -> GwTypeOK
      [] focus = "limits" -> GlTypeOK
      [] focus = "breaker" -> MbTypeOK
      [] focus \in {"permissions", "permission client"} -> PmTypeOK
      [] focus \in {"plugins", "registry", "memory pool"} -> PgTypeOK
      [] focus \in VersioningParts -> VersioningTypeOK
      [] focus \in FrontendParts -> FrontendTypeOK
      [] focus \in {"users", "resolvers"} -> UsTypeOK
      [] focus \in {"levels", "edge"} -> CachingTypeOK
      [] focus \in GraphqlParts -> GraphqlTypeOK

\* Sessions, presence, permissions, limits, breaker, plugins and versions: who may do what and how
\* often, who holds what and listens to what, and which version of the interface is served, stays as
\* the code keeps it under overlapping calls: the parts are in AuthSessions, Permissions,
\* GatewayLimits, Plugins and Versioning.
AccessHolds ==
    /\ focus = "auth" => AuthSafety
    /\ focus = "hub" => HubSafety
    /\ focus \in {"permissions", "permission client"} => PermissionSafety
    /\ focus = "limits" => LimitsSafety
    /\ focus = "breaker" => MiddlewareBreakerSafety
    /\ focus \in {"plugins", "registry"} => PluginSafety
    /\ focus \in VersioningParts => VersioningSafety

\* Requests through the gateway are spread over the instances, their bodies arrive, and the memory
\* pool's buffers keep to its size, as the parts in GatewayRouting, Versioning and Plugins say.
GatewaysHold ==
    /\ focus = "routing" => RoutingSafety
    /\ focus = "detection" => BodyArrives
    /\ focus = "memory pool" => PoolOvershoot

\* Copies - cached rows and lists, optimistic updates, queued requests, open subscriptions, responses
\* and rows of the GraphQL gateway - follow what they are copies of, as the parts in UserService,
\* Caching, FrontendClient and GraphqlGateway say.
CopiesHold ==
    /\ focus \in {"users", "resolvers"} => UserServiceSafety
    /\ focus \in {"levels", "edge"} => CachingSafety
    /\ focus \in FrontendParts => FrontendSafety
    /\ focus = "responses" => TagFindsEntries
    /\ focus = "loaders" => OneAnswerEach

\* What is handed over and must arrive - webhook deliveries, the tasks of uploaded files, buffered
\* progress - is neither lost nor doubled nor out of order beyond what the parts in WebhookDelivery
\* and FileProcessing say.
DeliveriesHold ==
    /\ focus = "webhooks" => WebhookSafety
    /\ focus = "files" => FileSafety
    /\ focus = "progress" => TrackerSafety
=============================================================================
