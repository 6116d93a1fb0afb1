------------------------ MODULE MCEventInfrastructure ------------------------
(***************************************************************************)
(* The event infrastructure besides the outbox and the store, for TLC: the *)
(* pipeline with replays, CQRS, the Kafka buses, the replay engine, the    *)
(* unit of work, the aggregates, registration, the outbox's publishers and *)
(* writers, the shutdown handler and what watches the platform.  They      *)
(* share no variable: the run explores one at a time, "focus", from the    *)
(* others' initial state.                                                  *)
(***************************************************************************)
EXTENDS EventPipeline, Cqrs, KafkaBus, EventReplay, UnitOfWork, Aggregates, Registration,
    OutboxPublishers, OutboxIntegration, GracefulShutdown, Monitoring

CONSTANTS stored1, stored2      \* stored aggregates

VARIABLE focus

----------------------------------------------------------------------------
(* Values of the constants.                                                *)

OfUser(u, type, v) == [kind |-> "user", who |-> u, type |-> type, version |-> v]
OfSpace(u, type, v) == [kind |-> "space", who |-> u, type |-> type, version |-> v]
ShortStories == {
    <<OfUser("a", "registered", 1), OfUser("a", "activated", 2)>>,
    <<OfSpace("a", "created", 1), OfSpace("a", "deleted", 2)>>}
LongStories == {
    <<OfUser("a", "registered", 1), OfUser("a", "activated", 2),
      OfUser("b", "registered", 1), OfUser("a", "deactivated", 3)>>,
    <<OfUser("a", "registered", 1), OfUser("a", "role_changed", 2), OfUser("a", "updated", 3)>>,
    <<OfSpace("a", "created", 1), OfSpace("b", "member_added", 2),
      OfSpace("b", "member_role_changed", 3), OfSpace("b", "member_removed", 4)>>,
    <<OfSpace("a", "created", 1), OfSpace("a", "updated", 2), OfSpace("a", "deleted", 3)>>}
AllStories == ShortStories \cup LongStories

BusConfigurations == {DefaultKafkaConfig, [DefaultKafkaConfig EXCEPT !.idempotent = FALSE]}

BusAndKafka == <<"bus", "kafka">>
OneEvent == <<[id |-> "a1", version |-> 1]>>
UserReplay == ReplayUserEvents("a1", 0)
Requested == {
    UserReplay,
    [RebuildProjections("a1") EXCEPT !.useSnapshots = TRUE, !.workers = 2],
    [UserReplay EXCEPT !.by = "type", !.type = "created", !.strategy = "streaming"],
    [UserReplay EXCEPT !.strategy = "batch", !.batch = 0],
    [UserReplay EXCEPT !.from = 2, !.to = 1]}

Do(op, of) == [op |-> op, of |-> of]
Unit(style, retries, timeout, body) ==
    [style |-> style, retries |-> retries, timeout |-> timeout, body |-> body]
Units == {
    Unit("service", 2, FALSE, <<Do("get", stored1), Do("track", stored2), Do("saveOther", "-")>>),
    Unit("retryable", 2, FALSE, <<Do("track", stored1), Do("publish", "-")>>),
    Unit("retryable", 2, TRUE, <<Do("track", stored1)>>),
    Unit("retryable", 0, FALSE, <<>>),
    Unit("once", 0, FALSE, <<Do("load", stored1), Do("validate", "-")>>),
    Unit("service", 1, FALSE, <<Do("track", stored1), Do("saveUser", "-")>>),
    Unit("service", 1, FALSE, <<Do("getOther", "-")>>)}
Emission(kind, fate) == [kind |-> kind, fate |-> fate]
Emissions == {
    <<Emission("wanted", "change"), Emission("noise", "keep"), Emission("wanted", "stop")>>,
    <<Emission("wanted", "keep"), Emission("noise", "reject"), Emission("wanted", "keep")>>,
    <<Emission("noise", "stop"), Emission("wanted", "refuse"), Emission("noise", "break")>>}

OddTimes == [e \in {1, 2, 3} |-> IF e = 2 THEN 2000 ELSE 1500 + e]
BlockAndLimit == <<"block_ip", "enable_rate_limiting">>

OneEmail == [r \in Registrants |-> "e"]
OneSlug == [r \in Registrants |-> "s"]

----------------------------------------------------------------------------

Parts == {"pipeline", "cqrs", "bus", "outbox bus", "publisher", "replay", "unit", "locks",
          "collector", "pool", "aggregates", "registration", "publishers", "trackers",
          "integration", "election", "shutdown", "audit", "siem", "incidents", "outbox monitor", "trend"}
MonitoringParts == {"audit", "siem", "incidents", "outbox monitor", "trend"}

\* The other parts stand in one initial state while one varies.
MCInit ==
    /\ focus \in Parts /\ Init
    /\ CqInit /\ (cqStrategy = "sync" <=> cqStory \in ShortStories)
    /\ \/ focus = "cqrs"
       \/ cqStrategy = "sync" /\ cqStory = <<OfUser("a", "registered", 1), OfUser("a", "activated", 2)>>
    /\ KbInit /\ (focus = "bus" \/ kbBus = NewKafkaEventBus(DefaultKafkaConfig))
    /\ ObInit /\ KpInit /\ RpInit
    /\ UwInit /\ (focus \in {"unit", "locks"} \/ uwStored = [x \in Stored |-> 0])
    /\ (focus = "collector" \/ \A g \in Collecting : Head(coLeft[g]).fate = "stop")
    /\ AgInit /\ (focus = "aggregates" \/ agKind = "user")
    /\ RgInit
    /\ PbInit /\ (focus = "publishers" \/ pbStrategy = "all")
    /\ TkInit /\ (focus = "trackers" \/ (tkDriver = "pgx" /\ tkRegistry.id = CHOOSE p \in Trackers : TRUE))
    /\ AlInit /\ SiInit
    /\ InInit /\ OmInit /\ MoInit /\ LeInit /\ GsInit /\ OiInit
    /\ \/ focus = "integration"
       \/ ~oiTakes /\ oiSaga = "pending" /\ oiKind = [w \in Writers |-> "store"]

\* What is not in focus stands still.
OthersStay ==
    /\ IF focus = "pipeline" THEN TRUE ELSE UNCHANGED vars
    /\ IF focus = "cqrs" THEN TRUE ELSE UNCHANGED cqVars
    /\ IF focus = "bus" THEN TRUE ELSE UNCHANGED kbVars
    /\ IF focus = "outbox bus" THEN TRUE ELSE UNCHANGED obVars
    /\ IF focus = "publisher" THEN TRUE ELSE UNCHANGED kpVars
    /\ IF focus = "replay" THEN TRUE ELSE UNCHANGED rpVars
    /\ IF focus \in {"unit", "locks"} THEN TRUE ELSE UNCHANGED unVars
    /\ IF focus = "locks" THEN TRUE ELSE UNCHANGED cmVars
    /\ IF focus = "collector" THEN TRUE ELSE UNCHANGED coVars
    /\ IF focus = "pool" THEN TRUE ELSE UNCHANGED poVars
    /\ IF focus = "aggregates" THEN TRUE ELSE UNCHANGED agVars
    /\ IF focus = "registration" THEN TRUE ELSE UNCHANGED rgVars
    /\ IF focus = "publishers" THEN TRUE ELSE UNCHANGED pbVars
    /\ IF focus = "trackers" THEN TRUE ELSE UNCHANGED tkVars
    /\ IF focus = "integration" THEN TRUE ELSE UNCHANGED oiVars
    /\ IF focus = "election" THEN TRUE ELSE UNCHANGED leVars
    /\ IF focus = "shutdown" THEN TRUE ELSE UNCHANGED gsVars
    /\ IF focus = "audit" THEN TRUE ELSE UNCHANGED alVars
    /\ IF focus = "siem" THEN TRUE ELSE UNCHANGED siVars
    /\ IF focus = "incidents" THEN TRUE ELSE UNCHANGED inVars
    /\ IF focus = "outbox monitor" THEN TRUE ELSE UNCHANGED omVars
    /\ IF focus = "trend" THEN TRUE ELSE UNCHANGED trVars
    /\ IF focus \in MonitoringParts THEN TRUE ELSE UNCHANGED moFaults
    /\ UNCHANGED focus

PipelineMoves == focus = "pipeline" /\ Next /\ OthersStay
CqrsMoves == focus = "cqrs" /\ CqNext /\ (cqStrategy # "sync" => UNCHANGED cqQueries) /\ OthersStay
BusMoves == focus = "bus" /\ KbNext /\ OthersStay
OutboxBusMoves == focus = "outbox bus" /\ ObNext /\ OthersStay
PublisherMoves == focus = "publisher" /\ KpNext /\ OthersStay
ReplayMoves == focus = "replay" /\ RpNext /\ OthersStay
UnitMoves == focus = "unit" /\ UnNext /\ OthersStay
\* The locks read versions that other units of work write.
LocksMove == focus = "locks" /\ CmNext /\ UNCHANGED unVars /\ OthersStay
StoredMoves == focus = "locks" /\ (\E x \in Stored : OtherSaves(x)) /\ UNCHANGED cmVars /\ OthersStay
CollectorMoves == focus = "collector" /\ CoNext /\ OthersStay
PoolMoves == focus = "pool" /\ PoNext /\ OthersStay
AggregatesMove == focus = "aggregates" /\ AgNext /\ OthersStay
RegistrationMoves == focus = "registration" /\ RgNext /\ OthersStay
PublishersMove == focus = "publishers" /\ PbNext /\ OthersStay
TrackersMove == focus = "trackers" /\ TkNext /\ OthersStay
IntegrationMoves == focus = "integration" /\ OiNext /\ OthersStay
ElectionMoves == focus = "election" /\ LeNext /\ OthersStay
ShutdownMoves == focus = "shutdown" /\ GsNext /\ OthersStay
AuditMoves == focus = "audit" /\ AlNext /\ OthersStay
SiemMoves == focus = "siem" /\ SiNext /\ OthersStay
IncidentsMove == focus = "incidents" /\ InNext /\ OthersStay
MonitorMoves == focus = "outbox monitor" /\ OmNext /\ OthersStay
TrendMoves == focus = "trend" /\ TrNext /\ OthersStay

MCNext ==
    \/ PipelineMoves \/ CqrsMoves \/ BusMoves \/ OutboxBusMoves \/ PublisherMoves \/ ReplayMoves
    \/ UnitMoves \/ LocksMove \/ StoredMoves \/ CollectorMoves \/ PoolMoves
    \/ AggregatesMove \/ RegistrationMoves \/ PublishersMove \/ TrackersMove
    \/ IntegrationMoves \/ ElectionMoves \/ ShutdownMoves
    \/ AuditMoves \/ SiemMoves \/ IncidentsMove \/ MonitorMoves \/ TrendMoves

MCVars == <<focus, vars, cqVars, kbVars, obVars, kpVars, rpVars, unVars, cmVars, coVars, poVars, agVars,
            rgVars, pbVars, tkVars, oiVars, leVars, gsVars, alVars, siVars, inVars, omVars, trVars, moFaults>>
MCSpec == MCInit /\ [][MCNext]_MCVars

----------------------------------------------------------------------------

(* A part that is not in focus stands in its initial state, which the part's own focus checks. *)

\* The variables of the part keep their types.
EventInfrastructureTypeOK ==
    CASE focus = "pipeline" -> TypeOK
      [] focus = "cqrs" -> CqTypeOK
      [] focus \in {"bus", "outbox bus", "publisher"} -> KafkaTypeOK
      [] focus = "replay" -> RpTypeOK
      [] focus \in {"unit", "locks", "collector", "pool"} -> UwTypeOK
      [] focus = "aggregates" -> AgTypeOK
      [] focus = "registration" -> RgTypeOK
      [] focus \in {"publishers", "trackers"} -> PublishersTypeOK
      [] focus = "integration" -> OiTypeOK
      [] focus = "election" -> LeTypeOK
      [] focus = "shutdown" -> GsTypeOK
      [] focus \in MonitoringParts -> MonitoringTypeOK

\* What is made of the events: CQRS's rows follow the newest event, its counts and checkpoints what
\* was projected, whatever the workers' transactions overlap; the pipeline's row agrees with the
\* events marked processed, with a replay beside the polls; replays handle every selected event in
\* the order of the versions; and aggregates are what their events make of them: the parts are in
\* Cqrs, EventPipeline, EventReplay and Aggregates.
ReadModelHolds ==
    /\ focus = "cqrs" => CqrsSafety
    /\ ProjectionAgrees /\ ProcessedIsReflected
    /\ focus = "replay" => ReplaySafety
    /\ focus = "aggregates" => AggregateSafety

\* The buses stop, mark and order what they were given, and the watchers' buffers, copies and gauges
\* lose and repeat nothing but where the code says so: the parts are in KafkaBus and Monitoring.
BusesAndWatchersHold ==
    /\ focus \in {"bus", "outbox bus", "publisher"} => KafkaSafety
    /\ focus \in MonitoringParts => MonitoringSafety

\* Transactions, locks and connections are given back, registrations stay consistent, what is
\* written is announced, what is announced is published as often as it was tried, one elector
\* leads, and a shutdown waits for its hooks: the parts are in UnitOfWork, Registration,
\* OutboxIntegration, OutboxPublishers and GracefulShutdown.
WritesHold ==
    /\ focus \in {"unit", "locks", "collector", "pool"} => UnitOfWorkSafety
    /\ focus = "registration" => RegistrationSafety
    /\ focus = "integration" => IntegrationSafety
    /\ focus = "election" => ElectionSafety
    /\ focus = "shutdown" => GracefulSafety
    /\ focus \in {"publishers", "trackers"} => PublishersSafety

============================================================================
