--------------------------- MODULE GraphqlGateway ---------------------------
(***************************************************************************)
(* The parts of the GraphQL gateway (graphql-gateway/src) that keep state  *)
(* across awaits: the response cache in Redis, and the data loaders of a   *)
(* request.  One action is what runs between two awaits.  A failed Redis   *)
(* call is only logged, and the code goes on (utils/redis.ts).             *)
(***************************************************************************)
EXTENDS Integers, Sequences, FiniteSets

CONSTANTS
    GqlCalls,           \* requests that may be under way at once
    GqlHorizon,         \* bound: the last instant
    MaxRedisFaults,     \* bound: steps in which calls of Redis fail
    CachedQueries,      \* keys of the cache: operation, variables, user; all with one tag
    QueryTTL,           \* [CachedQueries -> ttl]
    TagGrace,           \* what the tag's expiry adds to the ttl
    LoadedKeys,         \* keys of the data loaders
    RowsThere,          \* those the services have rows for at first
    MaxBatch            \* maxBatchSize

ASSUME GraphqlAssumption ==
    /\ {GqlHorizon, TagGrace, MaxBatch} \subseteq Nat
    /\ RowsThere \subseteq LoadedKeys /\ MaxBatch > 0 /\ QueryTTL \in [CachedQueries -> Nat]

VARIABLES
    rcNow,              \* the clock
    rcEnds,             \* [CachedQueries -> when the cached response expires, or 0: none]
    rcTag, rcTagEnds,   \* the tag's set of queries; when it expires, or 0: never
    rcCall, rcSweep,    \* requests under way, and the invalidation
    rcFaults,
    rcUnfound,          \* ghost: queries whose tag was lost; see TagFindsEntries
    dlThere,            \* keys the services have rows for
    dlAsked, dlFlight,  \* keys waiting for the next dispatch; keys of the batch under way
    dlAnswer,           \* [LoadedKeys -> what its promise holds]
    dlGiven             \* ghost: what load() callers were answered, per key

rcVars == <<rcNow, rcEnds, rcTag, rcTagEnds, rcCall, rcSweep, rcFaults, rcUnfound>>
dlVars == <<dlThere, dlAsked, dlFlight, dlAnswer, dlGiven>>
gqVars == <<rcVars, dlVars>>

-----------------------------------------------------------------------------
(* The response cache.                                                     *)

NoOperation == [at |-> "idle", q |-> {}]
IdleSweep == [at |-> "idle", found |-> {}]
Live(q) == rcEnds[q] # 0 /\ rcNow <= rcEnds[q]
TagSet == IF rcTagEnds = 0 \/ rcNow <= rcTagEnds THEN rcTag ELSE {}
TagKeeps(q) == q \in TagSet /\ (rcTagEnds = 0 \/ rcEnds[q] <= rcTagEnds)
RequestAt(c, place, q) == rcCall[c].at = place /\ rcCall[c].q = {q}
Tagging(q) == \E c \in GqlCalls : RequestAt(c, "tag", q) \/ RequestAt(c, "expire", q)
RequestTo(c, place) == rcCall' = [rcCall EXCEPT ![c].at = place]
RequestDone(c) == rcCall' = [rcCall EXCEPT ![c] = NoOperation]
CommandFails == rcFaults < MaxRedisFaults /\ rcFaults' = rcFaults + 1
RedisAnswers == UNCHANGED rcFaults

\* didResolveOperation looks the response up.  A hit does not keep the operation from being executed,
\* a response past its ttl that Redis still had is to be deleted.
ResolveOperation(c, q) ==
    /\ rcCall[c].at = "idle"
    /\ \/ rcCall' = [rcCall EXCEPT ![c] = [at |-> "set", q |-> {q}]]
       \/ rcEnds[q] # 0 /\ ~Live(q) /\ rcCall' = [rcCall EXCEPT ![c] = [at |-> "stale", q |-> {q}]]
    /\ UNCHANGED <<rcNow, rcEnds, rcTag, rcTagEnds, rcSweep, rcFaults, rcUnfound>>

\* By now it may be a new one.
DeleteStale(c, q) ==
    /\ RequestAt(c, "stale", q) /\ RequestTo(c, "set")
    /\ \/ rcEnds' = [rcEnds EXCEPT ![q] = 0] /\ RedisAnswers
       \/ CommandFails /\ UNCHANGED rcEnds
    /\ UNCHANGED <<rcNow, rcTag, rcTagEnds, rcSweep, rcUnfound>>

\* willSendResponse: a response with errors is not stored; any other is, with setex ...
SetEntry(c, q) ==
    /\ RequestAt(c, "set", q)
    /\ \/ RequestDone(c) /\ RedisAnswers /\ UNCHANGED rcEnds
       \/ RequestTo(c, "tag") /\ RedisAnswers /\ rcEnds' = [rcEnds EXCEPT ![q] = rcNow + QueryTTL[q]]
       \/ RequestTo(c, "tag") /\ CommandFails /\ UNCHANGED rcEnds
    /\ UNCHANGED <<rcNow, rcTag, rcTagEnds, rcSweep, rcUnfound>>

\* ... then the query is added to its tag with sadd, ...
AddTag(c, q) ==
    /\ RequestAt(c, "tag", q) /\ RequestTo(c, "expire")
    /\ \/ /\ rcTag' = TagSet \cup {q} /\ rcTagEnds' = (IF TagSet = {} THEN 0 ELSE rcTagEnds)
          /\ rcUnfound' = rcUnfound \cup (IF rcSweep.at = "idle" THEN {} ELSE {q}) /\ RedisAnswers
       \/ rcUnfound' = rcUnfound \cup {q} /\ CommandFails /\ UNCHANGED <<rcTag, rcTagEnds>>
    /\ UNCHANGED <<rcNow, rcEnds, rcSweep>>

\* ... and the tag, if it is there, is given the life of this response and the grace.
ExpireTag(c, q) ==
    /\ RequestAt(c, "expire", q) /\ RequestDone(c)
    /\ \/ /\ rcTagEnds' = (IF TagSet = {} THEN rcTagEnds ELSE rcNow + QueryTTL[q] + TagGrace) /\ RedisAnswers
          /\ rcUnfound' = (rcUnfound \ (IF q \in TagSet /\ rcSweep.at = "idle" THEN {q} ELSE {}))
                               \cup (IF q \in TagSet THEN {} ELSE {q})
                               \cup {p \in CachedQueries : rcEnds[p] > rcTagEnds'}
       \/ /\ CommandFails /\ UNCHANGED rcTagEnds
          /\ rcUnfound' = rcUnfound \cup (IF TagKeeps(q) THEN {} ELSE {q})
    /\ UNCHANGED <<rcNow, rcEnds, rcTag, rcSweep>>

\* invalidateByTags: the members (none without an answer), a del for each at once, the tag's set.
ReadMembers ==
    /\ rcSweep.at = "idle" /\ TagSet # {} /\ rcSweep' = [at |-> "delete", found |-> TagSet]
    /\ UNCHANGED <<rcNow, rcEnds, rcTag, rcTagEnds, rcCall, rcFaults, rcUnfound>>
WithoutEntries(gone) == [q \in CachedQueries |-> IF q \in gone THEN 0 ELSE rcEnds[q]]
DeleteEntries ==
    /\ rcSweep.at = "delete" /\ rcSweep' = [rcSweep EXCEPT !.at = "untag"]
    /\ \/ rcEnds' = WithoutEntries(rcSweep.found) /\ RedisAnswers /\ UNCHANGED rcUnfound
       \/ \E kept \in SUBSET rcSweep.found :
              /\ CommandFails /\ rcEnds' = WithoutEntries(rcSweep.found \ kept)
              /\ rcUnfound' = rcUnfound \cup kept
    /\ UNCHANGED <<rcNow, rcTag, rcTagEnds, rcCall>>
DeleteTag ==
    /\ rcSweep.at = "untag" /\ rcSweep' = IdleSweep
    /\ \/ rcTag' = {} /\ rcTagEnds' = 0 /\ RedisAnswers
       \/ CommandFails /\ UNCHANGED <<rcTag, rcTagEnds>>
    /\ UNCHANGED <<rcNow, rcEnds, rcCall, rcUnfound>>

\* invalidate, by pattern: some are deleted, each by a del of its own; the tag is left alone.
invalidate ==
    /\ \E gone \in (SUBSET {q \in CachedQueries : rcEnds[q] # 0}) \ {{}} : rcEnds' = WithoutEntries(gone)
    /\ UNCHANGED <<rcNow, rcTag, rcTagEnds, rcCall, rcSweep, rcFaults, rcUnfound>>

\* The process ends, and with it its requests and the invalidation; Redis keeps what it has.
GatewayRestarts ==
    /\ rcCall' = [c \in GqlCalls |-> NoOperation] /\ rcSweep' = IdleSweep
    /\ rcUnfound' = rcUnfound \cup {q \in CachedQueries : Tagging(q)}
    /\ UNCHANGED <<rcNow, rcEnds, rcTag, rcTagEnds, rcFaults>>
ResponseCacheTick ==
    /\ rcNow < GqlHorizon /\ rcNow' = rcNow + 1
    /\ UNCHANGED <<rcEnds, rcTag, rcTagEnds, rcCall, rcSweep, rcFaults, rcUnfound>>

RcInit ==
    /\ rcNow = 1 /\ rcEnds = [q \in CachedQueries |-> 0] /\ rcTag = {} /\ rcTagEnds = 0
    /\ rcCall = [c \in GqlCalls |-> NoOperation] /\ rcSweep = IdleSweep
    /\ rcFaults = 0 /\ rcUnfound = {}
RcNext ==
    \/ \E c \in GqlCalls, q \in CachedQueries :
          ResolveOperation(c, q) \/ DeleteStale(c, q) \/ SetEntry(c, q) \/ AddTag(c, q) \/ ExpireTag(c, q)
    \/ ReadMembers \/ DeleteEntries \/ DeleteTag \/ invalidate \/ GatewayRestarts \/ ResponseCacheTick

-----------------------------------------------------------------------------
(* The data loaders of one request.  A promise per key is kept; keys asked *)
(* in one tick make a batch.  All loaders map the service's answer back to *)
(* the keys: "row", or "none" for an Error value or an empty default.      *)

LoadKey(k) ==
    /\ dlAnswer[k] = "unasked"
    /\ dlAnswer' = [dlAnswer EXCEPT ![k] = "asked"] /\ dlAsked' = Append(dlAsked, k)
    /\ UNCHANGED <<dlThere, dlFlight, dlGiven>>

Dispatch ==
    /\ dlFlight = {} /\ dlAsked # <<>>
    /\ LET n == IF Len(dlAsked) > MaxBatch THEN MaxBatch ELSE Len(dlAsked)
       IN  /\ dlFlight' = {dlAsked[i] : i \in 1..n}
           /\ dlAsked' = SubSeq(dlAsked, n + 1, Len(dlAsked))
    /\ UNCHANGED <<dlThere, dlAnswer, dlGiven>>

\* The answer of the batch: rows by id.  A key cleared meanwhile keeps nothing of it.
BatchLoaded ==
    /\ dlFlight # {}
    /\ LET Own(k) == IF k \in dlThere THEN "row" ELSE "none"
           kept == {k \in dlFlight : dlAnswer[k] = "asked" /\ \A i \in 1..Len(dlAsked) : dlAsked[i] # k}
       IN  /\ dlAnswer' = [k \in LoadedKeys |-> IF k \in kept THEN Own(k) ELSE dlAnswer[k]]
           /\ dlGiven' = [k \in LoadedKeys |-> dlGiven[k] \cup (IF k \in kept THEN {Own(k)} ELSE {})]
    /\ dlFlight' = {}
    /\ UNCHANGED <<dlThere, dlAsked>>

\* The service answers with an error: every promise of the batch is rejected, and forgotten.
BatchFailed ==
    /\ dlFlight # {} /\ dlFlight' = {}
    /\ dlAnswer' = [k \in LoadedKeys |->
                        IF k \in dlFlight /\ \A i \in 1..Len(dlAsked) : dlAsked[i] # k
                        THEN "unasked" ELSE dlAnswer[k]]
    /\ dlGiven' = [k \in LoadedKeys |-> IF k \in dlFlight THEN {} ELSE dlGiven[k]]
    /\ UNCHANGED <<dlThere, dlAsked>>

\* Another load of a key whose promise is settled.
LoadAgain(k) ==
    /\ dlAnswer[k] \in {"row", "none"} /\ dlAnswer[k] \notin dlGiven[k]
    /\ dlGiven' = [dlGiven EXCEPT ![k] = @ \cup {dlAnswer[k]}]
    /\ UNCHANGED <<dlThere, dlAsked, dlFlight, dlAnswer>>

primeCache(k) ==
    /\ dlAnswer[k] = "unasked" /\ dlAnswer' = [dlAnswer EXCEPT ![k] = "row"]
    /\ UNCHANGED <<dlThere, dlAsked, dlFlight, dlGiven>>
clearCache(k) ==
    /\ dlAnswer[k] \in {"row", "none"}
    /\ dlAnswer' = [dlAnswer EXCEPT ![k] = "unasked"] /\ dlGiven' = [dlGiven EXCEPT ![k] = {}]
    /\ UNCHANGED <<dlThere, dlAsked, dlFlight>>
RowComesOrGoes(k) ==
    /\ dlThere' = IF k \in dlThere THEN dlThere \ {k} ELSE dlThere \cup {k}
    /\ UNCHANGED <<dlAsked, dlFlight, dlAnswer, dlGiven>>

DlInit == /\ dlThere = RowsThere /\ dlAsked = <<>> /\ dlFlight = {}
          /\ dlAnswer = [k \in LoadedKeys |-> "unasked"] /\ dlGiven = [k \in LoadedKeys |-> {}]
DlNext ==
    \/ \E k \in LoadedKeys : LoadKey(k) \/ LoadAgain(k) \/ primeCache(k) \/ clearCache(k) \/ RowComesOrGoes(k)
    \/ Dispatch \/ BatchLoaded \/ BatchFailed

------------------------------------------------------------------------

-----------------------------------------------------------------------------
GqInit == RcInit /\ DlInit

GraphqlTypeOK ==
    /\ rcEnds \in [CachedQueries -> Nat] /\ rcTag \subseteq CachedQueries /\ rcTagEnds \in Nat
    /\ \A c \in GqlCalls : rcCall[c].at \in {"idle", "stale", "set", "tag", "expire"}
    /\ dlAnswer \in [LoadedKeys -> {"unasked", "asked", "row", "none"}]

(* An invalidation by tag finds every cached response but one whose tag is *)
(* still to be added or given its expiry, and one whose tag was lost: a    *)
(* failed sadd, expire or del, the end of the process between the steps, a *)
(* tag added while another invalidation was under way or that ended before *)
(* its expiry came, and a tag cut short by a response with a shorter life. *)
TagFindsEntries ==
    \A q \in CachedQueries : Live(q) /\ ~Tagging(q) => q \in TagSet \cup rcUnfound

(* Within a request, and until its key is cleared, every load of a key is  *)
(* answered the same, whatever the rows do meanwhile; a batch is never     *)
(* larger than allowed, and no key is in two.                              *)
OneAnswerEach ==
    /\ \A k \in LoadedKeys : Cardinality(dlGiven[k]) <= 1
    /\ Cardinality(dlFlight) <= MaxBatch
    /\ \A i, j \in 1..Len(dlAsked) : i # j => dlAsked[i] # dlAsked[j]

=============================================================================
