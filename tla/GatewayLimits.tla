---------------------------- MODULE GatewayLimits ----------------------------
(***************************************************************************)
(* What the gateway keeps in Redis for several processes at once: the rate   *)
(* limits (api-gateway/internal/ratelimit, pkg/middleware/rate_limiter.go),  *)
(* the quotas, and the API keys (api-gateway/internal/apikey).  A Lua script *)
(* or a pipeline is one step; what a process read before it may be old.      *)
(***************************************************************************)
EXTENDS Integers, FiniteSets

CONSTANTS
    Strategies,   \* of {"token_bucket", "sliding_window", "fixed_window", "counter"}
    LimitCallers, \* requests that ask for leave, over and over
    Limit,        \* requests per unit, and the capacity of the bucket
    UnitTicks,    \* ticks per unit: a token is added at each tick
    Spenders,     \* requests under a daily and a monthly quota
    Quota,        \* Quota["day"], Quota["month"]; 0 is no quota
    KeyAdmins,    \* processes that change the one API key
    MaxLimitTime, MaxAsked, MaxSpent, MaxChanges, MaxRedisFailures   \* bounds

ASSUME LimitsAssumption ==
    /\ Strategies \subseteq {"token_bucket", "sliding_window", "fixed_window", "counter"}
    /\ IsFiniteSet(Spenders) /\ Limit \in Nat \ {0} /\ UnitTicks \in Nat \ {0} /\ Quota \in [{"day", "month"} -> Nat]
    /\ MaxLimitTime \in Nat /\ MaxAsked \in Nat /\ MaxSpent \in Nat /\ MaxChanges \in Nat /\ MaxRedisFailures \in Nat

VARIABLES
    glStrategy, glNow, glAsk, glAsked,  \* strategy; the clock; the time each caller read; questions so far
    glTokens, glLast,                   \* the bucket in Redis: tokens, and the time of its last change
    glEntries,                          \* the sorted set of the sliding window: milliseconds
    glCount, glAllowed, glPassed,       \* per window: the counter in Redis, the requests let through; those in all
    glSpend, glUsage, glSpent,          \* what each spender does next; the usage counters; quotas asked so far
    glKey, glHash, glAdmin,             \* the key's record; whether its hash leads to it; what each admin does
    glRevoked, glChanges,               \* history: switched off or deleted with nobody about to write; changes
    glFailures

glBuckets == <<glTokens, glLast, glEntries, glCount, glAllowed, glPassed>>
glLimiter == <<glStrategy, glNow, glAsk, glAsked, glTokens, glLast, glEntries, glCount, glAllowed, glPassed>>
glQuotas == <<glSpend, glUsage, glSpent>>
glKeys == <<glKey, glHash, glAdmin, glRevoked, glChanges>>
glVars == <<glLimiter, glQuotas, glKeys, glFailures>>

RedisFails == glFailures < MaxRedisFailures /\ glFailures' = glFailures + 1
Windows == 0 .. (MaxLimitTime \div UnitTicks)
WindowOf(t) == t \div UnitTicks

----------------------------------------------------------------------------
(***************************************************************************)
(* Rate limits.  A caller reads the clock, and the script runs later.       *)
(***************************************************************************)
ReadClock(c) ==
    /\ glAsk[c] = -1 /\ glAsked < MaxAsked /\ glAsked' = glAsked + 1
    /\ glAsk' = [glAsk EXCEPT ![c] = glNow]
    /\ UNCHANGED <<glStrategy, glNow>> /\ UNCHANGED glBuckets

Lets(now) == glAllowed' = [glAllowed EXCEPT ![WindowOf(now)] = @ + 1] /\ glPassed' = glPassed + 1
Refuses == UNCHANGED <<glAllowed, glPassed>>
Least(a, b) == IF a < b THEN a ELSE b

\* The elapsed time is negative when a later caller's script came first.
DistributedTokenBucket(now) ==
    LET tokens == Least(Limit, glTokens + (now - glLast))
    IN  /\ glLast' = now
        /\ IF tokens >= 1 THEN glTokens' = tokens - 1 /\ Lets(now)
           ELSE glTokens' = tokens /\ Refuses
        /\ UNCHANGED <<glEntries, glCount>>
\* Two requests of one millisecond are one member of the set.
DistributedSlidingWindow(now) ==
    LET recent == {t \in glEntries : t > now - UnitTicks}
    IN  /\ IF Cardinality(recent) < Limit THEN glEntries' = recent \cup {now} /\ Lets(now)
           ELSE glEntries' = recent /\ Refuses
        /\ UNCHANGED <<glTokens, glLast, glCount>>
DistributedFixedWindow(now) ==
    LET w == WindowOf(now)
    IN  /\ IF glCount[w] < Limit THEN glCount' = [glCount EXCEPT ![w] = @ + 1] /\ Lets(now)
           ELSE UNCHANGED glCount /\ Refuses
        /\ UNCHANGED <<glTokens, glLast, glEntries>>
\* The middleware counts a request whether it lets it through or not.
CheckLimit(now) ==
    LET w == WindowOf(now)
    IN  /\ glCount' = [glCount EXCEPT ![w] = @ + 1]
        /\ IF glCount'[w] <= Limit THEN Lets(now) ELSE Refuses
        /\ UNCHANGED <<glTokens, glLast, glEntries>>
Allow(c) ==
    LET now == glAsk[c]
    IN  /\ now # -1 /\ glAsk' = [glAsk EXCEPT ![c] = -1]
        /\ CASE glStrategy = "token_bucket" -> DistributedTokenBucket(now)
             [] glStrategy = "sliding_window" -> DistributedSlidingWindow(now)
             [] glStrategy = "fixed_window" -> DistributedFixedWindow(now)
             [] glStrategy = "counter" -> CheckLimit(now)
        /\ UNCHANGED <<glStrategy, glNow, glAsked>>
ClockTick ==
    /\ glNow < MaxLimitTime /\ glNow' = glNow + 1
    /\ UNCHANGED <<glStrategy, glAsk, glAsked>> /\ UNCHANGED glBuckets

----------------------------------------------------------------------------
(***************************************************************************)
(* Quotas: the usage is read, the request is served, the usage is counted.   *)
(***************************************************************************)
Below(period) == Quota[period] = 0 \/ glUsage[period] < Quota[period]
ToSpend(s, at) == glSpend' = [glSpend EXCEPT ![s] = at]
CheckQuota(s) ==
    /\ \/ /\ glSpend[s] = "idle" /\ glSpent < MaxSpent /\ glSpent' = glSpent + 1
          /\ \/ Below("day") /\ ToSpend(s, "month") /\ UNCHANGED glFailures
             \/ ~Below("day") /\ ToSpend(s, "idle") /\ UNCHANGED glFailures
             \/ RedisFails /\ ToSpend(s, "idle")
       \/ /\ glSpend[s] = "month" /\ UNCHANGED glSpent
          /\ \/ ToSpend(s, IF Below("month") THEN "count day" ELSE "idle") /\ UNCHANGED glFailures
             \/ RedisFails /\ ToSpend(s, "idle")
    /\ UNCHANGED glUsage
IncrementUsage(s) ==
    LET counts(period, then) ==
            \/ /\ glUsage' = [glUsage EXCEPT ![period] = @ + 1] /\ ToSpend(s, then)
               /\ UNCHANGED glFailures
            \/ RedisFails /\ ToSpend(s, "idle") /\ UNCHANGED glUsage
    IN  /\ \/ glSpend[s] = "count day" /\ counts("day", "count month")
           \/ glSpend[s] = "count month" /\ counts("month", "idle")
        /\ UNCHANGED glSpent

----------------------------------------------------------------------------
(***************************************************************************)
(* The API key: a record under its id, and its hash leading to the id.       *)
(***************************************************************************)
NoAdminWork == [at |-> "idle", on |-> FALSE]
AdminAt(a, at) == glAdmin[a].at = at
AdminGoes(a, to) == glAdmin' = [glAdmin EXCEPT ![a] = to]
Writing(a) == glAdmin[a].at \in {"set record", "set hash"} /\ glAdmin[a].on

\* GetAPIKey, and the change in memory: switched on, switched off, or as it was.
UpdateAPIKey(a) ==
    /\ AdminAt(a, "idle") /\ glChanges < MaxChanges /\ glChanges' = glChanges + 1
    /\ glKey # "none"
    /\ \E on \in {glKey = "on", TRUE, FALSE} :
          /\ AdminGoes(a, [at |-> "set record", on |-> on])
          /\ glRevoked' = (glRevoked /\ ~on)
    /\ UNCHANGED <<glKey, glHash, glFailures>>
\* Nobody else is about to write the key as switched on.
Alone(a) == \A b \in KeyAdmins \ {a} : ~Writing(b)
StoreAPIKey(a) ==
    \/ /\ AdminAt(a, "set record")
       /\ \/ /\ glKey' = (IF glAdmin[a].on THEN "on" ELSE "off") /\ AdminGoes(a, [glAdmin[a] EXCEPT !.at = "set hash"])
             /\ UNCHANGED <<glFailures, glRevoked>>
          \/ RedisFails /\ AdminGoes(a, NoAdminWork) /\ UNCHANGED <<glKey, glRevoked>>
       /\ UNCHANGED <<glHash, glChanges>>
    \/ /\ AdminAt(a, "set hash") /\ AdminGoes(a, NoAdminWork)
       /\ \/ glHash' = TRUE /\ UNCHANGED glFailures
          \/ RedisFails /\ UNCHANGED glHash
       /\ glRevoked' = (glRevoked \/ (~glAdmin[a].on /\ Alone(a) /\ glKey = "off"))
       /\ UNCHANGED <<glKey, glChanges>>
\* The error of deleting the hash is not looked at.
DeleteAPIKey(a) ==
    \/ /\ AdminAt(a, "idle") /\ glChanges < MaxChanges /\ glChanges' = glChanges + 1 /\ glKey # "none"
       /\ AdminGoes(a, [at |-> "delete record", on |-> FALSE])
       /\ UNCHANGED <<glKey, glHash, glFailures, glRevoked>>
    \/ /\ AdminAt(a, "delete record") /\ UNCHANGED <<glHash, glChanges>>
       /\ \/ /\ glKey' = "none" /\ AdminGoes(a, [glAdmin[a] EXCEPT !.at = "delete hash"])
             /\ glRevoked' = (glRevoked \/ Alone(a)) /\ UNCHANGED glFailures
          \/ RedisFails /\ AdminGoes(a, NoAdminWork) /\ UNCHANGED <<glKey, glRevoked>>
    \/ /\ AdminAt(a, "delete hash") /\ AdminGoes(a, NoAdminWork) /\ UNCHANGED <<glKey, glRevoked, glChanges>>
       /\ \/ glHash' = FALSE /\ UNCHANGED glFailures
          \/ RedisFails /\ UNCHANGED glHash
\* What ValidateAPIKey answers: the hash, then the record it leads to.
ValidateAPIKey == glHash /\ glKey = "on"

----------------------------------------------------------------------------
GlInit ==
    /\ glStrategy \in Strategies /\ glNow = 0 /\ glAsk = [c \in LimitCallers |-> -1] /\ glAsked = 0
    /\ glTokens = Limit /\ glLast = 0 /\ glEntries = {}
    /\ glCount = [w \in Windows |-> 0] /\ glAllowed = [w \in Windows |-> 0] /\ glPassed = 0
    /\ glSpend = [s \in Spenders |-> "idle"] /\ glUsage = [p \in {"day", "month"} |-> 0] /\ glSpent = 0
    /\ glKey = "on" /\ glHash = TRUE /\ glAdmin = [a \in KeyAdmins |-> NoAdminWork]
    /\ glRevoked = FALSE /\ glChanges = 0 /\ glFailures = 0

\* The three share nothing but Redis, and each is followed alone.
LimiterNext ==
    /\ glSpent = 0 /\ glChanges = 0 /\ UNCHANGED glQuotas /\ UNCHANGED glKeys /\ UNCHANGED glFailures
    /\ ClockTick \/ \E c \in LimitCallers : ReadClock(c) \/ Allow(c)
QuotaNext ==
    /\ glAsked = 0 /\ glNow = 0 /\ glChanges = 0 /\ UNCHANGED glLimiter /\ UNCHANGED glKeys
    /\ \E s \in Spenders : CheckQuota(s) \/ IncrementUsage(s)
KeyNext ==
    /\ glAsked = 0 /\ glNow = 0 /\ glSpent = 0 /\ UNCHANGED glLimiter /\ UNCHANGED glQuotas
    /\ \E a \in KeyAdmins : UpdateAPIKey(a) \/ StoreAPIKey(a) \/ DeleteAPIKey(a)
GlNext == LimiterNext \/ QuotaNext \/ KeyNext

GlSpec == GlInit /\ [][GlNext]_glVars

----------------------------------------------------------------------------

GlTypeOK ==
    /\ glNow \in 0 .. MaxLimitTime /\ glAsk \in [LimitCallers -> -1 .. MaxLimitTime]
    /\ glTokens \in -MaxLimitTime .. Limit /\ glLast \in 0 .. MaxLimitTime /\ glEntries \subseteq 0 .. MaxLimitTime
    /\ glSpend \in [Spenders -> {"idle", "month", "count day", "count month"}]
    /\ glKey \in {"none", "on", "off"} /\ glHash \in BOOLEAN /\ glRevoked \in BOOLEAN

\* The bucket lets no more through than its capacity and a token a tick, although scripts run in
\* another order than the clocks were read.
BucketBudget == glStrategy = "token_bucket" => glPassed <= Limit + glNow
\* A fixed window lets no more through than its limit, at whatever time the requests of it run.
WindowBudget == glStrategy \in {"fixed_window", "counter"} => \A w \in Windows : glAllowed[w] <= Limit
\* A quota read before it is spent is overspent by no more than the requests that read it together.
QuotaOvershoot ==
    \A p \in {"day", "month"} : Quota[p] > 0 =>
        LET due == {s \in Spenders : \/ glSpend[s] = "count day"
                                     \/ glSpend[s] = "count month" /\ p = "month"
                                     \/ glSpend[s] = "month" /\ p = "day"}
        IN  glUsage[p] + Cardinality(due) <= Quota[p] - 1 + Cardinality(Spenders)
\* A key that was switched off or deleted, with nobody about to write an older copy back, validates
\* no more, until it is switched on.
RevokedStays == glRevoked => ~ValidateAPIKey

\* Limits, quotas and keys hold across the processes that share them.
LimitsSafety == BucketBudget /\ WindowBudget /\ QuotaOvershoot /\ RevokedStays

----------------------------------------------------------------------------
(***************************************************************************)
(* The circuit breaker of the gRPC servers (pkg/middleware/circuit_breaker.go): *)
(* requests are counted by generation, and nothing but an answer takes the       *)
(* breaker out of half-open.                                                     *)
(***************************************************************************)

CONSTANTS
    GrpcCalls,       \* requests that may be under way at once
    ProbeLimit,      \* MaxRequests, in half-open
    TripAt,          \* requests before the failure ratio counts (3)
    MaxCounted,      \* bound on the requests of one closed generation
    MaxGenerations   \* bound on the generations

\* The interceptor's configuration lets in ten probes, and three requests may trip.
ASSUME MiddlewareBreakerAssumption ==
    /\ IsFiniteSet(GrpcCalls) /\ ProbeLimit \in Nat \ {0} /\ TripAt \in 1 .. ProbeLimit
    /\ MaxCounted \in Nat /\ MaxGenerations \in Nat

VARIABLES
    mbState, mbGeneration, mbCounts, \* the breaker
    mbExpired,                       \* its expiry has passed
    mbCall                           \* the generation in which each call was admitted; 0 is none

mbVars == <<mbState, mbGeneration, mbCounts, mbExpired, mbCall>>

NoCounts == [requests |-> 0, failures |-> 0]
ReadyToTrip(counts) == counts.requests >= TripAt /\ 10 * counts.failures >= 6 * counts.requests

\* The breaker as a handler finds it: setState and toNewGeneration start the counts afresh.
NewGeneration(state) == [state |-> state, generation |-> mbGeneration + 1, counts |-> NoCounts, expired |-> FALSE]
AsItIs == [state |-> mbState, generation |-> mbGeneration, counts |-> mbCounts, expired |-> mbExpired]
CurrentState ==
    CASE mbState = "closed" /\ mbExpired -> NewGeneration("closed")
      [] mbState = "open" /\ mbExpired -> NewGeneration("half_open")
      [] OTHER -> AsItIs
Becomes(b) ==
    /\ mbState' = b.state /\ mbGeneration' = b.generation /\ mbCounts' = b.counts /\ mbExpired' = b.expired
    /\ b.generation <= MaxGenerations

BeforeRequest(c) ==
    LET b == CurrentState
        refused == b.state = "open" \/ (b.state = "half_open" /\ b.counts.requests >= ProbeLimit)
    IN  /\ mbCall[c] = 0 /\ b.counts.requests < MaxCounted
        /\ IF refused THEN Becomes(b) /\ UNCHANGED mbCall
           ELSE /\ Becomes([b EXCEPT !.counts.requests = @ + 1])
                /\ mbCall' = [mbCall EXCEPT ![c] = b.generation]

\* A request that fails trips the breaker by its ratio only, in half-open too; one that panics has
\* failed.
OnSuccess(b) == IF b.state = "half_open" THEN [b EXCEPT !.state = "closed", !.generation = @ + 1, !.counts = NoCounts, !.expired = FALSE]
                ELSE b
OnFailure(b) ==
    LET counted == [b EXCEPT !.counts.failures = @ + 1]
    IN  IF ReadyToTrip(counted.counts)
        THEN [b EXCEPT !.state = "open", !.generation = @ + 1, !.counts = NoCounts, !.expired = FALSE]
        ELSE counted
AfterRequest(c) ==
    LET b == CurrentState
    IN  /\ mbCall[c] # 0 /\ mbCall' = [mbCall EXCEPT ![c] = 0]
        /\ \/ b.generation # mbCall[c] /\ Becomes(b)
           \/ b.generation = mbCall[c] /\ (Becomes(OnSuccess(b)) \/ Becomes(OnFailure(b)))

\* The interval of a closed breaker, or the timeout of an open one, is over.
Expire ==
    /\ mbState # "half_open" /\ ~mbExpired /\ mbExpired' = TRUE
    /\ UNCHANGED <<mbState, mbGeneration, mbCounts, mbCall>>

MbInit ==
    /\ mbState = "closed" /\ mbGeneration = 1 /\ mbCounts = NoCounts /\ mbExpired = FALSE
    /\ mbCall = [c \in GrpcCalls |-> 0]
MbNext == Expire \/ \E c \in GrpcCalls : BeforeRequest(c) \/ AfterRequest(c)
MbSpec == MbInit /\ [][MbNext]_mbVars

----------------------------------------------------------------------------

MbTypeOK ==
    /\ mbState \in {"closed", "half_open", "open"} /\ mbGeneration \in 1 .. MaxGenerations
    /\ mbCounts \in [requests : 0 .. MaxCounted, failures : 0 .. MaxCounted] /\ mbExpired \in BOOLEAN
    /\ mbCall \in [GrpcCalls -> 0 .. MaxGenerations]

Probing == {c \in GrpcCalls : mbCall[c] = mbGeneration}
\* Half-open has no expiry, and its probes use up the limit: once no more are admitted, one of them
\* is still to answer, and the answer moves the breaker on.  Otherwise it would refuse for ever.
NeverWedged == mbState = "half_open" /\ mbCounts.requests >= ProbeLimit => Probing # {}
\* The requests of a generation are those under way and those that answered; no answer of another
\* generation is counted.
CountsOwn == mbCounts.failures + Cardinality(Probing) <= mbCounts.requests

\* A half-open breaker always has a way out, and counts what belongs to it.
MiddlewareBreakerSafety == NeverWedged /\ CountsOwn
=============================================================================
