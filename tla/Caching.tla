------------------------------- MODULE Caching -------------------------------
(***************************************************************************)
(* The multi-level cache (pkg/cache): a map and a BigCache in each process     *)
(* over one Redis, written and deleted level by level, read upwards with        *)
(* promotion.  And the edge cache (pkg/cdn): locations with a map each, a purge *)
(* queue and health checks.                                                      *)
(***************************************************************************)
EXTENDS Integers, Sequences, FiniteSets, SequencesExt

CONSTANTS
    Processes, CachedKeys, CacheUsers,    \* users call the cache of any process
    SetTTL, L1TTL, L2TTL, CleanWindow,    \* in ticks; BigCache drops an entry within a clean window
    L1MaxEntries,
    MaxCacheOps, MaxTime, MaxCacheFaults, \* bounds
    EdgeLocations, EdgeKeys, EdgeUsers, EdgeCapacity, PurgeQueueCap,
    MaxEdgeOps                            \* bound on edge requests and purges

ASSUME CachingAssumption ==
    /\ {SetTTL, L1TTL, L2TTL, CleanWindow, L1MaxEntries, EdgeCapacity, PurgeQueueCap} \subseteq Nat \ {0}
    /\ {MaxCacheOps, MaxTime, MaxCacheFaults, MaxEdgeOps} \subseteq Nat
    /\ Processes # {} /\ CachedKeys # {} /\ EdgeLocations # {} /\ EdgeKeys # {} /\ IsFiniteSet(EdgeKeys)

VARIABLES
    mlL1, mlL2, mlL3,  \* the levels
    mlRecent,          \* the keys of each map, least recently accessed first
    mlDoomed,          \* clean-ups spawned by a read of an expired entry and not yet run
    mlOpen, mlCall, mlNow, mlOps, mlFaults,
    mlWritten, mlLast, mlLoose,  \* history: who wrote each value and when; last write of a process;
                                 \* keys whose calls overlapped, skipped a level, or missed Redis
    ecCache, ecStuck, ecEntries, \* the maps; locations whose mutex is held for good; their counters
    ecHealthy, ecProbes, ecCall, ecOps,
    ecPurges, ecClosed, ecAccepted, ecPurged, ecLoop

mlVars == <<mlL1, mlL2, mlL3, mlRecent, mlDoomed, mlOpen, mlCall, mlNow, mlOps, mlFaults, mlWritten,
            mlLast, mlLoose>>
mlHistory == <<mlWritten, mlLast, mlLoose>>
ecStore == <<ecCache, ecStuck, ecEntries>>
ecQueueVars == <<ecPurges, ecClosed, ecAccepted, ecPurged, ecLoop>>
ecVars == <<ecCache, ecStuck, ecEntries, ecHealthy, ecProbes, ecCall, ecOps, ecPurges, ecClosed,
            ecAccepted, ecPurged, ecLoop>>

----------------------------------------------------------------------------
(***************************************************************************)
(* The multi-level cache.  Value 0 is none; the n-th call writes value n.       *)
(***************************************************************************)
NoCopy == [value |-> 0, expires |-> 0]
MaxLife == MaxTime + SetTTL + L1TTL + L2TTL
Copy == [value : 0 .. MaxCacheOps, expires : 0 .. MaxLife]
Sizes == {"small", "medium", "large"}
\* Below 10 KB a value goes to the map, below 100 KB to BigCache, and always to Redis.
ToL1(size) == size = "small"
ToL2(size) == size \in {"small", "medium"}
NoCacheCall == [at |-> "idle", kind |-> "get", process |-> CHOOSE p \in Processes : TRUE,
                key |-> CHOOSE k \in CachedKeys : TRUE, size |-> "small", value |-> 0]
CacheAt(u, at) == mlCall[u].at = at
CacheGoes(u, at) == mlCall' = [mlCall EXCEPT ![u].at = at]
CacheFault == mlFaults < MaxCacheFaults /\ mlFaults' = mlFaults + 1
Process(u) == mlCall[u].process
KeyOf(u) == mlCall[u].key
Overlapping(u, p, k) ==
    {o \in CacheUsers \ {u} : mlCall[o].at # "idle" /\ mlCall[o].process = p /\ mlCall[o].key = k}
Loosens(u) == mlLoose' = mlLoose \cup {<<Process(u), KeyOf(u)>>}

CacheKinds == {"get", "set", "delete"}
CacheRequest(kind, p, k, size) ==
    [at |-> "L1", kind |-> kind, process |-> p, key |-> k, size |-> size,
     value |-> IF kind = "set" THEN mlOps + 1 ELSE 0]
CacheCall(u) ==
    /\ CacheAt(u, "idle") /\ mlOps < MaxCacheOps /\ mlOps' = mlOps + 1
    /\ \E kind \in CacheKinds, p \in Processes, k \in CachedKeys, size \in Sizes :
          /\ mlOpen[p] /\ (kind # "set" => size = "small")
          /\ mlCall' = [mlCall EXCEPT ![u] = CacheRequest(kind, p, k, size)]
          /\ mlWritten' = IF kind = "set" THEN [mlWritten EXCEPT ![mlOps + 1] = [by |-> p, at |-> mlNow]]
                          ELSE mlWritten
          /\ mlLast' = IF kind = "get" THEN mlLast
                       ELSE [mlLast EXCEPT ![p][k] = CacheRequest(kind, p, k, size).value]
          \* history: an undisturbed call that touches every level leaves nothing old behind
          /\ mlLoose' = IF kind = "get" /\ Overlapping(u, p, k) = {} THEN mlLoose
                        ELSE IF Overlapping(u, p, k) = {} /\ size = "small" THEN mlLoose \ {<<p, k>>}
                        ELSE mlLoose \cup {<<p, k>>}
    /\ UNCHANGED <<mlL1, mlL2, mlL3, mlRecent, mlDoomed, mlOpen, mlNow, mlFaults>>

Touch(p, k) == Append(SelectSeq(mlRecent[p], LAMBDA x : x # k), k)
\* Full or not is asked before the key is looked at: an overwrite may evict another key.
SetToL1(p, k, copy) ==
    LET full == Len(mlRecent[p]) >= L1MaxEntries
        oldest == Head(mlRecent[p])
        left == IF full THEN Tail(mlRecent[p]) ELSE mlRecent[p] IN
    /\ mlL1' = [mlL1 EXCEPT ![p] = [x \in CachedKeys |->
                   IF x = k THEN copy ELSE IF full /\ x = oldest THEN NoCopy ELSE @[x]]]
    /\ mlRecent' = [mlRecent EXCEPT ![p] = Append(SelectSeq(left, LAMBDA x : x # k), k)]
DeleteFromL1(p, k) ==
    /\ mlL1' = [mlL1 EXCEPT ![p][k] = NoCopy]
    /\ mlRecent' = [mlRecent EXCEPT ![p] = SelectSeq(@, LAMBDA x : x # k)]
SetToL2(p, k, copy) == mlL2' = [mlL2 EXCEPT ![p][k] = copy]
Expired(copy) == copy.value # 0 /\ mlNow > copy.expires

\* A read of an expired entry spawns its removal and goes on below.
GetFromL1(u) ==
    LET p == Process(u)
        k == KeyOf(u)
        copy == mlL1[p][k] IN
    /\ CacheAt(u, "L1") /\ mlCall[u].kind = "get"
    /\ IF copy.value # 0 /\ ~Expired(copy)
       THEN mlCall' = [mlCall EXCEPT ![u] = NoCacheCall] /\ mlRecent' = [mlRecent EXCEPT ![p] = Touch(p, k)]
            /\ UNCHANGED mlDoomed
       ELSE CacheGoes(u, "L2") /\ UNCHANGED mlRecent
            /\ mlDoomed' = IF Expired(copy) THEN [mlDoomed EXCEPT ![p][k] = @ + 1] ELSE mlDoomed
    /\ UNCHANGED <<mlL1, mlL2, mlL3, mlOpen, mlNow, mlOps, mlFaults>> /\ UNCHANGED mlHistory
CleansUp(p, k) ==
    /\ mlDoomed[p][k] > 0 /\ mlDoomed' = [mlDoomed EXCEPT ![p][k] = @ - 1]
    /\ DeleteFromL1(p, k)
    /\ UNCHANGED <<mlL2, mlL3, mlOpen, mlCall, mlNow, mlOps, mlFaults>> /\ UNCHANGED mlHistory
GetFromL2(u) ==
    LET copy == mlL2[Process(u)][KeyOf(u)] IN
    /\ CacheAt(u, "L2") /\ mlCall[u].kind = "get"
    /\ IF copy.value # 0
       THEN mlCall' = [mlCall EXCEPT ![u].at = "promote1", ![u].value = copy.value]
       ELSE CacheGoes(u, "L3")
    /\ UNCHANGED <<mlL1, mlL2, mlL3, mlRecent, mlDoomed, mlOpen, mlNow, mlOps, mlFaults>>
    /\ UNCHANGED mlHistory
\* An error is a miss.
GetFromL3(u) ==
    LET copy == mlL3[KeyOf(u)] IN
    /\ CacheAt(u, "L3") /\ mlCall[u].kind = "get"
    /\ \/ /\ copy.value # 0 /\ mlOpen[Process(u)] /\ UNCHANGED mlFaults
          /\ mlCall' = [mlCall EXCEPT ![u].at = "promote2", ![u].value = copy.value]
       \/ /\ (copy.value = 0 \/ ~mlOpen[Process(u)]) /\ UNCHANGED mlFaults
          /\ mlCall' = [mlCall EXCEPT ![u] = NoCacheCall]
       \/ CacheFault /\ mlCall' = [mlCall EXCEPT ![u] = NoCacheCall]
    /\ UNCHANGED <<mlL1, mlL2, mlL3, mlRecent, mlDoomed, mlOpen, mlNow, mlOps>> /\ UNCHANGED mlHistory
\* What was found goes to the levels above for their own time, not for what is left of its time.
Promote(u) ==
    LET p == Process(u)
        k == KeyOf(u)
        v == mlCall[u].value IN
    /\ \/ /\ CacheAt(u, "promote2") /\ CacheGoes(u, "promote1") /\ UNCHANGED <<mlL1, mlRecent>>
          /\ SetToL2(p, k, [value |-> v, expires |-> mlNow + L2TTL])
       \/ /\ CacheAt(u, "promote1") /\ mlCall' = [mlCall EXCEPT ![u] = NoCacheCall] /\ UNCHANGED mlL2
          /\ SetToL1(p, k, [value |-> v, expires |-> mlNow + L1TTL])
    /\ UNCHANGED <<mlL3, mlDoomed, mlOpen, mlNow, mlOps, mlFaults>> /\ UNCHANGED mlHistory
\* Set, one level after the other; Redis's error is logged.
Set(u) ==
    LET c == mlCall[u]
        copy == [value |-> c.value, expires |-> mlNow + SetTTL] IN
    /\ c.kind = "set"
    /\ \/ /\ c.at = "L1" /\ CacheGoes(u, "L2")
          /\ IF ToL1(c.size) THEN SetToL1(c.process, c.key, copy) ELSE UNCHANGED <<mlL1, mlRecent>>
          /\ UNCHANGED <<mlL2, mlL3, mlFaults, mlLoose>>
       \/ /\ c.at = "L2" /\ CacheGoes(u, "L3")
          /\ IF ToL2(c.size) THEN SetToL2(c.process, c.key, [copy EXCEPT !.expires = mlNow + L2TTL])
             ELSE UNCHANGED mlL2
          /\ UNCHANGED <<mlL1, mlRecent, mlL3, mlFaults, mlLoose>>
       \/ /\ c.at = "L3" /\ mlCall' = [mlCall EXCEPT ![u] = NoCacheCall]
          /\ \/ mlOpen[c.process] /\ mlL3' = [mlL3 EXCEPT ![c.key] = copy] /\ UNCHANGED <<mlFaults, mlLoose>>
             \/ ~mlOpen[c.process] /\ UNCHANGED <<mlL3, mlFaults>> /\ Loosens(u)
             \/ CacheFault /\ UNCHANGED mlL3 /\ Loosens(u)
          /\ UNCHANGED <<mlL1, mlRecent, mlL2>>
    /\ UNCHANGED <<mlDoomed, mlOpen, mlNow, mlOps, mlWritten, mlLast>>
Delete(u) ==
    LET c == mlCall[u] IN
    /\ c.kind = "delete"
    /\ \/ /\ c.at = "L1" /\ CacheGoes(u, "L2") /\ DeleteFromL1(c.process, c.key)
          /\ UNCHANGED <<mlL2, mlL3, mlFaults, mlLoose>>
       \/ /\ c.at = "L2" /\ CacheGoes(u, "L3") /\ SetToL2(c.process, c.key, NoCopy)
          /\ UNCHANGED <<mlL1, mlRecent, mlL3, mlFaults, mlLoose>>
       \/ /\ c.at = "L3" /\ mlCall' = [mlCall EXCEPT ![u] = NoCacheCall]
          /\ \/ mlOpen[c.process] /\ mlL3' = [mlL3 EXCEPT ![c.key] = NoCopy] /\ UNCHANGED <<mlFaults, mlLoose>>
             \/ ~mlOpen[c.process] /\ UNCHANGED <<mlL3, mlFaults>> /\ Loosens(u)
             \/ CacheFault /\ UNCHANGED mlL3 /\ Loosens(u)
          /\ UNCHANGED <<mlL1, mlRecent, mlL2>>
    /\ UNCHANGED <<mlDoomed, mlOpen, mlNow, mlOps, mlWritten, mlLast>>

\* The maintenance routine of the map, and BigCache's own.
CleanExpiredL1Entries(p) ==
    LET old == {k \in CachedKeys : Expired(mlL1[p][k])} IN
    /\ mlOpen[p] /\ old # {}
    /\ mlL1' = [mlL1 EXCEPT ![p] = [k \in CachedKeys |-> IF k \in old THEN NoCopy ELSE @[k]]]
    /\ mlRecent' = [mlRecent EXCEPT ![p] = SelectSeq(@, LAMBDA k : k \notin old)]
    /\ UNCHANGED <<mlL2, mlL3, mlDoomed, mlOpen, mlCall, mlNow, mlOps, mlFaults>> /\ UNCHANGED mlHistory
CleanBigCache(p) ==
    /\ mlOpen[p] /\ \E k \in CachedKeys : Expired(mlL2[p][k])
    /\ mlL2' = [mlL2 EXCEPT ![p] = [k \in CachedKeys |-> IF Expired(@[k]) THEN NoCopy ELSE @[k]]]
    /\ UNCHANGED <<mlL1, mlL3, mlRecent, mlDoomed, mlOpen, mlCall, mlNow, mlOps, mlFaults>>
    /\ UNCHANGED mlHistory
\* A tick is longer than a call; Redis forgets at once, BigCache within its window.
CacheTick ==
    /\ mlNow < MaxTime /\ mlNow' = mlNow + 1 /\ \A u \in CacheUsers : CacheAt(u, "idle")
    /\ \A p \in Processes, k \in CachedKeys :
          mlOpen[p] /\ mlL2[p][k].value # 0 => mlNow < mlL2[p][k].expires + CleanWindow
    /\ mlL3' = [k \in CachedKeys |-> IF mlNow + 1 > mlL3[k].expires THEN NoCopy ELSE mlL3[k]]
    /\ UNCHANGED <<mlL1, mlL2, mlRecent, mlDoomed, mlOpen, mlCall, mlOps, mlFaults>> /\ UNCHANGED mlHistory
CloseCache(p) ==
    /\ mlOpen[p] /\ mlOpen' = [mlOpen EXCEPT ![p] = FALSE] /\ CacheFault
    /\ UNCHANGED <<mlL1, mlL2, mlL3, mlRecent, mlDoomed, mlCall, mlNow, mlOps>> /\ UNCHANGED mlHistory

MlInit ==
    /\ mlL1 = [p \in Processes |-> [k \in CachedKeys |-> NoCopy]] /\ mlL2 = mlL1
    /\ mlL3 = [k \in CachedKeys |-> NoCopy]
    /\ mlRecent = [p \in Processes |-> <<>>] /\ mlDoomed = [p \in Processes |-> [k \in CachedKeys |-> 0]]
    /\ mlOpen = [p \in Processes |-> TRUE] /\ mlCall = [u \in CacheUsers |-> NoCacheCall]
    /\ mlNow = 0 /\ mlOps = 0 /\ mlFaults = 0
    /\ mlWritten = [v \in 1 .. MaxCacheOps |-> [by |-> CHOOSE p \in Processes : TRUE, at |-> 0]]
    /\ mlLast = mlDoomed /\ mlLoose = {}
MlNext ==
    \/ \E u \in CacheUsers : \/ CacheCall(u) \/ GetFromL1(u) \/ GetFromL2(u) \/ GetFromL3(u)
                             \/ Promote(u) \/ Set(u) \/ Delete(u)
    \/ \E p \in Processes : CleanExpiredL1Entries(p) \/ CleanBigCache(p) \/ CloseCache(p)
    \/ \E p \in Processes, k \in CachedKeys : CleansUp(p, k)
    \/ CacheTick

----------------------------------------------------------------------------
(***************************************************************************)
(* The edge cache.  The score of a location divides by a counter nobody         *)
(* increments, so it is not a number and the first healthy one of the map, any   *)
(* of them, is chosen.                                                           *)
(***************************************************************************)
NoEdgeCall == [at |-> "idle", key |-> CHOOSE k \in EdgeKeys : TRUE, place |-> CHOOSE l \in EdgeLocations : TRUE,
               todo |-> {}, old |-> FALSE]
EdgeAt(u, at) == ecCall[u].at = at
EdgeRequest == ecOps < MaxEdgeOps /\ ecOps' = ecOps + 1
ServeFromCache(u) ==
    /\ EdgeAt(u, "idle") /\ EdgeRequest /\ ecHealthy # {}
    /\ \E k \in EdgeKeys, l \in ecHealthy :
          ecCall' = [ecCall EXCEPT ![u] = [NoEdgeCall EXCEPT !.at = "get", !.key = k, !.place = l]]
    /\ UNCHANGED ecStore /\ UNCHANGED ecQueueVars /\ UNCHANGED <<ecHealthy, ecProbes>>
\* What is old is found with the lock given up and deleted under a new one.
GetAtEdge(u) ==
    LET l == ecCall[u].place
        k == ecCall[u].key IN
    /\ EdgeAt(u, "get") /\ l \notin ecStuck
    /\ ecCall' = [ecCall EXCEPT ![u] = IF ecCache[l][k] = "old" THEN [@ EXCEPT !.at = "delete"] ELSE NoEdgeCall]
    /\ UNCHANGED ecStore /\ UNCHANGED ecQueueVars /\ UNCHANGED <<ecHealthy, ecProbes, ecOps>>
DeleteAtEdge(u) ==
    LET l == ecCall[u].place
        k == ecCall[u].key IN
    /\ EdgeAt(u, "delete") /\ l \notin ecStuck /\ ecCall' = [ecCall EXCEPT ![u] = NoEdgeCall]
    /\ ecCache' = [ecCache EXCEPT ![l][k] = "none"]
    /\ ecEntries' = IF ecCache[l][k] = "none" THEN ecEntries ELSE [ecEntries EXCEPT ![l] = @ - 1]
    /\ UNCHANGED ecStuck /\ UNCHANGED ecQueueVars /\ UNCHANGED <<ecHealthy, ecProbes, ecOps>>
\* Only a path with a rule that keeps it is cached, at every location healthy now.
CacheResponse(u) ==
    /\ EdgeAt(u, "idle") /\ EdgeRequest /\ ecHealthy # {}
    /\ \E k \in EdgeKeys :
          ecCall' = [ecCall EXCEPT ![u] = [NoEdgeCall EXCEPT !.at = "set", !.key = k, !.todo = ecHealthy]]
    /\ UNCHANGED ecStore /\ UNCHANGED ecQueueVars /\ UNCHANGED <<ecHealthy, ecProbes>>
HeldAt(l) == {k \in EdgeKeys : ecCache[l][k] # "none"}
\* A full location evicts through Delete, which asks for the mutex that Set holds: neither returns.
SetAtEdge(u) ==
    LET c == ecCall[u] IN
    /\ EdgeAt(u, "set")
    /\ \E l \in c.todo \ ecStuck :
          IF Cardinality(HeldAt(l)) >= EdgeCapacity
          THEN /\ ecStuck' = ecStuck \cup {l} /\ ecCall' = [ecCall EXCEPT ![u].at = "hangs", ![u].place = l]
               /\ UNCHANGED <<ecCache, ecEntries>>
          ELSE /\ ecCache' = [ecCache EXCEPT ![l][c.key] = "fresh"]
               /\ ecEntries' = [ecEntries EXCEPT ![l] = @ + 1]
               /\ ecCall' = [ecCall EXCEPT ![u] = IF c.todo = {l} THEN NoEdgeCall
                                                  ELSE [c EXCEPT !.todo = c.todo \ {l}]]
               /\ UNCHANGED ecStuck
    /\ UNCHANGED ecQueueVars /\ UNCHANGED <<ecHealthy, ecProbes, ecOps>>
EntryExpires(l, k) ==
    /\ ecCache[l][k] = "fresh" /\ ecCache' = [ecCache EXCEPT ![l][k] = "old"]
    /\ UNCHANGED <<ecStuck, ecEntries, ecCall, ecOps, ecHealthy, ecProbes>> /\ UNCHANGED ecQueueVars
\* Each check runs by itself, asks, and then takes the location's lock: a late answer replaces a newer one.
PerformHealthChecks ==
    /\ ~ecClosed /\ EdgeRequest /\ ecProbes' = [l \in EdgeLocations |-> ecProbes[l] + 1]
    /\ UNCHANGED ecStore /\ UNCHANGED ecQueueVars /\ UNCHANGED <<ecHealthy, ecCall>>
CheckLocationHealth(l) ==
    /\ ecProbes[l] > 0 /\ l \notin ecStuck /\ ecProbes' = [ecProbes EXCEPT ![l] = @ - 1]
    /\ \E ok \in BOOLEAN : ecHealthy' = IF ok THEN ecHealthy \cup {l} ELSE ecHealthy \ {l}
    /\ UNCHANGED ecStore /\ UNCHANGED ecQueueVars /\ UNCHANGED <<ecCall, ecOps>>

\* A purge goes to the providers only, and every provider fails to be built.
PurgeCache ==
    /\ EdgeRequest /\ UNCHANGED ecStore /\ UNCHANGED <<ecHealthy, ecProbes, ecCall>>
    /\ UNCHANGED <<ecClosed, ecPurged>>
    /\ \/ /\ ecClosed /\ ecLoop' = "panicked" /\ UNCHANGED <<ecPurges, ecAccepted>>
       \/ /\ ~ecClosed /\ ecPurges < PurgeQueueCap
          /\ ecPurges' = ecPurges + 1 /\ ecAccepted' = ecAccepted + 1 /\ UNCHANGED ecLoop
       \/ /\ ~ecClosed /\ ecPurges = PurgeQueueCap /\ UNCHANGED <<ecPurges, ecAccepted, ecLoop>>
ProcessPurgeQueue ==
    /\ ecLoop = "runs" /\ UNCHANGED ecStore
    /\ \/ ecPurges > 0 /\ ecPurges' = ecPurges - 1 /\ ecPurged' = ecPurged + 1 /\ UNCHANGED ecLoop
       \/ ecClosed /\ ecLoop' = "ended" /\ UNCHANGED <<ecPurges, ecPurged>>
    /\ UNCHANGED <<ecHealthy, ecProbes, ecCall, ecOps, ecClosed, ecAccepted>>
CloseEdge ==
    /\ ~ecClosed /\ EdgeRequest /\ ecClosed' = TRUE
    /\ UNCHANGED ecStore /\ UNCHANGED <<ecHealthy, ecProbes, ecCall, ecPurges, ecAccepted, ecPurged, ecLoop>>

\* A location is unhealthy until its first check.
EcInit ==
    /\ ecCache = [l \in EdgeLocations |-> [k \in EdgeKeys |-> "none"]] /\ ecStuck = {}
    /\ ecEntries = [l \in EdgeLocations |-> 0]
    /\ ecHealthy = {} /\ ecProbes = [l \in EdgeLocations |-> 0] /\ ecCall = [u \in EdgeUsers |-> NoEdgeCall]
    /\ ecOps = 0 /\ ecPurges = 0 /\ ecClosed = FALSE /\ ecAccepted = 0 /\ ecPurged = 0 /\ ecLoop = "runs"
EcNext ==
    \/ \E u \in EdgeUsers : ServeFromCache(u) \/ GetAtEdge(u) \/ DeleteAtEdge(u) \/ CacheResponse(u) \/ SetAtEdge(u)
    \/ \E l \in EdgeLocations : CheckLocationHealth(l) \/ (\E k \in EdgeKeys : EntryExpires(l, k))
    \/ PerformHealthChecks \/ PurgeCache \/ ProcessPurgeQueue \/ CloseEdge

----------------------------------------------------------------------------
CachingTypeOK ==
    /\ mlL1 \in [Processes -> [CachedKeys -> Copy]] /\ mlL2 \in [Processes -> [CachedKeys -> Copy]]
    /\ mlL3 \in [CachedKeys -> Copy] /\ mlNow \in 0 .. MaxTime
    /\ mlRecent \in [Processes -> SeqOf(CachedKeys, L1MaxEntries)]
    /\ ecCache \in [EdgeLocations -> [EdgeKeys -> {"none", "fresh", "old"}]]
    /\ ecPurges \in 0 .. PurgeQueueCap /\ ecStuck \subseteq EdgeLocations

\* Promotion gives a value the time of the level it reaches, so a value, overwritten or deleted as it may
\* be, can be served after the time given to Set; but never longer than one stay in each level.
LifeIsBounded ==
    \A k \in CachedKeys :
       LET lives(copy, n) == copy.value = 0 \/ copy.expires <= mlWritten[copy.value].at + n
       IN  /\ lives(mlL3[k], SetTTL)
           /\ \A p \in Processes : mlOpen[p] =>
                 /\ lives(mlL2[p][k], SetTTL + L2TTL)
                 /\ lives(mlL1[p][k], SetTTL + L2TTL + CleanWindow + L1TTL)
\* With no call overlapping, none too large for a level, and Redis there, a process that wrote or deleted
\* a key never meets an older value of its own, at any level.
OwnWritesStay ==
    \A p \in Processes, k \in CachedKeys :
       <<p, k>> \notin mlLoose /\ (\A u \in CacheUsers : ~(mlCall[u].at # "idle" /\ Process(u) = p /\ KeyOf(u) = k))
       => \A copy \in {mlL1[p][k], mlL2[p][k], mlL3[k]} :
             copy.value # 0 /\ mlWritten[copy.value].by = p => copy.value = mlLast[p][k]
\* A request, or a health check, waits for ever only at a location that is full.
HangsOnlyWhenFull ==
    /\ \A l \in ecStuck : Cardinality(HeldAt(l)) >= EdgeCapacity
    /\ \A u \in EdgeUsers : EdgeAt(u, "hangs") => ecCall[u].place \in ecStuck
\* The counter of entries is never below the entries, and an accepted purge is queued or done.
EdgeCountsKept ==
    /\ \A l \in EdgeLocations : ecEntries[l] >= Cardinality(HeldAt(l))
    /\ ecAccepted = ecPurged + ecPurges

\* The four together, for the two caches.
CachingSafety == LifeIsBounded /\ OwnWritesStay /\ HangsOnlyWhenFull /\ EdgeCountsKept
=============================================================================
