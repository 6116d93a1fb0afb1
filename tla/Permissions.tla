----------------------------- MODULE Permissions -----------------------------
(***************************************************************************)
(* The permission service (permission-service/internal): a check reads the    *)
(* cached answer, the user's own permissions, the roles, and caches what it    *)
(* found; a grant or a revocation changes a row and then drops the cached      *)
(* answers of the user.  And the gRPC client in front of it                    *)
(* (permission-service/pkg/client): a pool, retries and a circuit breaker.     *)
(***************************************************************************)
EXTENDS Integers, FiniteSets

CONSTANTS
    PermUsers,    \* users; each is asked about one action on one resource
    PermRequests, \* requests to the service that run at once
    RowIds,       \* rows of resource_permissions that may ever exist
    MaxAsks, MaxPermFaults,            \* bounds: requests served, failed accesses and expiries
    ClientCalls,  \* calls that share one client
    PoolSize, MaxRetries, MaxFailures, \* of the client
    MaxCalls      \* bound on the calls made

ASSUME PermissionsAssumption ==
    /\ MaxAsks \in Nat /\ MaxPermFaults \in Nat /\ MaxCalls \in Nat
    /\ PoolSize \in Nat \ {0} /\ MaxRetries \in Nat /\ MaxFailures \in Nat \ {0}

VARIABLES
    pmRows, pmHeld,   \* the user's own permissions, and who holds a role that allows the action
    pmCache, pmLate,  \* the cached answers; history: nothing in the code would have dropped it
    pmReq, pmAsks, pmFaults,
    pcState, pcFailures, pcExpired,       \* the client's breaker; its timeout is over
    pcPool, pcNext,                       \* the state of each connection; the next one in turn
    pcHolder, pcAttempt, pcConn, pcRan,   \* the call that holds the breaker's mutex; executions of it
    pcCalls

pmStore == <<pmRows, pmHeld, pmCache, pmLate>>
pmVars == <<pmRows, pmHeld, pmCache, pmLate, pmReq, pmAsks, pmFaults>>
pcVars == <<pcState, pcFailures, pcExpired, pcPool, pcNext, pcHolder, pcAttempt, pcConn, pcRan, pcCalls>>

ResourcePermission == [id : RowIds, user : PermUsers, effect : {"allow", "deny"}]
IdleCheck(u) == [at |-> "idle", kind |-> "check", by |-> u, of |-> u, row |-> {}, answer |-> "deny", stale |-> FALSE]
Moves(r, at) == pmReq' = [pmReq EXCEPT ![r].at = at]
AtStep(r, at) == pmReq[r].at = at
PermFault == pmFaults < MaxPermFaults /\ pmFaults' = pmFaults + 1
\* History: what the check under way has read of the user is out of date.
Spoils(u, q) == IF q.by = u /\ q.at \in {"role", "set"} THEN [q EXCEPT !.stale = TRUE] ELSE q

----------------------------------------------------------------------------
(***************************************************************************)
(* CheckPermission, which every handler goes through first.                  *)
(***************************************************************************)
Ask(r) ==
    /\ AtStep(r, "idle") /\ pmAsks < MaxAsks /\ pmAsks' = pmAsks + 1
    /\ \E kind \in {"check", "grant", "revoke", "role"}, by, of \in PermUsers :
          \E row \in IF kind = "revoke" THEN pmRows ELSE {[id |-> 0, user |-> of, effect |-> "allow"]} :
             /\ kind = "revoke" => row.user = of
             /\ kind \in {"check", "role"} => of = by
             /\ pmReq' = [pmReq EXCEPT ![r] = [IdleCheck(by) EXCEPT
                             !.at = "cache", !.kind = kind, !.of = of,
                             !.row = IF kind = "revoke" THEN {row} ELSE {}]]
    /\ UNCHANGED pmStore /\ UNCHANGED pmFaults

\* With the answer known, a check is over and another handler does its work or refuses it.
Answered(q, answer) ==
    IF q.kind # "check" /\ answer = "allow" THEN [q EXCEPT !.answer = answer, !.at = "act"]
    ELSE IdleCheck(q.by)
ReadCache(r) ==
    /\ AtStep(r, "cache")
    /\ \/ /\ pmCache[pmReq[r].by] # "none" /\ UNCHANGED pmFaults
          /\ pmReq' = [pmReq EXCEPT ![r] = Answered(@, pmCache[@.by])]
       \/ pmCache[pmReq[r].by] = "none" /\ Moves(r, "direct") /\ UNCHANGED pmFaults
       \/ PermFault /\ Moves(r, "direct")
    /\ UNCHANGED pmStore /\ UNCHANGED pmAsks
RowsOf(u) == {row \in pmRows : row.user = u}
\* The query has no order: of several rows any may come first, and the first one decides.
CheckDirectPermission(r) ==
    LET u == pmReq[r].by IN
    /\ AtStep(r, "direct")
    /\ \/ /\ UNCHANGED pmFaults
          /\ \E row \in RowsOf(u) :
                pmReq' = [pmReq EXCEPT ![r].at = "set", ![r].answer = row.effect]
       \/ RowsOf(u) = {} /\ Moves(r, "role") /\ UNCHANGED pmFaults
       \/ PermFault /\ pmReq' = [pmReq EXCEPT ![r].at = "role", ![r].stale = TRUE]
    /\ UNCHANGED pmStore /\ UNCHANGED pmAsks
\* Global, type and resource roles: one that allows the action is enough; an error counts as none.
CheckRoleBasedPermission(r) ==
    /\ AtStep(r, "role")
    /\ \/ /\ UNCHANGED pmFaults
          /\ pmReq' = [pmReq EXCEPT ![r].at = "set", ![r].answer = IF pmReq[r].by \in pmHeld THEN "allow" ELSE "deny"]
       \/ PermFault /\ pmReq' = [pmReq EXCEPT ![r].at = "set", ![r].answer = "deny", ![r].stale = TRUE]
    /\ UNCHANGED pmStore /\ UNCHANGED pmAsks
\* The error of Set is not looked at.
CheckPermission(r) ==
    /\ AtStep(r, "set")
    /\ pmReq' = [pmReq EXCEPT ![r] = Answered(@, @.answer)]
    /\ \/ /\ pmCache' = [pmCache EXCEPT ![pmReq[r].by] = pmReq[r].answer]
          /\ pmLate' = [pmLate EXCEPT ![pmReq[r].by] = pmReq[r].stale] /\ UNCHANGED pmFaults
       \/ PermFault /\ UNCHANGED <<pmCache, pmLate>>
    /\ UNCHANGED <<pmRows, pmHeld, pmAsks>>

----------------------------------------------------------------------------
(***************************************************************************)
(* What the handlers do once they are allowed to.                            *)
(***************************************************************************)
\* Mutant: the handler returns without dropping the cached answers.
ChangesRowsOnly(r, rows) ==
    /\ pmRows' = rows
    /\ pmReq' = [q \in PermRequests |->
                    LET seen == Spoils(pmReq[r].of, pmReq[q])
                    IN  IF q = r THEN [seen EXCEPT !.at = "idle"] ELSE seen]
    /\ UNCHANGED <<pmHeld, pmCache, pmLate, pmFaults>>
\* The row is changed and the user's cached answers are owed their removal.
ChangesRows(r, rows) ==
    /\ pmRows' = rows
    /\ pmReq' = [q \in PermRequests |->
                    LET seen == Spoils(pmReq[r].of, pmReq[q])
                    IN  IF q = r THEN [seen EXCEPT !.at = "invalidate"] ELSE seen]
    /\ UNCHANGED <<pmHeld, pmCache, pmLate, pmFaults>>
NotDone(r) == Moves(r, "idle") /\ UNCHANGED pmStore
GrantPermission(r) ==
    /\ AtStep(r, "act") /\ pmReq[r].kind = "grant" /\ UNCHANGED pmAsks
    /\ \/ \E id \in RowIds, effect \in {"allow", "deny"} :
             /\ \A row \in pmRows : row.id # id
             /\ ChangesRows(r, pmRows \cup {[id |-> id, user |-> pmReq[r].of, effect |-> effect]})
       \/ PermFault /\ NotDone(r)
RevokePermission(r) ==
    /\ AtStep(r, "act") /\ pmReq[r].kind = "revoke" /\ UNCHANGED pmAsks
    /\ \/ pmReq[r].row \subseteq pmRows /\ ChangesRows(r, pmRows \ pmReq[r].row)
       \/ ~(pmReq[r].row \subseteq pmRows) /\ NotDone(r) /\ UNCHANGED pmFaults
       \/ PermFault /\ NotDone(r)
\* GetByName and GetUserRole return a role even with their "not found" error: the role "already exists"
\* or is "already assigned", and nothing is written.
CreateOrAssignRole(r) ==
    /\ AtStep(r, "act") /\ pmReq[r].kind = "role"
    /\ NotDone(r) /\ UNCHANGED <<pmAsks, pmFaults>>
\* KEYS and DEL; an error is logged.
InvalidateUserPermissionCache(r) ==
    LET u == pmReq[r].of IN
    /\ AtStep(r, "invalidate") /\ Moves(r, "idle")
    /\ \/ /\ pmCache' = [pmCache EXCEPT ![u] = "none"] /\ pmLate' = [pmLate EXCEPT ![u] = FALSE]
          /\ UNCHANGED pmFaults
       \/ PermFault /\ pmLate' = [pmLate EXCEPT ![u] = TRUE] /\ UNCHANGED pmCache
    /\ UNCHANGED <<pmRows, pmHeld, pmAsks>>

\* A cached answer lives five minutes.
CacheEntryExpires(u) ==
    /\ pmCache[u] # "none" /\ pmCache' = [pmCache EXCEPT ![u] = "none"]
    /\ pmLate' = [pmLate EXCEPT ![u] = FALSE]
    /\ UNCHANGED <<pmRows, pmHeld, pmReq, pmAsks, pmFaults>>
\* Time ends a permission or a role, and nothing drops the cached answer.
PermissionExpires(u) ==
    /\ PermFault /\ UNCHANGED <<pmCache, pmAsks>>
    /\ \/ pmRows' \in {pmRows \ {row} : row \in RowsOf(u)} /\ UNCHANGED pmHeld
       \/ u \in pmHeld /\ pmHeld' = pmHeld \ {u} /\ UNCHANGED pmRows
    /\ pmLate' = [pmLate EXCEPT ![u] = pmCache[u] # "none"]
    /\ pmReq' = [q \in PermRequests |-> Spoils(u, pmReq[q])]

PmInit ==
    /\ pmRows = {} /\ pmHeld \in SUBSET PermUsers /\ pmHeld # {}
    /\ pmCache = [u \in PermUsers |-> "none"] /\ pmLate = [u \in PermUsers |-> FALSE]
    /\ pmReq = [r \in PermRequests |-> IdleCheck(CHOOSE u \in PermUsers : TRUE)]
    /\ pmAsks = 0 /\ pmFaults = 0
PmNext ==
    \/ \E r \in PermRequests :
          \/ Ask(r) \/ ReadCache(r) \/ CheckDirectPermission(r) \/ CheckRoleBasedPermission(r) \/ CheckPermission(r)
          \/ GrantPermission(r) \/ RevokePermission(r) \/ CreateOrAssignRole(r) \/ InvalidateUserPermissionCache(r)
    \/ \E u \in PermUsers : CacheEntryExpires(u) \/ PermissionExpires(u)

----------------------------------------------------------------------------
(***************************************************************************)
(* The client.  Call keeps its mutex while the request is made and retried.  *)
(***************************************************************************)
NoCall == "none"
ASSUME ClientAssumption == NoCall \notin ClientCalls

StartCall(c) ==
    /\ pcHolder = NoCall /\ pcCalls < MaxCalls /\ pcCalls' = pcCalls + 1
    /\ IF pcState = "open" /\ ~pcExpired
       THEN UNCHANGED <<pcState, pcHolder, pcAttempt, pcRan>>
       ELSE /\ pcState' = (IF pcState = "open" THEN "half_open" ELSE pcState)
            /\ pcHolder' = c /\ pcAttempt' = 1 /\ pcRan' = 0
    /\ UNCHANGED <<pcFailures, pcExpired, pcPool, pcNext, pcConn>>
\* A bad connection is not replaced itself: the new one goes into the slot that is next in turn, and
\* the one there is closed.
GetConnection ==
    /\ pcHolder # NoCall /\ pcConn = "none" /\ pcNext' = 1 + (pcNext % PoolSize)
    /\ \/ pcConn' = pcPool[pcNext] /\ UNCHANGED pcPool
       \/ /\ pcPool[pcNext] = "bad"
          /\ pcPool' = [pcPool EXCEPT ![pcNext'] = "ready"] /\ pcConn' = "ready"
    /\ UNCHANGED <<pcState, pcFailures, pcExpired, pcHolder, pcAttempt, pcRan, pcCalls>>

Returns(failed) ==
    /\ pcHolder' = NoCall /\ pcAttempt' = 0 /\ pcConn' = "none"
    /\ IF failed
       THEN /\ pcFailures' = pcFailures + 1 /\ pcExpired' = FALSE
            /\ pcState' = (IF pcFailures + 1 >= MaxFailures THEN "open" ELSE pcState)
       ELSE pcFailures' = 0 /\ pcState' = "closed" /\ UNCHANGED pcExpired
\* A retryable error comes before the server ran the request or after; the caller may give up instead
\* of waiting for the next attempt.
WithRetry ==
    LET fails == IF pcAttempt <= MaxRetries
                 THEN \/ pcAttempt' = pcAttempt + 1 /\ pcConn' = "none" /\ UNCHANGED <<pcState, pcFailures, pcExpired, pcHolder>>
                      \/ Returns(TRUE)
                 ELSE Returns(TRUE)
    IN  /\ pcConn # "none" /\ UNCHANGED <<pcPool, pcNext, pcCalls>>
        /\ \/ pcConn = "ready" /\ pcRan' = pcRan + 1 /\ (Returns(FALSE) \/ fails)
           \/ pcRan' = pcRan /\ (fails \/ Returns(TRUE))
ConnectionTurns(i) ==
    /\ pcPool' = [pcPool EXCEPT ![i] = IF @ = "ready" THEN "bad" ELSE "ready"]
    /\ UNCHANGED <<pcState, pcFailures, pcExpired, pcNext, pcHolder, pcAttempt, pcConn, pcRan, pcCalls>>
OpenTimeoutPasses ==
    /\ pcState = "open" /\ ~pcExpired /\ pcExpired' = TRUE
    /\ UNCHANGED <<pcState, pcFailures, pcPool, pcNext, pcHolder, pcAttempt, pcConn, pcRan, pcCalls>>

PcInit ==
    /\ pcState = "closed" /\ pcFailures = 0 /\ pcExpired = FALSE
    /\ pcPool = [i \in 1 .. PoolSize |-> "ready"] /\ pcNext = 1
    /\ pcHolder = NoCall /\ pcAttempt = 0 /\ pcConn = "none" /\ pcRan = 0 /\ pcCalls = 0
PcNext ==
    \/ \E c \in ClientCalls : StartCall(c)
    \/ GetConnection \/ WithRetry \/ OpenTimeoutPasses
    \/ \E i \in 1 .. PoolSize : ConnectionTurns(i)

----------------------------------------------------------------------------

PmTypeOK ==
    /\ pmRows \subseteq ResourcePermission /\ pmHeld \subseteq PermUsers
    /\ pmCache \in [PermUsers -> {"none", "allow", "deny"}] /\ pmLate \in [PermUsers -> BOOLEAN]
    /\ \A r \in PermRequests : pmReq[r].at \in {"idle", "cache", "direct", "role", "set", "act", "invalidate"}
    /\ pcState \in {"closed", "open", "half_open"} /\ pcNext \in 1 .. PoolSize
    /\ pcHolder \in ClientCalls \cup {NoCall} /\ pcAttempt \in 0 .. MaxRetries + 1

\* What the tables say of a user.
Decisions(u) ==
    IF RowsOf(u) # {} THEN {row.effect : row \in RowsOf(u)}
    ELSE IF u \in pmHeld THEN {"allow"} ELSE {"deny"}
\* A cached answer that the tables do not give is owed a removal, or was read before the last change,
\* or its rows have expired, or the removal failed: no other way leads to a stale answer.
CacheIsCurrent ==
    \A u \in PermUsers :
        pmCache[u] # "none" /\ ~pmLate[u] /\ (\A r \in PermRequests : AtStep(r, "invalidate") => pmReq[r].of # u)
        => pmCache[u] \in Decisions(u)
\* The breaker leaves "closed" exactly with its failures at the limit, probes only inside a call, and
\* no call runs more often than its attempts.
ClientHolds ==
    /\ (pcState # "closed") = (pcFailures >= MaxFailures)
    /\ pcState = "half_open" => pcHolder # NoCall
    /\ pcRan <= MaxRetries + 1
\* The service and its client keep what they promise.
PermissionSafety == CacheIsCurrent /\ ClientHolds
=============================================================================
