--------------------------- MODULE FrontendClient ----------------------------
(***************************************************************************)
(* The browser client (frontend-integration): the HTTP client with its token *)
(* refresh and offline queue, the tagged cache under optimistic updates, and   *)
(* the realtime manager with its two transports.  The callbacks of one thread  *)
(* interleave at every await.  Three machines, prefixes fc, fo and fr.         *)
(***************************************************************************)
EXTENDS Integers, FiniteSets

CONSTANTS
    Calls,              \* calls of HTTPClient.request that may overlap
    FetchRetries,      \* configured
    Queued, MaxFetchAttempts, \* requests that may be queued offline; attempts given to each
    MaxCloses, MaxClientFaults, MaxExpiries,   \* bounds: pages closed, requests that fail, access tokens that expire
    CacheKeys, CacheTags, CacheSize,           \* of the cache manager; "record" and "table" are among them
    Updates, MaxWrites, \* optimistic updates of one record; bound on other uses of the cache
    RealtimeSubs, MaxSockets, ReconnectAttempts, MaxConnects   \* subscriptions; bounds

ASSUME FrontendAssumption ==
    /\ FetchRetries \in Nat \ {0} /\ MaxFetchAttempts \in Nat \ {0} /\ MaxCloses \in Nat /\ MaxClientFaults \in Nat
    /\ IsFiniteSet(Queued) /\ MaxExpiries \in Nat /\ CacheSize \in Nat \ {0} /\ "record" \in CacheKeys /\ "table" \in CacheTags
    /\ {"none", "server"} \cap Updates = {} /\ MaxWrites \in Nat /\ MaxSockets \in Nat \ {0} /\ ReconnectAttempts \in Nat /\ MaxConnects \in Nat

VARIABLES
    fcIssued, fcExpiredUpTo, fcAccess, fcRefresh, fcCalls, fcFaults, fcOverlapped,   \* tokens are their generation
    fcQueue, fcStored, fcPass, fcSent, fcApplied, fcCloses, fcAdded,                 \* the offline queue
    foCache, foBefore, foKeyTags, foTags, foUpdates, foWrites,
    frSockets, frSocket, frConnecting, frAttempts, frHeartbeat, frTimers, frKnown, frSub, frQueued,
    frActive, frStream, frToken, frFallback, frConnects,
    frReset   \* history: a socket closed while another was being connected

fcQueueVars == <<fcQueue, fcStored, fcPass, fcSent, fcApplied, fcCloses, fcAdded>>
fcTokenVars == <<fcIssued, fcExpiredUpTo, fcAccess, fcRefresh, fcCalls, fcOverlapped>>
fcVars == <<fcQueueVars, fcTokenVars, fcFaults>>
foCacheVars == <<foCache, foBefore, foKeyTags, foTags>>
foVars == <<foCacheVars, foUpdates, foWrites>>
frVars == <<frSockets, frSocket, frConnecting, frAttempts, frHeartbeat, frTimers, frKnown, frSub, frQueued,
            frActive, frStream, frToken, frFallback, frConnects, frReset>>

----------------------------------------------------------------------------
(***************************************************************************)
(* Requests and tokens.  The auth service takes a refresh token once.         *)
(***************************************************************************)
IdleFetch == [at |-> "idle", with |-> 0, attempt |-> 0]
FetchGoes(c, at) == fcCalls' = [fcCalls EXCEPT ![c].at = at]
FetchSends(c, n) == fcCalls' = [fcCalls EXCEPT ![c] = [at |-> "sent", with |-> fcAccess, attempt |-> n]]
ClientFault == fcFaults < MaxClientFaults /\ fcFaults' = fcFaults + 1
Refreshing == {c \in Calls : fcCalls[c].at = "refreshing"}

RequestStarts(c) ==
    /\ fcCalls[c].at \in {"idle", "done", "failed", "auth error"}
    /\ FetchSends(c, 1)
    /\ UNCHANGED <<fcIssued, fcExpiredUpTo, fcAccess, fcRefresh, fcOverlapped, fcFaults>>
\* A failure is tried again, a client error among them: the status the guard looks for is not on the error.
ExecuteWithRetry(c) ==
    IF fcCalls[c].attempt < FetchRetries
    THEN FetchSends(c, fcCalls[c].attempt + 1)
    ELSE FetchGoes(c, "failed")
\* The answer: an expired token asks for a refresh, with whatever refresh token the client holds by now.
ExecuteRequest(c) ==
    /\ fcCalls[c].at = "sent"
    /\ \/ fcCalls[c].with > fcExpiredUpTo /\ FetchGoes(c, "done") /\ UNCHANGED <<fcFaults, fcOverlapped>>
       \/ ClientFault /\ ExecuteWithRetry(c) /\ UNCHANGED fcOverlapped
       \/ /\ fcCalls[c].with <= fcExpiredUpTo /\ UNCHANGED fcFaults
          /\ fcCalls' = [fcCalls EXCEPT ![c].at = "refreshing", ![c].with = fcRefresh]
          /\ fcOverlapped' = (fcOverlapped \/ Refreshing # {})
    /\ UNCHANGED <<fcIssued, fcExpiredUpTo, fcAccess, fcRefresh>>
\* The retry after a refresh is not refreshed again.
RefreshAuthToken(c) ==
    /\ fcCalls[c].at = "refreshing"
    /\ \/ /\ fcCalls[c].with = fcIssued
          /\ fcIssued' = fcIssued + 1 /\ fcAccess' = fcIssued + 1 /\ fcRefresh' = fcIssued + 1
          /\ fcCalls' = [fcCalls EXCEPT ![c].at = "resent", ![c].with = fcIssued + 1] /\ UNCHANGED fcFaults
       \/ /\ fcCalls[c].with # fcIssued /\ FetchGoes(c, "auth error")
          /\ UNCHANGED <<fcIssued, fcAccess, fcRefresh, fcFaults>>
       \/ /\ ClientFault /\ FetchGoes(c, "auth error")
          /\ UNCHANGED <<fcIssued, fcAccess, fcRefresh>>
    /\ UNCHANGED <<fcExpiredUpTo, fcOverlapped>>
ProcessResponse(c) ==
    /\ fcCalls[c].at = "resent"
    /\ IF fcCalls[c].with > fcExpiredUpTo THEN FetchGoes(c, "done") ELSE ExecuteWithRetry(c)
    /\ UNCHANGED <<fcIssued, fcExpiredUpTo, fcAccess, fcRefresh, fcOverlapped, fcFaults>>
AccessTokenExpires ==
    /\ fcIssued <= MaxExpiries /\ fcExpiredUpTo < fcIssued /\ fcExpiredUpTo' = fcIssued
    /\ UNCHANGED <<fcIssued, fcAccess, fcRefresh, fcCalls, fcOverlapped, fcFaults>>

----------------------------------------------------------------------------
(***************************************************************************)
(* The offline queue, a copy of which is in the local storage.                *)
(***************************************************************************)
\* A queue: the attempts of each request in it, whose order is the one they were added in.
NoQueue == [id \in {} |-> 0]
\* A pass: the entries still to come, and the one that was sent and not answered.
NoPass == [on |-> FALSE, pending |-> NoQueue, handling |-> {}]
PassOver(pending, handling) == [on |-> TRUE, pending |-> pending, handling |-> handling]
RemoveFromQueue(queue, id) == [o \in DOMAIN queue \ {id} |-> queue[o]]
FirstOf(queue) == CHOOSE id \in DOMAIN queue : \A o \in DOMAIN queue : fcAdded[id] <= fcAdded[o]

\* Saved before anything is sent; nothing starts a pass here, the browser being offline.
AddRequest(id) ==
    /\ fcAdded[id] = 0
    /\ fcAdded' = [fcAdded EXCEPT ![id] = Cardinality({o \in Queued : fcAdded[o] # 0}) + 1]
    /\ fcQueue' = [o \in DOMAIN fcQueue \cup {id} |-> IF o = id THEN 0 ELSE fcQueue[o]] /\ fcStored' = fcQueue'
    /\ UNCHANGED <<fcPass, fcSent, fcApplied, fcCloses, fcFaults>>
StartPass ==
    /\ ~fcPass.on /\ DOMAIN fcQueue # {}
    /\ fcPass' = PassOver(fcQueue, {})
    /\ UNCHANGED <<fcQueue, fcStored, fcSent, fcApplied, fcCloses, fcAdded, fcFaults>>
\* It is sent though the queue may have been cleared since; the server may act on it whatever becomes of the answer.
SendQueued ==
    /\ fcPass.on /\ fcPass.handling = {}
    /\ LET id == FirstOf(fcPass.pending) IN
       /\ fcSent' = [fcSent EXCEPT ![id] = @ + 1]
       /\ fcApplied' = fcApplied \/ fcApplied' = [fcApplied EXCEPT ![id] = @ + 1]
       /\ fcPass' = PassOver(fcPass.pending, {id})
    /\ UNCHANGED <<fcQueue, fcStored, fcCloses, fcAdded, fcFaults>>
\* The last entry's end is the pass's: only then is the queue saved again.
ProcessQueue ==
    /\ fcPass.on
    /\ \E id \in fcPass.handling :
       LET tried == fcPass.pending[id] + 1
           left == RemoveFromQueue(fcPass.pending, id)
       IN  /\ \/ fcQueue' = RemoveFromQueue(fcQueue, id) /\ UNCHANGED fcFaults
              \/ /\ ClientFault
                 /\ fcQueue' = IF tried >= MaxFetchAttempts THEN RemoveFromQueue(fcQueue, id)
                               ELSE [o \in DOMAIN fcQueue |-> IF o = id THEN tried ELSE fcQueue[o]]
           /\ fcPass' = IF DOMAIN left = {} THEN NoPass ELSE PassOver(left, {})
           /\ fcStored' = IF DOMAIN left = {} THEN fcQueue' ELSE fcStored
    /\ UNCHANGED <<fcSent, fcApplied, fcCloses, fcAdded>>
ClearQueue ==
    /\ DOMAIN fcQueue # {} /\ fcQueue' = NoQueue /\ fcStored' = NoQueue
    /\ UNCHANGED <<fcPass, fcSent, fcApplied, fcCloses, fcAdded, fcFaults>>
\* The page is closed, perhaps in the middle of a pass, and opened again.
LoadFromStorage ==
    /\ fcCloses < MaxCloses /\ fcCloses' = fcCloses + 1
    /\ fcQueue' = fcStored /\ fcPass' = NoPass
    /\ UNCHANGED <<fcStored, fcSent, fcApplied, fcAdded, fcFaults>>

FcInit ==
    /\ fcIssued = 1 /\ fcExpiredUpTo = 0 /\ fcAccess = 1 /\ fcRefresh = 1
    /\ fcCalls = [c \in Calls |-> IdleFetch] /\ fcFaults = 0 /\ fcOverlapped = FALSE
    /\ fcQueue = NoQueue /\ fcStored = NoQueue /\ fcPass = NoPass /\ fcCloses = 0
    /\ fcAdded = [id \in Queued |-> 0] /\ fcSent = [id \in Queued |-> 0] /\ fcApplied = [id \in Queued |-> 0]
FcTokensNext ==
    \/ AccessTokenExpires
    \/ \E c \in Calls : RequestStarts(c) \/ ExecuteRequest(c) \/ RefreshAuthToken(c) \/ ProcessResponse(c)
FcQueueNext ==
    \/ \E id \in Queued : AddRequest(id)
    \/ StartPass \/ SendQueued \/ ProcessQueue \/ ClearQueue \/ LoadFromStorage

----------------------------------------------------------------------------
(***************************************************************************)
(* The cache: values, which entry was inserted before which, and two indexes   *)
(* that should mirror each other.  A set without tags leaves the old ones.     *)
(***************************************************************************)
Now0 == [shown |-> foCache, before |-> foBefore, keyTags |-> foKeyTags, tags |-> foTags]
BecomesCache(s) == foCache' = s.shown /\ foBefore' = s.before /\ foKeyTags' = s.keyTags /\ foTags' = s.tags

DeleteKeys(s, keys) ==
    [shown |-> [k \in DOMAIN s.shown \ keys |-> s.shown[k]],
     before |-> {e \in s.before : e[1] \notin keys /\ e[2] \notin keys},
     keyTags |-> [k \in CacheKeys |-> IF k \in keys THEN {} ELSE s.keyTags[k]],
     tags |-> [t \in CacheTags |-> s.tags[t] \ {k \in keys : t \in s.keyTags[k]}]]
Oldest(s) == CHOOSE k \in DOMAIN s.shown : \A j \in DOMAIN s.shown : <<j, k>> \notin s.before
EnforceMaxSize(s) == IF Cardinality(DOMAIN s.shown) > CacheSize THEN DeleteKeys(s, {Oldest(s)}) ELSE s
InsertKey(s, key, value, tags) ==
    [shown |-> [k \in DOMAIN s.shown \cup {key} |-> IF k = key THEN value ELSE s.shown[k]],
     before |-> IF key \in DOMAIN s.shown THEN s.before ELSE s.before \cup ((DOMAIN s.shown) \X {key}),
     keyTags |-> IF tags = {} THEN s.keyTags ELSE [s.keyTags EXCEPT ![key] = tags],
     tags |-> [t \in CacheTags |-> IF t \in tags THEN s.tags[t] \cup {key} ELSE s.tags[t]]]
SetKey(s, key, value, tags) == EnforceMaxSize(InsertKey(s, key, value, tags))
InvalidateByTag(s, tag) == DeleteKeys(s, s.tags[tag])

\* Other uses: a list or a record fetched, an entry that expires, a pattern or a tag invalidated.
UseCache ==
    /\ foWrites < MaxWrites /\ foWrites' = foWrites + 1
    /\ \/ \E key \in CacheKeys, tags \in SUBSET CacheTags : BecomesCache(SetKey(Now0, key, "server", tags))
       \/ \E keys \in SUBSET CacheKeys : BecomesCache(DeleteKeys(Now0, keys))
       \/ \E tag \in CacheTags : BecomesCache(InvalidateByTag(Now0, tag))
    /\ UNCHANGED foUpdates

----------------------------------------------------------------------------
(***************************************************************************)
(* Optimistic updates of the entry "record", tagged "table".  The caller      *)
(* passes what it sees as the data to go back to.                              *)
(***************************************************************************)
NoUpdate == [status |-> "none", operation |-> "none", previous |-> "none"]
Seen == IF "record" \in DOMAIN foCache THEN foCache["record"] ELSE "server"
UpdateBecomes(u, update) == foUpdates' = [foUpdates EXCEPT ![u] = update]

\* A new record's identity is its own and nobody else's: what a create shows is modelled by its removal alone.
CreateOptimisticUpdate(u) ==
    /\ foUpdates[u].status = "none"
    /\ \/ /\ UpdateBecomes(u, [status |-> "pending", operation |-> "update", previous |-> Seen])
          /\ BecomesCache(SetKey(Now0, "record", u, {"table"}))
       \/ /\ UpdateBecomes(u, [status |-> "pending", operation |-> "delete", previous |-> Seen])
          /\ BecomesCache(DeleteKeys(Now0, {"record"}))
    /\ UNCHANGED foWrites
\* The confirmed data replace the entry, without tags; the update is forgotten five seconds later.
ConfirmUpdate(u) ==
    /\ foUpdates[u].status \in {"pending", "confirmed"}
    /\ UpdateBecomes(u, [foUpdates[u] EXCEPT !.status = "confirmed"])
    /\ \E answered \in BOOLEAN :
          IF answered THEN BecomesCache(SetKey(Now0, "record", u, {})) ELSE UNCHANGED foCacheVars
    /\ UNCHANGED foWrites
ForgetUpdate(u) ==
    /\ foUpdates[u].status = "confirmed"
    /\ UpdateBecomes(u, [foUpdates[u] EXCEPT !.status = "forgotten"])
    /\ UNCHANGED foCacheVars /\ UNCHANGED foWrites
\* The previous data come back, and then the table's tag is invalidated: of a deletion the tag is unknown.
RollbackUpdate(u) ==
    /\ foUpdates[u].status = "pending"
    /\ UpdateBecomes(u, [foUpdates[u] EXCEPT !.status = "rolled_back"])
    /\ LET restored == SetKey(Now0, "record", foUpdates[u].previous, {}) IN
       BecomesCache(IF foUpdates[u].operation = "update" THEN InvalidateByTag(restored, "table") ELSE restored)
    /\ UNCHANGED foWrites

FoInit ==
    /\ foCache = [k \in {} |-> "server"] /\ foBefore = {} /\ foKeyTags = [k \in CacheKeys |-> {}] /\ foTags = [t \in CacheTags |-> {}]
    /\ foUpdates = [u \in Updates |-> NoUpdate] /\ foWrites = 0
FoNext == UseCache \/ \E u \in Updates :
    CreateOptimisticUpdate(u) \/ ConfirmUpdate(u) \/ ForgetUpdate(u) \/ RollbackUpdate(u)

----------------------------------------------------------------------------
(***************************************************************************)
(* The realtime manager.  A socket is connecting, open, closing (by us) or     *)
(* closed (its event delivered); frSocket is the one the client points at, 0     *)
(* for none; frKnown is the subscriptions each socket's server has been told of,  *)
(* frQueued those a message about which waits for a socket.                       *)
(***************************************************************************)
SocketStates == {"none", "connecting", "open", "closing", "closed"}
IsConnected == frSocket # 0 /\ frSockets[frSocket] = "open"
ShouldReconnect == frAttempts < ReconnectAttempts
Fresh == {s \in 1..MaxSockets : frSockets[s] = "none"}
NextSocket == CHOOSE s \in Fresh : \A q \in Fresh : s <= q
\* A subscription is asked for, active once confirmed, and gone; or untold, if it was removed unconfirmed
\* or with its message waiting, so that a server may have it still.
frSubs == {sub \in RealtimeSubs : frSub[sub] \in {"asked", "active"}}

\* Nothing happens while a connection is being made, or stands.
WsConnect ==
    IF frConnecting \/ IsConnected \/ Fresh = {} THEN UNCHANGED <<frSockets, frSocket, frConnecting>>
    ELSE /\ frSockets' = [frSockets EXCEPT ![NextSocket] = "connecting"]
         /\ frSocket' = NextSocket /\ frConnecting' = TRUE
\* The promise is kept at once: the manager takes the socket for active before it is open.
RealtimeConnect ==
    /\ frConnects < MaxConnects /\ Fresh # {} /\ frConnects' = frConnects + 1
    /\ WsConnect /\ frToken' = TRUE /\ frActive' = "websocket"
    /\ UNCHANGED <<frAttempts, frHeartbeat, frTimers, frKnown, frSub, frQueued, frStream, frFallback, frReset>>
\* Opening sends what waits and resubscribes everybody, on the socket the client points at, if that is open.
OnOpen(s) ==
    /\ frSockets[s] = "connecting" /\ frSockets' = [frSockets EXCEPT ![s] = "open"]
    /\ frConnecting' = FALSE /\ frAttempts' = 0 /\ frHeartbeat' = TRUE
    /\ IF frSocket = s \/ IsConnected
       THEN frKnown' = [frKnown EXCEPT ![frSocket] = @ \cup frQueued \cup frSubs] /\ frQueued' = {}
       ELSE UNCHANGED frKnown /\ frQueued' = frQueued \cup frSubs
    /\ UNCHANGED <<frSocket, frTimers, frSub, frActive, frStream, frToken, frFallback, frConnects, frReset>>
\* The manager falls back only from an active socket, and the new stream is active a microtask later.
ConnectionLost ==
    IF frActive = "websocket" /\ frToken THEN frStream' = TRUE /\ frFallback' = TRUE
    ELSE UNCHANGED <<frStream, frFallback>>
\* A clean close, ours, is not followed by a reconnection; it stops whichever heartbeat runs, and lets
\* another connection be made although one may be under way.
OnClose(s) ==
    /\ \/ /\ frSockets[s] = "closing" /\ UNCHANGED <<frAttempts, frTimers>>
       \/ /\ frSockets[s] \in {"connecting", "open"}
          /\ IF ShouldReconnect THEN frAttempts' = frAttempts + 1 /\ frTimers' = frTimers + 1
             ELSE UNCHANGED <<frAttempts, frTimers>>
    /\ frSockets' = [frSockets EXCEPT ![s] = "closed"]
    /\ frConnecting' = FALSE /\ frHeartbeat' = FALSE /\ ConnectionLost
    /\ frReset' = (frReset \/ \E q \in 1..MaxSockets \ {s} : frSockets[q] = "connecting")
    /\ UNCHANGED <<frSocket, frKnown, frSub, frQueued, frActive, frToken, frConnects>>
\* The timer fires whatever has happened since, a disconnection included.
ReconnectTimer ==
    /\ frTimers > 0 /\ Fresh # {} /\ frTimers' = frTimers - 1 /\ WsConnect
    /\ UNCHANGED <<frAttempts, frHeartbeat, frKnown, frSub, frQueued, frActive, frStream, frToken, frFallback,
                   frConnects, frReset>>
FallbackToSSE ==
    /\ frFallback /\ frFallback' = FALSE /\ frActive' = "sse"
    /\ UNCHANGED <<frSockets, frSocket, frConnecting, frAttempts, frHeartbeat, frTimers, frKnown, frSub, frQueued,
                   frStream, frToken, frConnects, frReset>>
\* Closing the socket falls back to a stream, which is closed at once; its microtask is still to come.
RealtimeDisconnect ==
    /\ frToken
    /\ frSockets' = IF frSocket # 0 /\ frSockets[frSocket] \in {"connecting", "open"}
                    THEN [frSockets EXCEPT ![frSocket] = "closing"] ELSE frSockets
    /\ frSocket' = 0 /\ frHeartbeat' = FALSE /\ frAttempts' = ReconnectAttempts
    /\ frFallback' = (frFallback \/ frActive = "websocket") /\ frStream' = FALSE
    /\ frActive' = "none" /\ frToken' = FALSE
    /\ UNCHANGED <<frConnecting, frTimers, frKnown, frSub, frQueued, frConnects, frReset>>
\* Those of the socket only; a subscription, whose identity is new, is sent if it is open, else when it opens.
SubscriptionChanges(sub, becomes) ==
    /\ frSub' = [frSub EXCEPT ![sub] = becomes]
    /\ UNCHANGED <<frSockets, frSocket, frConnecting, frAttempts, frHeartbeat, frTimers, frQueued, frActive, frStream,
                   frToken, frFallback, frConnects, frReset>>
RealtimeSubscribe(sub) ==
    /\ frActive = "websocket" /\ frSub[sub] = "none" /\ SubscriptionChanges(sub, "asked")
    /\ frKnown' = IF IsConnected THEN [frKnown EXCEPT ![frSocket] = @ \cup {sub}] ELSE frKnown
HandleSubscriptionConfirmed(s, sub) ==
    /\ frSockets[s] = "open" /\ sub \in frKnown[s] /\ frSub[sub] = "asked"
    /\ SubscriptionChanges(sub, "active") /\ UNCHANGED frKnown
\* The server is told of the end of a confirmed subscription only.
RealtimeUnsubscribe(sub) ==
    /\ sub \in frSubs
    /\ SubscriptionChanges(sub, IF frSub[sub] = "active" /\ sub \notin frQueued THEN "gone" ELSE "untold")
    /\ frKnown' = IF IsConnected /\ frSub[sub] = "active" THEN [frKnown EXCEPT ![frSocket] = @ \ {sub}] ELSE frKnown

FrInit ==
    /\ frSockets = [s \in 1..MaxSockets |-> "none"] /\ frSocket = 0 /\ frConnecting = FALSE /\ frAttempts = 0
    /\ frHeartbeat = FALSE /\ frTimers = 0 /\ frKnown = [s \in 1..MaxSockets |-> {}]
    /\ frSub = [sub \in RealtimeSubs |-> "none"] /\ frQueued = {} /\ frReset = FALSE
    /\ frActive = "none" /\ frStream = FALSE /\ frToken = FALSE /\ frFallback = FALSE /\ frConnects = 0
FrNext ==
    \/ RealtimeConnect \/ ReconnectTimer \/ FallbackToSSE \/ RealtimeDisconnect
    \/ \E s \in 1..MaxSockets : OnOpen(s) \/ OnClose(s) \/ \E sub \in RealtimeSubs : HandleSubscriptionConfirmed(s, sub)
    \/ \E sub \in RealtimeSubs : RealtimeSubscribe(sub) \/ RealtimeUnsubscribe(sub)

----------------------------------------------------------------------------
FrontendTypeOK ==
    /\ \A c \in Calls : fcCalls[c].at \in {"idle", "sent", "refreshing", "resent", "done", "failed", "auth error"}
    /\ DOMAIN fcQueue \subseteq Queued /\ DOMAIN fcStored \subseteq Queued /\ fcPass.on \in BOOLEAN
    /\ DOMAIN foCache \subseteq CacheKeys /\ Cardinality(DOMAIN foCache) <= CacheSize
    /\ foKeyTags \in [CacheKeys -> SUBSET CacheTags] /\ foTags \in [CacheTags -> SUBSET CacheKeys]
    /\ frSockets \in [1..MaxSockets -> SocketStates] /\ frSocket \in 0..MaxSockets
    /\ frKnown \in [1..MaxSockets -> SUBSET RealtimeSubs] /\ frActive \in {"none", "websocket", "sse"}

\* A user is sent to log in again only if a request failed or two refreshes of one token overlapped.
AuthErrorIsEarned ==
    (\E c \in Calls : fcCalls[c].at = "auth error") => fcFaults > 0 \/ fcOverlapped
\* A queued request is sent once, plus once for each failed answer and each page closed before the pass was saved.
OfflineOnce == \A id \in Queued :
    /\ fcSent[id] <= 1 + fcFaults + fcCloses
    /\ fcSent[id] <= MaxFetchAttempts * (1 + fcCloses)
    /\ fcApplied[id] <= fcSent[id]
\* Both indexes of the cache agree on the tags an entry has now, so that an invalidation reaches it.
TagsReach == \A k \in CacheKeys : \A t \in foKeyTags[k] : k \in foTags[t] /\ k \in DOMAIN foCache
\* What was rolled back is not shown, unless a later update had it as the data to go back to.
RolledBackGone == \A u \in Updates :
    foUpdates[u].status = "rolled_back" /\ "record" \in DOMAIN foCache /\ Seen = u =>
        \E v \in Updates \ {u} : foUpdates[v].previous = u
\* The server of the open socket has been told of every live subscription, and of others only if they
\* were removed before they were confirmed, or with a message about them waiting.
OpenKnowsAll == IsConnected =>
    /\ frSubs \subseteq frKnown[frSocket]
    /\ \A sub \in frKnown[frSocket] \ frSubs : frSub[sub] = "untold"
\* No socket but the client's own is being connected or is open, unless an earlier one's close was
\* delivered while another was being connected, which makes the client forget that.
NoOrphanSocket ==
    ~frReset => \A s \in 1..MaxSockets : frSockets[s] \in {"connecting", "open"} => s = frSocket

\* All of the above.
FrontendSafety ==
    /\ AuthErrorIsEarned /\ OfflineOnce /\ TagsReach /\ RolledBackGone /\ OpenKnowsAll /\ NoOrphanSocket
=============================================================================
