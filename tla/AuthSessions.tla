---------------------------- MODULE AuthSessions ----------------------------
(***************************************************************************)
(* The auth service's accounts and refresh tokens.  One e-mail address, its  *)
(* row in Postgres, and the three kinds of Redis keys a token has:           *)
(* refresh_token, blacklist_token and membership of user_tokens.  Requests   *)
(* run concurrently, one statement per step; a statement may fail, MaxAuthFaults *)
(* times, and a key may run out of time.  An access token is valid until it  *)
(* expires whatever happens here, so only its issue is modelled.             *)
(***************************************************************************)
EXTENDS Naturals, FiniteSets, SequencesExt

CONSTANTS
    Requests,   \* requests in flight at one time
    Passwords,  \* that clients try and set
    MaxTokens,  \* bound on the tokens generated
    MaxAuthFaults   \* bound on failed statements and early expiries

ASSUME AuthAssumption == MaxTokens \in Nat /\ MaxAuthFaults \in Nat

VARIABLES
    auUser,     \* the row of users, or NoUser
    auKeys,     \* tokens with a refresh_token key
    auBlack,    \* tokens with a blacklist_token key
    auSet,      \* members of the account's user_tokens set
    auMade,     \* tokens generated so far are 1 .. auMade
    auReq,      \* what each request does next, with its copies
    auGiven,    \* history: tokens returned to a client
    auSpent,    \* history: tokens some request set out to invalidate, or that expired
    auOut,      \* history: tokens whose invalidation returned nil
    auFaults

auVars == <<auUser, auKeys, auBlack, auSet, auMade, auReq, auGiven, auSpent, auOut, auFaults>>
auHistory == <<auGiven, auSpent, auOut>>
auRedis == <<auKeys, auBlack, auSet>>

Tokens == 1 .. MaxTokens
NoUser == [exists |-> FALSE]
Users == [exists : {TRUE}, pw : Passwords, name : {"first", "updated"}]
IdleRequest == [op |-> "none", at |-> "idle", user |-> NoUser, pw |-> CHOOSE p \in Passwords : TRUE,
                token |-> 0, new |-> 0]
AuthPlaces == {"idle", "find", "write", "set", "sadd", "expire", "touch", "check black", "check key",
           "known", "black", "del", "srem"}

AuTypeOK ==
    /\ auUser \in Users \cup {NoUser}
    /\ auKeys \cup auBlack \cup auSet \cup auGiven \cup auSpent \cup auOut \subseteq 1 .. auMade
    /\ auMade \in 0 .. MaxTokens /\ auFaults \in 0 .. MaxAuthFaults
    /\ \A r \in Requests : auReq[r].at \in AuthPlaces /\ auReq[r].user \in Users \cup {NoUser}

AuInit ==
    /\ auUser = NoUser /\ auKeys = {} /\ auBlack = {} /\ auSet = {} /\ auMade = 0
    /\ auReq = [r \in Requests |-> IdleRequest]
    /\ auGiven = {} /\ auSpent = {} /\ auOut = {} /\ auFaults = 0

AuFault == auFaults < MaxAuthFaults /\ auFaults' = auFaults + 1
AuWell == UNCHANGED auFaults
Step(r, at) == auReq' = [auReq EXCEPT ![r].at = at]
Answer(r) == auReq' = [auReq EXCEPT ![r] = IdleRequest]
\* An error that the code returns at once ends the request.
ErrorEnds(r) == AuFault /\ Answer(r)

----------------------------------------------------------------------------
\* The handlers parse and check the body, and call the service; a body they refuse changes nothing.

Accept(r, op, first, pw, token) ==
    /\ auReq[r].at = "idle"
    /\ auReq' = [auReq EXCEPT ![r] = [IdleRequest EXCEPT !.op = op, !.at = first, !.pw = pw, !.token = token]]
    /\ UNCHANGED <<auUser, auRedis, auMade, auGiven, auOut, auFaults>>

AcceptRegister(r) == \E p \in Passwords : Accept(r, "register", "find", p, 0) /\ UNCHANGED auSpent
AcceptLogin(r) == \E p \in Passwords : Accept(r, "login", "find", p, 0) /\ UNCHANGED auSpent
AcceptUpdateMe(r) == Accept(r, "profile", "find", IdleRequest.pw, 0) /\ UNCHANGED auSpent
AcceptChangePassword(r) == \E p \in Passwords : Accept(r, "password", "find", p, 0) /\ UNCHANGED auSpent
AcceptRefresh(r) == \E t \in auGiven : Accept(r, "refresh", "check black", IdleRequest.pw, t) /\ UNCHANGED auSpent
AcceptLogout(r) ==
    \E t \in auGiven : Accept(r, "logout", "known", IdleRequest.pw, t) /\ auSpent' = auSpent \cup {t}

\* FindByEmail or FindByID, and the checks made on what was read.  Register takes every
\* error for an account that does not exist.  A password is changed to another one.
AuthFindUser(r) ==
    LET q == auReq[r]
        proceed(at) == auReq' = [auReq EXCEPT ![r].at = at, ![r].user = auUser]
        passes == IF q.op = "register" THEN auUser = NoUser
                  ELSE auUser # NoUser /\ (q.op \in {"login", "password"} => auUser.pw = q.pw)
    IN  /\ q.at = "find"
        /\ \/ /\ passes /\ AuWell
              /\ \/ q.op \in {"register", "profile", "password"} /\ proceed("write") /\ UNCHANGED auMade
                 \/ /\ q.op \in {"login", "refresh"} /\ auMade < MaxTokens
                    /\ auMade' = auMade + 1
                    /\ auReq' = [auReq EXCEPT ![r].at = "set", ![r].user = auUser, ![r].new = auMade + 1]
           \/ ~passes /\ AuWell /\ Answer(r) /\ UNCHANGED auMade
           \/ q.op = "register" /\ AuFault /\ proceed("write") /\ UNCHANGED auMade
           \/ q.op # "register" /\ ErrorEnds(r) /\ UNCHANGED auMade
        /\ UNCHANGED <<auUser, auRedis, auHistory>>

\* Create, which the unique index on the e-mail address may refuse.
AuthCreateUser(r) ==
    /\ auReq[r].at = "write" /\ auReq[r].op = "register" /\ Answer(r)
    /\ \/ auUser = NoUser /\ AuWell /\ auUser' = [exists |-> TRUE, pw |-> auReq[r].pw, name |-> "first"]
       \/ auUser # NoUser /\ AuWell /\ UNCHANGED auUser
       \/ AuFault /\ UNCHANGED auUser
    /\ UNCHANGED <<auRedis, auMade, auHistory>>

\* UpdateUserProfile and ChangePassword write back the whole row as they read it.
AuthUpdateUser(r) ==
    /\ auReq[r].at = "write" /\ auReq[r].op \in {"profile", "password"} /\ Answer(r)
    /\ \/ /\ auReq[r].op = "profile" /\ AuWell
          /\ auUser' = [auReq[r].user EXCEPT !.name = "updated"]
       \/ /\ auReq[r].op = "password" /\ AuWell
          /\ \E p \in Passwords : auUser' = [auReq[r].user EXCEPT !.pw = p]
       \/ AuFault /\ UNCHANGED auUser
    /\ UNCHANGED <<auRedis, auMade, auHistory>>

\* StoreRefreshToken: the key, the set, and the set's time to live, whose error is ignored.
StoreRefreshToken(r) ==
    LET new == auReq[r].new
        next == IF auReq[r].op = "login" THEN "touch" ELSE "known"
    IN  /\ \/ /\ auReq[r].at = "set" /\ UNCHANGED auSet
              /\ \/ auKeys' = auKeys \cup {new} /\ Step(r, "sadd") /\ AuWell
                 \/ UNCHANGED auKeys /\ ErrorEnds(r)
           \/ /\ auReq[r].at = "sadd" /\ UNCHANGED auKeys
              /\ \/ auSet' = auSet \cup {new} /\ Step(r, "expire") /\ AuWell
                 \/ UNCHANGED auSet /\ ErrorEnds(r)
           \/ /\ auReq[r].at = "expire" /\ UNCHANGED <<auKeys, auSet>>
              /\ Step(r, next) /\ AuWell
        /\ auSpent' = IF auReq[r].at = "expire" /\ next = "known" THEN auSpent \cup {auReq[r].token} ELSE auSpent
        /\ UNCHANGED <<auUser, auBlack, auMade, auGiven, auOut>>

\* Login's last statement stores the login time, and with it the whole row as it was read;
\* its error is only logged.
TouchLastLogin(r) ==
    /\ auReq[r].at = "touch" /\ Answer(r)
    /\ auGiven' = auGiven \cup {auReq[r].new}
    /\ \/ auUser' = auReq[r].user /\ AuWell
       \/ UNCHANGED auUser /\ AuFault
    /\ UNCHANGED <<auRedis, auMade, auSpent, auOut>>

\* ValidateRefreshToken.  Any error of the first read counts as "not on the blacklist".
ValidateRefreshToken(r) ==
    LET t == auReq[r].token
    IN  /\ \/ /\ auReq[r].at = "check black"
              /\ \/ t \notin auBlack /\ Step(r, "check key") /\ AuWell
                 \/ t \in auBlack /\ Answer(r) /\ AuWell
                 \/ t \in auBlack /\ Step(r, "check key") /\ AuFault
           \/ /\ auReq[r].at = "check key"
              /\ \/ t \in auKeys /\ Step(r, "find") /\ AuWell
                 \/ t \notin auKeys /\ Answer(r) /\ AuWell
                 \/ ErrorEnds(r)
        /\ UNCHANGED <<auUser, auRedis, auMade, auHistory>>

\* InvalidateRefreshToken.  After a refresh its error is ignored and the new token returned.
InvalidateRefreshToken(r) ==
    LET t == auReq[r].token
        done == /\ Answer(r)
                /\ auGiven' = IF auReq[r].op = "refresh" THEN auGiven \cup {auReq[r].new} ELSE auGiven
        fails == AuFault /\ done /\ UNCHANGED auOut
    IN  /\ \/ /\ auReq[r].at = "known" /\ UNCHANGED auRedis
              /\ \/ Step(r, "black") /\ AuWell /\ UNCHANGED <<auGiven, auOut>>
                 \/ fails
           \/ /\ auReq[r].at = "black" /\ UNCHANGED <<auKeys, auSet, auGiven, auOut>>
              /\ Step(r, "del")
              /\ \/ auBlack' = auBlack \cup {t} /\ AuWell
                 \/ UNCHANGED auBlack /\ AuFault
           \/ /\ auReq[r].at = "del" /\ UNCHANGED <<auBlack, auSet>>
              /\ \/ auKeys' = auKeys \ {t} /\ Step(r, "srem") /\ AuWell /\ UNCHANGED <<auGiven, auOut>>
                 \/ UNCHANGED auKeys /\ fails
           \/ /\ auReq[r].at = "srem" /\ UNCHANGED <<auKeys, auBlack>>
              /\ done /\ auOut' = auOut \cup {t}
              /\ \/ auSet' = auSet \ {t} /\ AuWell
                 \/ UNCHANGED auSet /\ AuFault
        /\ UNCHANGED <<auUser, auMade, auSpent>>

\* A token's key reaches its time to live.  The blacklist entry is younger and lives as long.
TokenExpires ==
    /\ AuFault
    /\ \E t \in auKeys : auKeys' = auKeys \ {t} /\ auSpent' = auSpent \cup {t}
    /\ UNCHANGED <<auUser, auBlack, auSet, auMade, auReq, auGiven, auOut>>

AuNext ==
    \/ \E r \in Requests :
          \/ AcceptRegister(r) \/ AcceptLogin(r) \/ AcceptUpdateMe(r) \/ AcceptChangePassword(r)
          \/ AcceptRefresh(r) \/ AcceptLogout(r)
          \/ AuthFindUser(r) \/ AuthCreateUser(r) \/ AuthUpdateUser(r) \/ StoreRefreshToken(r) \/ TouchLastLogin(r)
          \/ ValidateRefreshToken(r) \/ InvalidateRefreshToken(r)
    \/ TokenExpires

AuSpec == AuInit /\ [][AuNext]_auVars

----------------------------------------------------------------------------

Valid(t) == t \in auKeys /\ t \notin auBlack
\* Whatever else is in flight, a token whose invalidation returned nil never has its key again:
\* neither a refresh that had passed its checks nor a failed blacklist write brings it back.
LogoutIsFinal == auOut \cap auKeys = {}
\* A token a client was given stays good until it expires or a request sets out to invalidate it.
GivenIsGood == \A t \in auGiven : t \in auSpent \/ Valid(t)
\* ... and while it is good, the account's token set knows it, which is where a revocation of
\* all tokens would look.
GivenIsListed == \A t \in auGiven : Valid(t) => t \in auSet
\* A token is only given out for an account that exists.
GivenHasAccount == auGiven # {} => auUser # NoUser

\* The refresh tokens are sound whatever order the statements of concurrent requests take.
AuthSafety == LogoutIsFinal /\ GivenIsGood /\ GivenIsListed /\ GivenHasAccount

----------------------------------------------------------------------------
(***************************************************************************)
(* The auth service's WebSocket hub: who is connected, who is viewing which  *)
(* table, and the messages sent to them.  Run is one goroutine; every client *)
(* has a goroutine that reads and one that writes; HTTP handlers broadcast.  *)
(* The maps are guarded by one read-write lock, which leave_table does not   *)
(* take.  A send on a closed channel, and a second close, are panics: in an  *)
(* HTTP handler they are recovered, anywhere else they end the process.  What *)
(* goes on while the hub is stuck, holding the lock for ever, is left out.   *)
(***************************************************************************)

CONSTANTS
    Clients,    \* connections, each made once
    UserOf,     \* [Clients -> users]
    Tables,
    Posters,    \* HTTP handlers that broadcast
    SendCap,    \* capacity of a client's send channel (256)
    QueueCap,   \* capacity of the hub's broadcast channel (256)
    MaxViews    \* bound on the length of a table's list

ASSUME HubAssumption == SendCap \in Nat \ {0} /\ QueueCap \in Nat /\ MaxViews \in Nat

VARIABLES
    phConn,     \* each connection's reading goroutine
    phMap,      \* Hub.clients
    phUsers,    \* Hub.userPresence
    phTables,   \* Hub.tablePresence
    phTable,    \* Client.TableID
    phOpen,     \* clients whose send channel is not closed
    phBuffer,   \* messages in each send channel
    phQueue,    \* messages in the broadcast channel
    phTodo,     \* clients each broadcaster has still to send to, holding the read lock
    phCopy,     \* the list a leave_table has read
    phState,    \* "up", "stuck" or "crashed"
    phLost      \* history: a leave_table wrote over somebody's change

phVars == <<phConn, phMap, phUsers, phTables, phTable, phOpen, phBuffer, phQueue, phTodo, phCopy, phState, phLost>>
phPresence == <<phUsers, phTables, phTable>>

NoTable == "no table"
Hub == "hub"
Up == phState = "up"
Broadcasters == Posters \cup {Hub}
\* The write lock is free when no broadcaster holds the read lock.
WriteLock == Up /\ \A b \in Broadcasters : phTodo[b] = <<>>
\* The hub's goroutine is at its select.
HubReady == Up /\ phTodo[Hub] = <<>>
Without(list, c) == IF Contains(list, c) THEN RemoveFirst(list, c) ELSE list

PhTypeOK ==
    /\ phConn \in [Clients -> {"out", "joining", "reading", "answering", "left table", "leaving", "gone"}]
    /\ phMap \subseteq Clients /\ phOpen \subseteq Clients
    /\ phTable \in [Clients -> Tables \cup {NoTable}]
    /\ \A t \in Tables : ToSet(phTables[t]) \subseteq Clients
    /\ phBuffer \in [Clients -> 0 .. SendCap] /\ phQueue \in 0 .. QueueCap
    /\ phState \in {"up", "stuck", "crashed"} /\ phLost \in BOOLEAN

PhInit ==
    /\ phConn = [c \in Clients |-> "out"] /\ phMap = {} /\ phOpen = Clients
    /\ phUsers = [u \in {UserOf[c] : c \in Clients} |-> <<>>]
    /\ phTables = [t \in Tables |-> <<>>] /\ phTable = [c \in Clients |-> NoTable]
    /\ phBuffer = [c \in Clients |-> 0] /\ phQueue = 0
    /\ phTodo = [b \in Broadcasters |-> <<>>] /\ phCopy = [c \in Clients |-> <<>>]
    /\ phState = "up" /\ phLost = FALSE

At(c, place) == phConn' = [phConn EXCEPT ![c] = place]
\* broadcastUserEvent without a table: to everybody, unless the broadcast channel is full.
QueueForAll == phQueue' = IF phQueue < QueueCap THEN phQueue + 1 ELSE phQueue

----------------------------------------------------------------------------
\* The hub's goroutine.

\* ServeWS hands the client to the hub, whose channel holds nothing.
ServeWS(c) ==
    /\ Up /\ phConn[c] = "out" /\ At(c, "joining")
    /\ UNCHANGED <<phMap, phPresence, phOpen, phBuffer, phQueue, phTodo, phCopy, phState, phLost>>

RegisterClient(c) ==
    /\ HubReady /\ WriteLock /\ phConn[c] = "joining" /\ At(c, "reading")
    /\ phMap' = phMap \cup {c}
    /\ phUsers' = [phUsers EXCEPT ![UserOf[c]] = Append(@, c)]
    /\ QueueForAll
    /\ UNCHANGED <<phTables, phTable, phOpen, phBuffer, phTodo, phCopy, phState, phLost>>

\* unregisterClient does nothing for a client that a broadcast has already removed.  For one
\* that is viewing a table it then calls BroadcastToTable, which waits for the lock it holds.
UnregisterClient(c) ==
    /\ HubReady /\ WriteLock /\ phConn[c] = "leaving" /\ At(c, "gone")
    /\ IF c \in phMap
       THEN /\ phMap' = phMap \ {c} /\ phOpen' = phOpen \ {c}
            /\ phUsers' = [phUsers EXCEPT ![UserOf[c]] = Without(@, c)]
            /\ IF phTable[c] = NoTable
               THEN QueueForAll /\ UNCHANGED <<phTables, phState>>
               ELSE /\ phTables' = [phTables EXCEPT ![phTable[c]] = Without(@, c)]
                    /\ phState' = "stuck" /\ UNCHANGED phQueue
       ELSE UNCHANGED <<phMap, phOpen, phUsers, phTables, phQueue, phState>>
    /\ UNCHANGED <<phTable, phBuffer, phTodo, phCopy, phLost>>

\* broadcastMessage: the map's order is any order.
BroadcastMessage ==
    /\ HubReady /\ phQueue > 0 /\ phQueue' = phQueue - 1
    /\ \E order \in SetToSeqs(phMap) : phTodo' = [phTodo EXCEPT ![Hub] = order]
    /\ UNCHANGED <<phConn, phMap, phPresence, phOpen, phBuffer, phCopy, phState, phLost>>

----------------------------------------------------------------------------
\* The HTTP handlers, and one send of any broadcast.

PostMessage(p) ==
    /\ Up /\ phTodo[p] = <<>>
    /\ \/ /\ phQueue < QueueCap /\ phQueue' = phQueue + 1 /\ UNCHANGED phTodo
       \/ /\ \E list \in {phTables[t] : t \in Tables} \cup {phUsers[u] : u \in DOMAIN phUsers} :
                list # <<>> /\ phTodo' = [phTodo EXCEPT ![p] = list]
          /\ UNCHANGED phQueue
    /\ UNCHANGED <<phConn, phMap, phPresence, phOpen, phBuffer, phCopy, phState, phLost>>

\* A client whose channel is full is closed and removed from the clients, not from the presence
\* lists; a closed channel panics, which ends the handler or the process.
BroadcastTo(b) ==
    LET c == Head(phTodo[b])
    IN  /\ Up /\ phTodo[b] # <<>>
        /\ \/ /\ c \in phOpen /\ phBuffer[c] < SendCap
              /\ phBuffer' = [phBuffer EXCEPT ![c] = @ + 1]
              /\ phTodo' = [phTodo EXCEPT ![b] = Tail(@)]
              /\ UNCHANGED <<phMap, phOpen, phState>>
           \/ /\ c \in phOpen /\ phBuffer[c] = SendCap
              /\ phOpen' = phOpen \ {c} /\ phMap' = phMap \ {c}
              /\ phTodo' = [phTodo EXCEPT ![b] = Tail(@)]
              /\ UNCHANGED <<phBuffer, phState>>
           \/ /\ c \notin phOpen
              /\ phTodo' = [phTodo EXCEPT ![b] = <<>>]
              /\ phState' = IF b = Hub THEN "crashed" ELSE phState
              /\ UNCHANGED <<phMap, phOpen, phBuffer>>
        /\ UNCHANGED <<phConn, phPresence, phQueue, phCopy, phLost>>

----------------------------------------------------------------------------
\* The client's goroutines.

\* handleMessage, join_table: AddClientToTable appends even a client that is there already.
JoinTable(c, t) ==
    LET from == phTable[c]
        left == IF from \in Tables \ {t} THEN [phTables EXCEPT ![from] = Without(@, c)] ELSE phTables
    IN  /\ WriteLock /\ phConn[c] = "reading" /\ Len(phTables[t]) < MaxViews
        /\ phTables' = [left EXCEPT ![t] = Append(@, c)]
        /\ phTable' = [phTable EXCEPT ![c] = t]
        /\ At(c, "answering")
        /\ UNCHANGED <<phMap, phUsers, phOpen, phBuffer, phQueue, phTodo, phCopy, phState, phLost>>

\* sendPresenceUpdate and pong: sendMessage drops the answer when the channel is full.
AnswerClient(c) ==
    /\ Up /\ phConn[c] \in {"reading", "answering"}
    /\ IF c \notin phOpen
       THEN phState' = "crashed" /\ UNCHANGED <<phConn, phBuffer>>
       ELSE /\ At(c, "reading") /\ UNCHANGED phState
            /\ phBuffer' = [phBuffer EXCEPT ![c] = IF @ < SendCap THEN @ + 1 ELSE @]
    /\ UNCHANGED <<phMap, phPresence, phOpen, phQueue, phTodo, phCopy, phLost>>

\* leave_table: removeClientFromTable without the lock: the list is read ...
LeaveTable(c) ==
    /\ Up /\ phConn[c] = "reading" /\ phTable[c] # NoTable
    /\ phCopy' = [phCopy EXCEPT ![c] = phTables[phTable[c]]] /\ At(c, "left table")
    /\ UNCHANGED <<phMap, phPresence, phOpen, phBuffer, phQueue, phTodo, phState, phLost>>

\* ... and written back without the client, over whatever happened to it meanwhile.
WriteTable(c) ==
    LET t == phTable[c]
    IN  /\ Up /\ phConn[c] = "left table" /\ At(c, "reading")
        /\ phTables' = [phTables EXCEPT ![t] = Without(phCopy[c], c)]
        /\ phTable' = [phTable EXCEPT ![c] = NoTable]
        /\ phLost' = (phLost \/ phTables[t] # phCopy[c])
        /\ phCopy' = [phCopy EXCEPT ![c] = <<>>]
        /\ UNCHANGED <<phMap, phUsers, phOpen, phBuffer, phQueue, phTodo, phState>>

\* writePump sends everything that is queued.
WritePump(c) ==
    /\ Up /\ phBuffer[c] > 0 /\ phBuffer' = [phBuffer EXCEPT ![c] = 0]
    /\ UNCHANGED <<phConn, phMap, phPresence, phOpen, phQueue, phTodo, phCopy, phState, phLost>>

\* readPump ends: the connection is gone, or writePump has closed it.
ReadPump(c) ==
    /\ Up /\ phConn[c] = "reading" /\ At(c, "leaving")
    /\ UNCHANGED <<phMap, phPresence, phOpen, phBuffer, phQueue, phTodo, phCopy, phState, phLost>>

PhNext ==
    \/ \E c \in Clients :
          \/ ServeWS(c) \/ RegisterClient(c) \/ UnregisterClient(c) \/ AnswerClient(c)
          \/ LeaveTable(c) \/ WriteTable(c) \/ WritePump(c) \/ ReadPump(c)
          \/ \E t \in Tables : JoinTable(c, t)
    \/ BroadcastMessage
    \/ \E p \in Posters : PostMessage(p)
    \/ \E b \in Broadcasters : BroadcastTo(b)

PhSpec == PhInit /\ [][PhNext]_phVars

----------------------------------------------------------------------------

\* A client the hub counts as connected has a channel that takes messages: what closes the
\* channel also removes the client, whichever of the three places does it.
RegisteredIsOpen == phMap \subseteq phOpen
\* ... and is found under its user, so that a message to the user reaches it.
RegisteredIsListed == \A c \in phMap : Contains(phUsers[UserOf[c]], c)
\* A connected client that views a table is on the table's list, as long as no leave_table has
\* written over another goroutine's change.
ViewerIsListed ==
    ~phLost => \A c \in phMap : phTable[c] # NoTable => Contains(phTables[phTable[c]], c)
\* A client whose goroutine has left is nobody's correspondent: once it is gone it is not counted.
GoneIsForgotten == \A c \in Clients : phConn[c] \in {"out", "joining", "gone"} => c \notin phMap

\* The hub's three maps agree with each other and with the channels.
HubSafety == RegisteredIsOpen /\ RegisteredIsListed /\ ViewerIsListed /\ GoneIsForgotten
=============================================================================
