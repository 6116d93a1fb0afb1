---------------------------- MODULE ServicesProofs ----------------------------
(***************************************************************************)
(* Proofs about the services, for any number of requests, clients, rows and  *)
(* instances: the refresh tokens and the hub of AuthSessions, Permissions     *)
(* with its client, Plugins, the limits of the gateway and the four parts of  *)
(* GraphqlGateway; from them and from the invariants of ServicePartsProofs,   *)
(* AccessHolds, CopiesHold and DeliveriesHold of MCServices.                  *)
(***************************************************************************)
EXTENDS MCServices, ServicePartsProofs, FiniteSetTheorems, TLAPS

(***************************************************************************)
(* The auth service's tokens.                                              *)
(***************************************************************************)
RequestType == [op : {"none", "register", "login", "profile", "password", "refresh", "logout"},
                at : AuthPlaces, user : Users \cup {NoUser},
                pw : Passwords \cup {IdleRequest.pw}, token : Nat, new : Nat]

\* A request that has generated a token no client has seen yet.
HasNew(r) ==
    \/ auReq[r].at \in {"set", "sadd", "expire", "touch"}
    \/ auReq[r].op = "refresh" /\ auReq[r].at \in {"known", "black", "del", "srem"}

\* A request that is to invalidate the token it came with.
Invalidates(r) == auReq[r].at \in {"known", "black", "del", "srem"}

\* Which operation goes through which place.
PlaceOK(r) ==
    /\ auReq[r].at = "find" => auReq[r].op \in {"register", "login", "profile", "password", "refresh"}
    /\ auReq[r].at = "write" => auReq[r].op \in {"register", "profile", "password"}
    /\ auReq[r].at \in {"set", "sadd", "expire"} => auReq[r].op \in {"login", "refresh"}
    /\ auReq[r].at = "touch" => auReq[r].op = "login"
    /\ auReq[r].at \in {"check black", "check key"} => auReq[r].op = "refresh"
    /\ Invalidates(r) => auReq[r].op \in {"refresh", "logout"}
    /\ auReq[r].op = "register" => auReq[r].pw \in Passwords

\* The token a request came with was given to a client; from "known" on it counts as spent,
\* and once its key is deleted nothing stores it again.  The token a request has generated was
\* given to nobody, and is stored and listed on the way.
TokenOK(r) ==
    /\ auReq[r].op \in {"refresh", "logout"} => auReq[r].token \in auGiven
    /\ Invalidates(r) => auReq[r].token \in auSpent
    /\ auReq[r].at = "srem" => auReq[r].token \notin auKeys
    /\ HasNew(r) => /\ auReq[r].new \in 1 .. auMade /\ auReq[r].new \notin auGiven
                    /\ auReq[r].at # "set" => auReq[r].new \in auKeys \cup auSpent
                    /\ auReq[r].at \notin {"set", "sadd"} => auReq[r].new \in auSet

\* A row that was read is still there, for no row is ever deleted.
AccountOK(r) ==
    /\ HasNew(r) \/ (auReq[r].op \in {"profile", "password"} /\ auReq[r].at = "write") =>
          auReq[r].user # NoUser
    /\ auReq[r].user # NoUser => auUser # NoUser

RequestOK(r) == PlaceOK(r) /\ TokenOK(r) /\ AccountOK(r)

\* No two requests have generated the same token.
NewApart == \A r, s \in Requests : HasNew(r) /\ HasNew(s) /\ r # s => auReq[r].new # auReq[s].new

SetsOK == auOut \subseteq auGiven /\ auBlack \subseteq auSpent /\ auGiven \subseteq auKeys \cup auSpent

AuTypes == AuTypeOK /\ auReq \in [Requests -> RequestType]

AuIInv ==
    /\ AuTypes
    /\ \A r \in Requests : RequestOK(r)
    /\ NewApart /\ SetsOK
    /\ LogoutIsFinal /\ GivenIsListed /\ GivenHasAccount

\* Copies of the row are rows.
LEMMA RowsAreUsers ==
    /\ NoUser \notin Users
    /\ \A u \in Users : u.exists = TRUE /\ u.pw \in Passwords
    /\ \A u \in Users : [u EXCEPT !.name = "updated"] \in Users
    /\ \A u \in Users, p \in Passwords : [u EXCEPT !.pw = p] \in Users
    /\ \A p \in Passwords : [exists |-> TRUE, pw |-> p, name |-> "first"] \in Users
<1>1. NoUser \notin Users
  <2>1. NoUser.exists = FALSE
    BY DEF NoUser
  <2>2. \A u \in Users : u.exists = TRUE
    BY DEF Users
  <2> QED BY <2>1, <2>2
<1>2. \A u \in Users : u.exists = TRUE /\ u.pw \in Passwords
  BY DEF Users
<1>3. \A u \in Users : [u EXCEPT !.name = "updated"] \in Users
  BY DEF Users
<1>4. \A u \in Users, p \in Passwords : [u EXCEPT !.pw = p] \in Users
  BY DEF Users
<1>5. \A p \in Passwords : [exists |-> TRUE, pw |-> p, name |-> "first"] \in Users
  BY DEF Users
<1> QED BY <1>1, <1>2, <1>3, <1>4, <1>5

\* The record of an idle request: no user, no token of its own.
LEMMA IdleFields ==
    /\ IdleRequest.op = "none" /\ IdleRequest.at = "idle" /\ IdleRequest.user = NoUser
    /\ IdleRequest.token = 0 /\ IdleRequest.new = 0
    /\ IdleRequest \in RequestType
BY DEF IdleRequest, RequestType, AuthPlaces

\* What a request's step does to its record, and that it does nothing to the others'.
LEMMA StepFields ==
    ASSUME auReq \in [Requests -> RequestType], NEW r \in Requests,
           NEW at \in AuthPlaces, Step(r, at)
    PROVE  /\ auReq' \in [Requests -> RequestType]
           /\ auReq'[r].at = at /\ auReq'[r].op = auReq[r].op /\ auReq'[r].user = auReq[r].user
           /\ auReq'[r].pw = auReq[r].pw /\ auReq'[r].token = auReq[r].token /\ auReq'[r].new = auReq[r].new
           /\ \A s \in Requests \ {r} : auReq'[s] = auReq[s]
BY DEF Step, RequestType

\* An answer makes the request idle and touches no other's record.
LEMMA AnswerFields ==
    ASSUME auReq \in [Requests -> RequestType], NEW r \in Requests, Answer(r)
    PROVE  /\ auReq' \in [Requests -> RequestType]
           /\ auReq'[r] = IdleRequest
           /\ \A s \in Requests \ {r} : auReq'[s] = auReq[s]
BY IdleFields DEF Answer

\* What the gateway hands over is the record of a new request; the others' stay.
LEMMA AcceptFields ==
    ASSUME auReq \in [Requests -> RequestType], NEW r \in Requests, NEW op, NEW first, NEW pw, NEW token,
           op \in {"register", "login", "profile", "password", "refresh", "logout"},
           first \in AuthPlaces, pw \in Passwords \cup {IdleRequest.pw}, token \in Nat,
           Accept(r, op, first, pw, token)
    PROVE  /\ auReq' \in [Requests -> RequestType]
           /\ auReq'[r].at = first /\ auReq'[r].op = op /\ auReq'[r].user = NoUser
           /\ auReq'[r].pw = pw /\ auReq'[r].token = token /\ auReq'[r].new = 0
           /\ \A s \in Requests \ {r} : auReq'[s] = auReq[s]
<1>1. auReq' = [auReq EXCEPT ![r] = [IdleRequest EXCEPT !.op = op, !.at = first, !.pw = pw, !.token = token]]
  BY DEF Accept
<1> DEFINE q == [IdleRequest EXCEPT !.op = op, !.at = first, !.pw = pw, !.token = token]
<1>2. /\ q \in RequestType /\ q.at = first /\ q.op = op /\ q.user = NoUser
      /\ q.pw = pw /\ q.token = token /\ q.new = 0
  BY IdleFields DEF RequestType
<1> HIDE DEF q
<1>3. auReq' = [auReq EXCEPT ![r] = q]
  BY <1>1 DEF q
<1> QED BY <1>2, <1>3

\* Without requests, tokens and rows the auth service is in order.
LEMMA AuInitially == AuInit => AuIInv
<1> SUFFICES ASSUME AuInit PROVE AuIInv
  OBVIOUS
<1>1. AuTypes
  BY IdleFields, AuthAssumption DEF AuInit, AuTypes, AuTypeOK, RequestType
<1>2. \A r \in Requests : auReq[r] = IdleRequest
  BY DEF AuInit
<1>3. \A r \in Requests : ~HasNew(r) /\ RequestOK(r)
  BY <1>2, IdleFields DEF HasNew, RequestOK, PlaceOK, TokenOK, AccountOK, Invalidates
<1> QED BY <1>1, <1>3 DEF AuInit, AuIInv, NewApart, SetsOK, LogoutIsFinal, GivenIsListed, GivenHasAccount

\* Another request's step leaves a request in order if it keeps what the request relies on.
LEMMA OthersKept ==
    ASSUME AuTypes, NEW s \in Requests, RequestOK(s), auReq'[s] = auReq[s],
           auMade \in Nat, auMade' \in Nat, auMade <= auMade',
           auGiven \subseteq auGiven', auSpent \subseteq auSpent',
           auKeys \cup auSpent \subseteq auKeys' \cup auSpent',
           HasNew(s) => auReq[s].new \notin auGiven' \ auGiven,
           HasNew(s) /\ auReq[s].new \in auSet => auReq[s].new \in auSet',
           auReq[s].at = "srem" => auReq[s].token \notin auKeys' \ auKeys,
           auUser # NoUser => auUser' # NoUser
    PROVE  RequestOK(s)' /\ (HasNew(s)' <=> HasNew(s))
<1>1. PlaceOK(s)'
  BY DEF RequestOK, PlaceOK, Invalidates
<1>2. /\ HasNew(s)' <=> HasNew(s)
      /\ Invalidates(s)' <=> Invalidates(s)
  BY DEF HasNew, Invalidates
<1>3. AccountOK(s)'
  BY <1>2 DEF RequestOK, AccountOK
<1>4. \A n \in 1 .. auMade : n \in 1 .. auMade'
  OBVIOUS
<1>5. TokenOK(s)'
  BY <1>2, <1>4 DEF RequestOK, TokenOK
<1> QED BY <1>1, <1>2, <1>3, <1>5 DEF RequestOK

\* What a request may do to the shared state: store its new token, give it out once it is
\* stored and listed, and drop the one it came with, in this order.
Effects(r) ==
    /\ auMade' \in {auMade, auMade + 1}
    /\ \/ auGiven' = auGiven
       \/ /\ HasNew(r) /\ auReq[r].at \notin {"set", "sadd"}
          /\ auGiven' = auGiven \cup {auReq[r].new}
    /\ auSpent \subseteq auSpent'
    /\ \/ auKeys' = auKeys
       \/ HasNew(r) /\ auKeys' = auKeys \cup {auReq[r].new}
       \/ auReq[r].at = "del" /\ auKeys' = auKeys \ {auReq[r].token}
    /\ \/ auSet' = auSet
       \/ HasNew(r) /\ auSet' = auSet \cup {auReq[r].new}
       \/ auReq[r].at = "srem" /\ auKeys' = auKeys /\ auSet' = auSet \ {auReq[r].token}
    /\ \/ auBlack' = auBlack
       \/ Invalidates(r) /\ auBlack' = auBlack \cup {auReq[r].token}
    /\ \/ auOut' = auOut
       \/ /\ auReq[r].at = "srem" /\ auKeys' = auKeys
          /\ auOut' = auOut \cup {auReq[r].token}
    /\ auUser # NoUser => auUser' # NoUser

\* A step of a request with these effects preserves the invariant.
LEMMA RequestMoves ==
    ASSUME AuIInv, NEW r \in Requests, Effects(r), AuTypes',
           \A s \in Requests \ {r} : auReq'[s] = auReq[s],
           RequestOK(r)',
           HasNew(r)' => \/ HasNew(r) /\ auReq'[r].new = auReq[r].new
                         \/ auReq'[r].new = auMade + 1
    PROVE  AuIInv'
<1> USE DEF AuIInv
<1>1. /\ auMade \in Nat /\ auMade' \in Nat /\ auMade <= auMade'
      /\ auGiven \subseteq auGiven'
  BY AuthAssumption DEF Effects, AuTypes, AuTypeOK
<1>2. /\ HasNew(r) => /\ auReq[r].new \in 1 .. auMade /\ auReq[r].new \notin auGiven
                      /\ auReq[r].at # "set" => auReq[r].new \in auKeys \cup auSpent
                      /\ auReq[r].at \notin {"set", "sadd"} => auReq[r].new \in auSet
      /\ HasNew(r) => auUser # NoUser
      /\ Invalidates(r) => auReq[r].token \in auGiven /\ auReq[r].token \in auSpent
      /\ auReq[r].at = "srem" => auReq[r].token \notin auKeys
      /\ auReq[r].at \in {"srem", "del"} => Invalidates(r)
  <2>1. PlaceOK(r) /\ TokenOK(r) /\ AccountOK(r)
    BY DEF RequestOK
  <2>2. Invalidates(r) => auReq[r].op \in {"refresh", "logout"}
    BY <2>1 DEF PlaceOK
  <2>3. auReq[r].at \in {"srem", "del"} => Invalidates(r)
    BY DEF Invalidates
  <2> QED BY <2>1, <2>2, <2>3 DEF TokenOK, AccountOK
<1>3. auKeys \cup auSpent \subseteq auKeys' \cup auSpent'
  BY <1>2 DEF Effects
<1>4. ASSUME NEW s \in Requests \ {r}
      PROVE  RequestOK(s)' /\ (HasNew(s)' <=> HasNew(s)) /\ auReq'[s].new = auReq[s].new
  <2>1. HasNew(s) => auReq[s].new \notin auGiven /\ auReq[s].new \notin auGiven' \ auGiven
    BY DEF RequestOK, TokenOK, NewApart, Effects
  <2>2. HasNew(s) /\ auReq[s].new \in auSet => auReq[s].new \in auSet'
    BY <1>2, <2>1 DEF Effects
  <2>3. auReq[s].at = "srem" => auReq[s].token \notin auKeys' \ auKeys
    <3>1. auReq[s].at = "srem" => auReq[s].token \in auGiven
      BY DEF RequestOK, PlaceOK, TokenOK, Invalidates
    <3> QED BY <1>2, <3>1 DEF Effects
  <2>4. auUser # NoUser => auUser' # NoUser
    BY DEF Effects
  <2>5. RequestOK(s) /\ auSpent \subseteq auSpent' /\ auReq'[s] = auReq[s]
    BY DEF Effects
  <2> QED BY <1>1, <1>3, <2>1, <2>2, <2>3, <2>4, <2>5, OthersKept
<1>5. \A s \in Requests : RequestOK(s)'
  BY <1>4
<1>6. NewApart'
  <2>1. \A s \in Requests \ {r} : HasNew(s) => auReq[s].new <= auMade
    BY DEF RequestOK, TokenOK, AuTypes, RequestType
  <2>2. \A s \in Requests \ {r} : HasNew(s) /\ HasNew(r)' => auReq[s].new # auReq'[r].new
    BY <1>1, <2>1 DEF NewApart
  <2> QED BY <1>4, <2>2 DEF NewApart
<1>7. SetsOK'
  BY <1>2, <1>3 DEF SetsOK, Effects
<1>8. LogoutIsFinal'
  BY <1>2 DEF LogoutIsFinal, SetsOK, Effects
<1>9. GivenIsListed'
  <2>1. ASSUME NEW t \in auGiven, t \in auKeys', t \notin auBlack'
        PROVE  t \in auSet'
    <3>1. t \in auKeys /\ t \notin auBlack
      BY <1>2, <2>1 DEF Effects
    <3>2. t \in auSet
      BY <3>1 DEF GivenIsListed, Valid
    <3> QED BY <1>2, <3>1, <3>2 DEF Effects
  <2>2. \A t \in auGiven' : t \in auGiven \/ (t = auReq[r].new /\ t \in auSet')
    BY <1>2 DEF Effects
  <2> QED BY <2>1, <2>2 DEF GivenIsListed, Valid
<1>10. GivenHasAccount'
  BY <1>2 DEF GivenHasAccount, Effects
<1> QED BY <1>5, <1>6, <1>7, <1>8, <1>9, <1>10

\* The type invariant, from the parts a step may change.
LEMMA TypesKept ==
    ASSUME auReq' \in [Requests -> RequestType], auUser' \in Users \cup {NoUser},
           auMade' \in 0 .. MaxTokens, auFaults' \in 0 .. MaxAuthFaults,
           auKeys' \cup auBlack' \cup auSet' \cup auGiven' \cup auSpent' \cup auOut' \subseteq 1 .. auMade'
    PROVE  AuTypes'
BY DEF AuTypes, AuTypeOK, RequestType

\* Every token in sight has been generated.
LEMMA TokensMade ==
    ASSUME AuTypes
    PROVE  /\ auKeys \subseteq 1 .. auMade /\ auBlack \subseteq 1 .. auMade /\ auSet \subseteq 1 .. auMade
           /\ auGiven \subseteq 1 .. auMade /\ auSpent \subseteq 1 .. auMade /\ auOut \subseteq 1 .. auMade
           /\ auMade \in Nat /\ \A t \in 1 .. auMade : t \in Nat
<1>1. auMade \in Nat
  BY AuthAssumption DEF AuTypes, AuTypeOK
<1>2. auKeys \cup auBlack \cup auSet \cup auGiven \cup auSpent \cup auOut \subseteq 1 .. auMade
  BY DEF AuTypes, AuTypeOK
<1> QED BY <1>1, <1>2

\* A request is accepted with a token that a client was given, or with none; a logout counts its token as spent.
LEMMA AcceptMoves ==
    ASSUME AuIInv, NEW r \in Requests, NEW op, NEW first, NEW pw, NEW token,
           Accept(r, op, first, pw, token),
           \/ /\ op \in {"register", "login", "profile", "password"} /\ first = "find" /\ token = 0
              /\ pw \in Passwords \cup {IdleRequest.pw}
              /\ op = "register" => pw \in Passwords
              /\ auSpent' = auSpent
           \/ /\ op = "refresh" /\ first = "check black" /\ pw = IdleRequest.pw
              /\ token \in auGiven /\ auSpent' = auSpent
           \/ /\ op = "logout" /\ first = "known" /\ pw = IdleRequest.pw
              /\ token \in auGiven /\ auSpent' = auSpent \cup {token}
    PROVE  AuIInv'
<1> USE DEF AuIInv
<1>1. auReq \in [Requests -> RequestType] /\ AuTypeOK
  BY DEF AuTypes
<1>2. /\ op \in {"register", "login", "profile", "password", "refresh", "logout"}
      /\ first \in AuthPlaces /\ token \in Nat /\ pw \in Passwords \cup {IdleRequest.pw}
  <2>1. auGiven \subseteq 1 .. auMade /\ auMade \in Nat
    BY TokensMade
  <2>2. first \in {"find", "check black", "known"}
    OBVIOUS
  <2>3. first \in AuthPlaces
    BY <2>2 DEF AuthPlaces
  <2>4. token \in Nat
    <3>1. token = 0 \/ token \in auGiven
      OBVIOUS
    <3>2. \A t \in auGiven : t \in Nat
      BY TokensMade
    <3> QED BY ONLY <3>1, <3>2
  <2>5. pw \in Passwords \cup {IdleRequest.pw}
    OBVIOUS
  <2>6. op \in {"register", "login", "profile", "password", "refresh", "logout"}
    OBVIOUS
  <2> QED BY <2>3, <2>4, <2>5, <2>6
<1>3. /\ auReq' \in [Requests -> RequestType]
      /\ auReq'[r].at = first /\ auReq'[r].op = op /\ auReq'[r].user = NoUser
      /\ auReq'[r].pw = pw /\ auReq'[r].token = token /\ auReq'[r].new = 0
      /\ \A s \in Requests \ {r} : auReq'[s] = auReq[s]
  <2>1. Accept(r, op, first, pw, token)
    OBVIOUS
  <2> HIDE DEF AuIInv
  <2> QED BY ONLY <1>1, <1>2, <2>1, AcceptFields, r \in Requests
<1>4. UNCHANGED <<auUser, auKeys, auBlack, auSet, auMade, auGiven, auOut, auFaults>>
  BY DEF Accept, auRedis
<1>5. AuTypes'
  <2>1. auSpent' \subseteq 1 .. auMade
    <3>1. auSpent' = auSpent \/ (token \in auGiven /\ auSpent' = auSpent \cup {token})
      OBVIOUS
    <3>2. auSpent \subseteq 1 .. auMade /\ auGiven \subseteq 1 .. auMade
      BY TokensMade
    <3> QED BY ONLY <3>1, <3>2
  <2>2. auKeys' \cup auBlack' \cup auSet' \cup auGiven' \cup auSpent' \cup auOut' \subseteq 1 .. auMade'
    BY <1>1, <1>4, <2>1 DEF AuTypeOK
  <2>3. auUser' \in Users \cup {NoUser} /\ auMade' \in 0 .. MaxTokens /\ auFaults' \in 0 .. MaxAuthFaults
    BY <1>1, <1>4 DEF AuTypeOK
  <2> QED BY <1>3, <2>2, <2>3, TypesKept
<1>6. ~HasNew(r)'
  BY <1>3 DEF HasNew
<1>7. Invalidates(r)' <=> op = "logout"
  BY <1>3 DEF Invalidates
<1>8. PlaceOK(r)' /\ TokenOK(r)' /\ AccountOK(r)'
  <2>1. PlaceOK(r)'
    BY <1>3, <1>7 DEF PlaceOK
  <2>2. TokenOK(r)'
    BY <1>3, <1>4, <1>6, <1>7 DEF TokenOK
  <2>3. AccountOK(r)'
    BY <1>3, <1>6 DEF AccountOK
  <2> QED BY <2>1, <2>2, <2>3
<1>9. Effects(r)
  BY <1>4 DEF Effects
<1> QED BY <1>3, <1>5, <1>6, <1>8, <1>9, RequestMoves DEF RequestOK

\* A request that answers is idle again, and idle requests rely on nothing.
LEMMA AnswerMoves ==
    ASSUME AuIInv, NEW r \in Requests, Answer(r), Effects(r),
           auUser' \in Users \cup {NoUser}, auMade' = auMade, auFaults' \in 0 .. MaxAuthFaults,
           auSpent' = auSpent,
           auKeys' \subseteq auKeys, auSet' \subseteq auSet, auBlack' = auBlack
    PROVE  AuIInv'
<1> USE DEF AuIInv
<1>1. auReq \in [Requests -> RequestType] /\ AuTypeOK
  BY DEF AuTypes
<1>2. /\ auReq' \in [Requests -> RequestType]
      /\ auReq'[r] = IdleRequest
      /\ \A s \in Requests \ {r} : auReq'[s] = auReq[s]
  BY <1>1, AnswerFields
<1>3. ~HasNew(r)' /\ ~Invalidates(r)'
  BY <1>2, IdleFields DEF HasNew, Invalidates
<1>4. RequestOK(r)'
  BY <1>2, <1>3, IdleFields DEF RequestOK, PlaceOK, TokenOK, AccountOK
<1>5. /\ HasNew(r) => auReq[r].new \in 1 .. auMade
      /\ Invalidates(r) => auReq[r].token \in 1 .. auMade
      /\ auReq[r].at = "srem" => Invalidates(r)
  <2>1. PlaceOK(r) /\ TokenOK(r)
    BY DEF RequestOK
  <2>2. Invalidates(r) => auReq[r].token \in auSpent
    BY <2>1 DEF TokenOK
  <2>3. auReq[r].at = "srem" => Invalidates(r)
    BY DEF Invalidates
  <2> QED BY <1>1, <2>1, <2>2, <2>3 DEF TokenOK, AuTypeOK
<1>6. auGiven' \cup auOut' \subseteq 1 .. auMade
  BY <1>1, <1>5 DEF AuTypeOK, Effects
<1>7. AuTypes'
  BY <1>1, <1>2, <1>6, TypesKept DEF AuTypeOK
<1> QED BY <1>2, <1>3, <1>4, <1>7, RequestMoves

\* A request moves on to its next statement: what is left to show is that it may be there.
LEMMA StepMoves ==
    ASSUME AuIInv, NEW r \in Requests, NEW at \in AuthPlaces \ {"write"}, Step(r, at), Effects(r),
           auUser' = auUser, auMade' = auMade, auFaults' \in 0 .. MaxAuthFaults,
           auGiven' = auGiven, auOut' = auOut,
           auSpent' = auSpent \/ (auReq[r].op = "refresh" /\ auSpent' = auSpent \cup {auReq[r].token}),
           HasNew(r)' => HasNew(r), PlaceOK(r)', TokenOK(r)'
    PROVE  AuIInv'
<1> USE DEF AuIInv
<1>1. auReq \in [Requests -> RequestType] /\ AuTypeOK /\ PlaceOK(r) /\ TokenOK(r) /\ AccountOK(r)
  BY DEF AuTypes, RequestOK
<1>2. /\ auReq' \in [Requests -> RequestType]
      /\ auReq'[r].at = at /\ auReq'[r].op = auReq[r].op /\ auReq'[r].user = auReq[r].user
      /\ auReq'[r].token = auReq[r].token /\ auReq'[r].new = auReq[r].new
      /\ \A s \in Requests \ {r} : auReq'[s] = auReq[s]
  BY <1>1, StepFields
<1>3. AccountOK(r)'
  BY <1>1, <1>2 DEF AccountOK
<1>4. /\ HasNew(r) => auReq[r].new \in 1 .. auMade
      /\ Invalidates(r) => auReq[r].token \in 1 .. auMade
      /\ auReq[r].op = "refresh" => auReq[r].token \in 1 .. auMade
  <2>1. Invalidates(r) => auReq[r].token \in auSpent
    BY <1>1 DEF TokenOK
  <2>2. HasNew(r) => auReq[r].new \in 1 .. auMade
    BY <1>1 DEF TokenOK
  <2>3. auReq[r].op = "refresh" => auReq[r].token \in auGiven
    BY <1>1 DEF TokenOK
  <2> QED BY <2>1, <2>2, <2>3, TokensMade
<1>5. /\ auKeys' \subseteq 1 .. auMade /\ auSet' \subseteq 1 .. auMade /\ auBlack' \subseteq 1 .. auMade
      /\ auSpent' \subseteq 1 .. auMade
  BY <1>4, TokensMade DEF Effects
<1>6. AuTypes'
  <2>1. auGiven' \subseteq 1 .. auMade /\ auOut' \subseteq 1 .. auMade
    BY TokensMade
  <2>2. auKeys' \cup auBlack' \cup auSet' \cup auGiven' \cup auSpent' \cup auOut' \subseteq 1 .. auMade'
    BY <1>5, <2>1
  <2> QED BY <1>1, <1>2, <2>2, TypesKept DEF AuTypeOK
<1> QED BY <1>2, <1>3, <1>6, RequestMoves DEF RequestOK

\* The row a request reads, and the token that a login or a refresh generates when it has found it.
LEMMA FindMoves ==
    ASSUME AuIInv, NEW r \in Requests, AuthFindUser(r)
    PROVE  AuIInv'
<1> USE DEF AuIInv
<1>1. /\ auReq \in [Requests -> RequestType] /\ AuTypeOK /\ PlaceOK(r) /\ TokenOK(r) /\ AccountOK(r)
      /\ auReq[r].at = "find"
  BY DEF AuTypes, RequestOK, AuthFindUser
<1>2. /\ UNCHANGED <<auUser, auKeys, auBlack, auSet, auGiven, auSpent, auOut>>
      /\ auFaults' \in 0 .. MaxAuthFaults
  BY <1>1, AuthAssumption DEF AuthFindUser, auRedis, auHistory, ErrorEnds, AuFault, AuWell, AuTypeOK
<1>3. ~HasNew(r) /\ ~Invalidates(r)
  BY <1>1 DEF HasNew, Invalidates
<1>4. CASE Answer(r) /\ auMade' = auMade
  <2>1. Effects(r)
    BY <1>2, <1>4 DEF Effects
  <2>2. auUser' \in Users \cup {NoUser}
    BY <1>1, <1>2 DEF AuTypeOK
  <2> QED BY <1>2, <1>4, <2>1, <2>2, AnswerMoves
<1>5. CASE /\ auReq' = [auReq EXCEPT ![r].at = "write", ![r].user = auUser] /\ auMade' = auMade
           /\ auReq[r].op \in {"register", "profile", "password"}
           /\ auReq[r].op # "register" => auUser # NoUser
  <2>1. /\ auReq' \in [Requests -> RequestType]
        /\ auReq'[r].at = "write" /\ auReq'[r].op = auReq[r].op /\ auReq'[r].user = auUser
        /\ auReq'[r].pw = auReq[r].pw
        /\ \A s \in Requests \ {r} : auReq'[s] = auReq[s]
    <3> DEFINE q == [[auReq[r] EXCEPT !.at = "write"] EXCEPT !.user = auUser]
    <3>1. auReq[r] \in RequestType /\ auUser \in Users \cup {NoUser} /\ "write" \in AuthPlaces
      BY <1>1 DEF AuTypeOK, AuthPlaces
    <3>2. /\ q \in RequestType /\ q.at = "write" /\ q.op = auReq[r].op /\ q.user = auUser
          /\ q.pw = auReq[r].pw
      BY ONLY <3>1 DEF RequestType
    <3>3. auReq' = [auReq EXCEPT ![r] = q]
      BY <1>1, <1>5
    <3> HIDE DEF q
    <3> QED BY <1>1, <3>2, <3>3
  <2>2. ~HasNew(r)' /\ ~Invalidates(r)'
    BY <2>1 DEF HasNew, Invalidates
  <2>3. PlaceOK(r)' /\ TokenOK(r)' /\ AccountOK(r)'
    BY <1>1, <1>2, <1>5, <2>1, <2>2 DEF PlaceOK, TokenOK, AccountOK
  <2>4. Effects(r)
    BY <1>2, <1>5 DEF Effects
  <2>5. AuTypes'
    BY <1>1, <1>2, <1>5, <2>1, TypesKept DEF AuTypeOK
  <2> QED BY <2>1, <2>2, <2>3, <2>4, <2>5, RequestMoves DEF RequestOK
<1>6. CASE /\ auReq' = [auReq EXCEPT ![r].at = "set", ![r].user = auUser, ![r].new = auMade + 1]
           /\ auMade' = auMade + 1 /\ auMade < MaxTokens
           /\ auReq[r].op \in {"login", "refresh"} /\ auUser # NoUser
  <2>0. auMade \in Nat /\ auMade' \in 0 .. MaxTokens
    BY <1>6, TokensMade, AuthAssumption
  <2>1. /\ auReq' \in [Requests -> RequestType]
        /\ auReq'[r].at = "set" /\ auReq'[r].op = auReq[r].op /\ auReq'[r].user = auUser
        /\ auReq'[r].token = auReq[r].token /\ auReq'[r].new = auMade + 1
        /\ \A s \in Requests \ {r} : auReq'[s] = auReq[s]
    <3> DEFINE q == [[[auReq[r] EXCEPT !.at = "set"] EXCEPT !.user = auUser] EXCEPT !.new = auMade + 1]
    <3>1. /\ auReq[r] \in RequestType /\ auUser \in Users \cup {NoUser} /\ "set" \in AuthPlaces
          /\ auMade + 1 \in Nat
      <4>1. auReq[r] \in RequestType
        BY <1>1
      <4>2. auUser \in Users \cup {NoUser} /\ "set" \in AuthPlaces
        BY <1>1 DEF AuTypeOK, AuthPlaces
      <4>3. auMade + 1 \in Nat
        BY <2>0
      <4> QED BY <4>1, <4>2, <4>3
    <3>2. /\ q \in RequestType /\ q.at = "set" /\ q.op = auReq[r].op /\ q.user = auUser
          /\ q.token = auReq[r].token /\ q.new = auMade + 1
      BY ONLY <3>1 DEF RequestType
    <3>3. auReq' = [auReq EXCEPT ![r] = q]
      BY <1>1, <1>6
    <3> HIDE DEF q
    <3> QED BY <1>1, <3>2, <3>3
  <2>2. ~Invalidates(r)'
    BY <2>1 DEF Invalidates
  <2>3. PlaceOK(r)' /\ AccountOK(r)'
    BY <1>2, <1>6, <2>1, <2>2 DEF PlaceOK, AccountOK
  <2>4. auMade + 1 \notin auGiven
    BY <2>0, TokensMade
  <2>5. TokenOK(r)'
    BY <1>1, <1>2, <1>6, <2>0, <2>1, <2>2, <2>4 DEF TokenOK
  <2>6. Effects(r)
    BY <1>2, <1>6 DEF Effects
  <2>7. AuTypes'
    <3>1. \A t \in 1 .. auMade : t \in 1 .. auMade'
      BY <1>6, <2>0
    <3>2. auKeys' \cup auBlack' \cup auSet' \cup auGiven' \cup auSpent' \cup auOut' \subseteq 1 .. auMade'
      BY <1>2, <3>1, TokensMade
    <3> QED BY <1>1, <1>2, <2>0, <2>1, <3>2, TypesKept DEF AuTypeOK
  <2> QED BY <2>1, <2>3, <2>5, <2>6, <2>7, RequestMoves DEF RequestOK
<1> QED BY <1>1, <1>4, <1>5, <1>6 DEF AuthFindUser, ErrorEnds

\* What is known of the request that takes a step.
LEMMA RequestKnown ==
    ASSUME AuIInv, NEW r \in Requests
    PROVE  /\ auReq \in [Requests -> RequestType] /\ auReq[r].user \in Users \cup {NoUser}
           /\ PlaceOK(r) /\ TokenOK(r) /\ AccountOK(r)
           /\ auUser \in Users \cup {NoUser} /\ auFaults \in 0 .. MaxAuthFaults
           /\ AuFault \/ AuWell => auFaults' \in 0 .. MaxAuthFaults
<1>1. auReq \in [Requests -> RequestType] /\ AuTypeOK /\ RequestOK(r)
  BY DEF AuIInv, AuTypes
<1>2. AuFault \/ AuWell => auFaults' \in 0 .. MaxAuthFaults
  BY <1>1, AuthAssumption DEF AuTypeOK, AuFault, AuWell
<1> QED BY <1>1, <1>2 DEF AuTypeOK, RequestOK, RequestType

\* Registration writes the account's row.
LEMMA CreateMoves ==
    ASSUME AuIInv, NEW r \in Requests, AuthCreateUser(r)
    PROVE  AuIInv'
<1>1. /\ auReq[r].op = "register" /\ Answer(r) /\ (AuFault \/ AuWell)
      /\ \/ auUser' = [exists |-> TRUE, pw |-> auReq[r].pw, name |-> "first"]
         \/ auUser' = auUser
      /\ UNCHANGED <<auKeys, auBlack, auSet, auMade, auGiven, auSpent, auOut>>
  BY DEF AuthCreateUser, auRedis, auHistory
<1>2. auUser' \in Users \/ auUser' = auUser
  BY <1>1, RequestKnown, RowsAreUsers DEF PlaceOK
<1>3. Effects(r)
  BY <1>1, <1>2, RowsAreUsers DEF Effects
<1> QED BY <1>1, <1>2, <1>3, RequestKnown, AnswerMoves

\* The profile or the password is written over the row that was read.
LEMMA UpdateMoves ==
    ASSUME AuIInv, NEW r \in Requests, AuthUpdateUser(r)
    PROVE  AuIInv'
<1>1. /\ auReq[r].op \in {"profile", "password"} /\ auReq[r].at = "write" /\ Answer(r) /\ (AuFault \/ AuWell)
      /\ \/ auUser' = [auReq[r].user EXCEPT !.name = "updated"]
         \/ \E p \in Passwords : auUser' = [auReq[r].user EXCEPT !.pw = p]
         \/ auUser' = auUser
      /\ UNCHANGED <<auKeys, auBlack, auSet, auMade, auGiven, auSpent, auOut>>
  BY DEF AuthUpdateUser, auRedis, auHistory
<1>2. auReq[r].user \in Users
  BY <1>1, RequestKnown DEF AccountOK
<1>3. auUser' \in Users \/ auUser' = auUser
  BY <1>1, <1>2, RowsAreUsers
<1>4. Effects(r)
  BY <1>1, <1>3, RowsAreUsers DEF Effects
<1> QED BY <1>1, <1>3, <1>4, RequestKnown, AnswerMoves

\* A login writes the row back as it read it, and gives its token to the client.
LEMMA TouchMoves ==
    ASSUME AuIInv, NEW r \in Requests, TouchLastLogin(r)
    PROVE  AuIInv'
<1>1. /\ auReq[r].at = "touch" /\ Answer(r) /\ (AuFault \/ AuWell)
      /\ auUser' = auReq[r].user \/ auUser' = auUser
      /\ auGiven' = auGiven \cup {auReq[r].new}
      /\ UNCHANGED <<auKeys, auBlack, auSet, auMade, auSpent, auOut>>
  BY DEF TouchLastLogin, auRedis
<1>2. HasNew(r)
  BY <1>1 DEF HasNew
<1>3. auUser' \in Users \cup {NoUser} /\ (auUser # NoUser => auUser' # NoUser)
  BY <1>1, <1>2, RequestKnown DEF AccountOK
<1>4. Effects(r)
  BY <1>1, <1>2, <1>3 DEF Effects
<1> QED BY <1>1, <1>3, <1>4, RequestKnown, AnswerMoves

\* SET, SADD and EXPIRE of a new token; after the last, a refresh counts the old one as spent.
LEMMA StoreMoves ==
    ASSUME AuIInv, NEW r \in Requests, StoreRefreshToken(r)
    PROVE  AuIInv'
<1> DEFINE next == IF auReq[r].op = "login" THEN "touch" ELSE "known"
<1>1. /\ UNCHANGED <<auUser, auBlack, auMade, auGiven, auOut>>
      /\ AuFault \/ AuWell
      /\ auReq[r].at \in {"set", "sadd", "expire"}
  BY DEF StoreRefreshToken, ErrorEnds
<1>2. HasNew(r) /\ auReq[r].op \in {"login", "refresh"}
  BY <1>1, RequestKnown DEF HasNew, PlaceOK
<1>3. CASE Answer(r) /\ UNCHANGED <<auKeys, auSet, auSpent>>
  <2>1. Effects(r)
    BY <1>1, <1>3 DEF Effects
  <2> QED BY <1>1, <1>3, <2>1, RequestKnown, AnswerMoves
<1>4. CASE /\ auReq[r].at = "set" /\ Step(r, "sadd") /\ auKeys' = auKeys \cup {auReq[r].new}
           /\ UNCHANGED <<auSet, auSpent>>
  <2>1. "sadd" \in AuthPlaces \ {"write"}
    BY DEF AuthPlaces
  <2>2. /\ auReq'[r].at = "sadd" /\ auReq'[r].op = auReq[r].op /\ auReq'[r].pw = auReq[r].pw
        /\ auReq'[r].token = auReq[r].token /\ auReq'[r].new = auReq[r].new
    BY <1>4, <2>1, RequestKnown, StepFields
  <2>3. Effects(r)
    BY <1>1, <1>2, <1>4 DEF Effects
  <2>4. ~Invalidates(r)'
    BY <2>2 DEF Invalidates
  <2>5. PlaceOK(r)'
    BY <1>2, <2>2, <2>4 DEF PlaceOK
  <2>6. TokenOK(r)'
    BY <1>1, <1>2, <1>4, <2>2, <2>4, RequestKnown DEF TokenOK
  <2> QED BY <1>1, <1>2, <1>4, <2>1, <2>3, <2>5, <2>6, RequestKnown, StepMoves
<1>5. CASE /\ auReq[r].at = "sadd" /\ Step(r, "expire") /\ auSet' = auSet \cup {auReq[r].new}
           /\ UNCHANGED <<auKeys, auSpent>>
  <2>1. "expire" \in AuthPlaces \ {"write"}
    BY DEF AuthPlaces
  <2>2. /\ auReq'[r].at = "expire" /\ auReq'[r].op = auReq[r].op /\ auReq'[r].pw = auReq[r].pw
        /\ auReq'[r].token = auReq[r].token /\ auReq'[r].new = auReq[r].new
    BY <1>5, <2>1, RequestKnown, StepFields
  <2>3. Effects(r)
    BY <1>1, <1>2, <1>5 DEF Effects
  <2>4. ~Invalidates(r)'
    BY <2>2 DEF Invalidates
  <2>5. PlaceOK(r)'
    BY <1>2, <2>2, <2>4 DEF PlaceOK
  <2>6. TokenOK(r)'
    BY <1>1, <1>2, <1>5, <2>2, <2>4, RequestKnown DEF TokenOK
  <2> QED BY <1>1, <1>2, <1>5, <2>1, <2>3, <2>5, <2>6, RequestKnown, StepMoves
<1>6. CASE /\ auReq[r].at = "expire" /\ Step(r, "touch") /\ auReq[r].op = "login"
           /\ UNCHANGED <<auKeys, auSet, auSpent>>
  <2>1. "touch" \in AuthPlaces \ {"write"}
    BY DEF AuthPlaces
  <2>2. /\ auReq'[r].at = "touch" /\ auReq'[r].op = "login" /\ auReq'[r].pw = auReq[r].pw
        /\ auReq'[r].token = auReq[r].token /\ auReq'[r].new = auReq[r].new
    BY <1>6, <2>1, RequestKnown, StepFields
  <2>3. Effects(r)
    BY <1>1, <1>2, <1>6 DEF Effects
  <2>4. ~Invalidates(r)'
    BY <2>2 DEF Invalidates
  <2>5. PlaceOK(r)'
    BY <1>2, <2>2, <2>4 DEF PlaceOK
  <2>6. TokenOK(r)'
    BY <1>1, <1>2, <1>6, <2>2, <2>4, RequestKnown DEF TokenOK
  <2> QED BY <1>1, <1>2, <1>6, <2>1, <2>3, <2>5, <2>6, RequestKnown, StepMoves
<1>7. CASE /\ auReq[r].at = "expire" /\ Step(r, "known") /\ auReq[r].op = "refresh"
           /\ UNCHANGED <<auKeys, auSet>> /\ auSpent' = auSpent \cup {auReq[r].token}
  <2>1. "known" \in AuthPlaces \ {"write"}
    BY DEF AuthPlaces
  <2>2. /\ auReq'[r].at = "known" /\ auReq'[r].op = "refresh" /\ auReq'[r].pw = auReq[r].pw
        /\ auReq'[r].token = auReq[r].token /\ auReq'[r].new = auReq[r].new
    BY <1>7, <2>1, RequestKnown, StepFields
  <2>3. Effects(r)
    BY <1>1, <1>2, <1>7 DEF Effects
  <2>4. PlaceOK(r)'
    BY <1>2, <2>2 DEF PlaceOK
  <2>5. TokenOK(r)'
    BY <1>1, <1>2, <1>7, <2>2, RequestKnown DEF TokenOK
  <2> QED BY <1>1, <1>2, <1>7, <2>1, <2>3, <2>4, <2>5, RequestKnown, StepMoves
<1>8. \/ Answer(r) /\ UNCHANGED <<auKeys, auSet, auSpent>>
      \/ /\ auReq[r].at = "set" /\ Step(r, "sadd") /\ auKeys' = auKeys \cup {auReq[r].new}
         /\ UNCHANGED <<auSet, auSpent>>
      \/ /\ auReq[r].at = "sadd" /\ Step(r, "expire") /\ auSet' = auSet \cup {auReq[r].new}
         /\ UNCHANGED <<auKeys, auSpent>>
      \/ /\ auReq[r].at = "expire" /\ Step(r, next) /\ UNCHANGED <<auKeys, auSet>>
         /\ auSpent' = IF next = "known" THEN auSpent \cup {auReq[r].token} ELSE auSpent
  BY DEF StoreRefreshToken, ErrorEnds
<1> QED BY <1>2, <1>3, <1>4, <1>5, <1>6, <1>7, <1>8

\* A refresh looks for its token in the blacklist and among the keys.
LEMMA ValidateMoves ==
    ASSUME AuIInv, NEW r \in Requests, ValidateRefreshToken(r)
    PROVE  AuIInv'
<1>1. /\ UNCHANGED <<auUser, auKeys, auBlack, auSet, auMade, auGiven, auSpent, auOut>>
      /\ AuFault \/ AuWell
      /\ auReq[r].at \in {"check black", "check key"}
      /\ Answer(r) \/ Step(r, "check key") \/ Step(r, "find")
  BY DEF ValidateRefreshToken, auRedis, auHistory, ErrorEnds
<1>2. Effects(r)
  BY <1>1 DEF Effects
<1>3. CASE Answer(r)
  BY <1>1, <1>2, <1>3, RequestKnown, AnswerMoves
<1>4. ASSUME NEW at \in {"check key", "find"}, Step(r, at)
      PROVE  AuIInv'
  <2>1. at \in AuthPlaces \ {"write"}
    BY DEF AuthPlaces
  <2>2. /\ auReq'[r].at = at /\ auReq'[r].op = auReq[r].op /\ auReq'[r].pw = auReq[r].pw
        /\ auReq'[r].token = auReq[r].token /\ auReq'[r].new = auReq[r].new
    BY <1>4, <2>1, RequestKnown, StepFields
  <2>3. auReq[r].op = "refresh"
    BY <1>1, RequestKnown DEF PlaceOK
  <2>4. ~Invalidates(r)' /\ ~HasNew(r)'
    BY <2>2 DEF Invalidates, HasNew
  <2>5. PlaceOK(r)' /\ TokenOK(r)'
    BY <1>1, <2>2, <2>3, <2>4, RequestKnown DEF PlaceOK, TokenOK
  <2> QED BY <1>1, <1>2, <1>4, <2>1, <2>4, <2>5, RequestKnown, StepMoves
<1> QED BY <1>1, <1>3, <1>4

\* Blacklist, DEL and SREM of the old token; a refresh answers with the new one even if one fails.
LEMMA InvalidateMoves ==
    ASSUME AuIInv, NEW r \in Requests, InvalidateRefreshToken(r)
    PROVE  AuIInv'
<1> DEFINE t == auReq[r].token
<1>1. /\ UNCHANGED <<auUser, auMade, auSpent>>
      /\ AuFault \/ AuWell
      /\ auReq[r].at \in {"known", "black", "del", "srem"}
  BY DEF InvalidateRefreshToken
<1>2. /\ Invalidates(r) /\ auReq[r].op \in {"refresh", "logout"}
      /\ auReq[r].op = "refresh" => HasNew(r)
  <2>1. Invalidates(r)
    BY <1>1 DEF Invalidates
  <2>2. auReq[r].op \in {"refresh", "logout"}
    BY <2>1, RequestKnown DEF PlaceOK
  <2> QED BY <1>1, <2>1, <2>2 DEF HasNew
<1>3. CASE /\ Answer(r) /\ UNCHANGED <<auKeys, auBlack>>
           /\ auGiven' = IF auReq[r].op = "refresh" THEN auGiven \cup {auReq[r].new} ELSE auGiven
           /\ \/ UNCHANGED <<auSet, auOut>>
              \/ /\ auReq[r].at = "srem" /\ auOut' = auOut \cup {t}
                 /\ auSet' = auSet \ {t} \/ auSet' = auSet
  <2>1. Effects(r)
    BY <1>1, <1>2, <1>3 DEF Effects
  <2> QED BY <1>1, <1>3, <2>1, RequestKnown, AnswerMoves
<1>4. ASSUME NEW at \in {"black", "del", "srem"}, Step(r, at),
             UNCHANGED <<auSet, auGiven, auOut>>,
             auKeys' = auKeys \/ (auReq[r].at = "del" /\ auKeys' = auKeys \ {t}),
             auBlack' = auBlack \/ auBlack' = auBlack \cup {t},
             at = "srem" => t \notin auKeys'
      PROVE  AuIInv'
  <2>1. at \in AuthPlaces \ {"write"}
    BY DEF AuthPlaces
  <2>2. /\ auReq'[r].at = at /\ auReq'[r].op = auReq[r].op /\ auReq'[r].pw = auReq[r].pw
        /\ auReq'[r].token = auReq[r].token /\ auReq'[r].new = auReq[r].new
    BY <1>4, <2>1, RequestKnown, StepFields
  <2>3. Invalidates(r)' /\ (HasNew(r)' => HasNew(r))
    BY <1>1, <1>2, <2>2 DEF Invalidates, HasNew
  <2>4. Effects(r)
    BY <1>1, <1>2, <1>4 DEF Effects
  <2>5. PlaceOK(r)'
    BY <1>2, <2>2 DEF PlaceOK
  <2>6. TokenOK(r)'
    BY <1>1, <1>2, <1>4, <2>2, <2>3, RequestKnown DEF TokenOK
  <2> QED BY <1>1, <1>4, <2>1, <2>3, <2>4, <2>5, <2>6, RequestKnown, StepMoves
<1>5. \/ /\ Answer(r) /\ UNCHANGED <<auKeys, auBlack>>
         /\ auGiven' = IF auReq[r].op = "refresh" THEN auGiven \cup {auReq[r].new} ELSE auGiven
         /\ \/ UNCHANGED <<auSet, auOut>>
            \/ /\ auReq[r].at = "srem" /\ auOut' = auOut \cup {t}
               /\ auSet' = auSet \ {t} \/ auSet' = auSet
      \/ Step(r, "black") /\ UNCHANGED <<auKeys, auBlack, auSet, auGiven, auOut>>
      \/ /\ Step(r, "del") /\ UNCHANGED <<auKeys, auSet, auGiven, auOut>>
         /\ auBlack' = auBlack \/ auBlack' = auBlack \cup {t}
      \/ /\ auReq[r].at = "del" /\ Step(r, "srem") /\ auKeys' = auKeys \ {t}
         /\ UNCHANGED <<auBlack, auSet, auGiven, auOut>>
  BY DEF InvalidateRefreshToken, auRedis
<1> QED BY <1>3, <1>4, <1>5

\* A token's key expires, and the token counts as spent.
LEMMA ExpiryMoves ==
    ASSUME AuIInv, TokenExpires
    PROVE  AuIInv'
<1> USE DEF AuIInv
<1>1. UNCHANGED <<auUser, auBlack, auSet, auMade, auReq, auGiven, auOut>> /\ AuFault
  BY DEF TokenExpires
<1>2. PICK t \in auKeys : auKeys' = auKeys \ {t} /\ auSpent' = auSpent \cup {t}
  BY DEF TokenExpires
<1>3. AuTypes'
  <2>1. auReq \in [Requests -> RequestType] /\ AuTypeOK
    BY DEF AuTypes
  <2>2. auFaults' \in 0 .. MaxAuthFaults
    BY <1>1, <2>1, AuthAssumption DEF AuTypeOK, AuFault
  <2>3. auKeys' \cup auBlack' \cup auSet' \cup auGiven' \cup auSpent' \cup auOut' \subseteq 1 .. auMade'
    BY <1>1, <1>2, TokensMade
  <2> QED BY <1>1, <2>1, <2>2, <2>3, TypesKept DEF AuTypeOK
<1>4. \A s \in Requests : RequestOK(s)' /\ (HasNew(s)' <=> HasNew(s))
  <2>1. /\ auMade \in Nat /\ auSpent \subseteq auSpent' /\ auKeys \cup auSpent \subseteq auKeys' \cup auSpent'
        /\ auKeys' \subseteq auKeys
    BY <1>2, TokensMade
  <2> QED BY <1>1, <2>1, OthersKept
<1>5. NewApart' /\ SetsOK'
  BY <1>1, <1>2, <1>4 DEF NewApart, SetsOK
<1>6. LogoutIsFinal' /\ GivenIsListed' /\ GivenHasAccount'
  BY <1>1, <1>2 DEF LogoutIsFinal, GivenIsListed, GivenHasAccount, Valid
<1> QED BY <1>3, <1>4, <1>5, <1>6

\* A stuttering step keeps the invariant.
LEMMA AuUnchanged == ASSUME AuIInv, UNCHANGED auVars PROVE AuIInv'
<1>1. UNCHANGED <<auUser, auKeys, auBlack, auSet, auMade, auReq, auGiven, auSpent, auOut, auFaults>>
  BY DEF auVars
<1>2. AuTypes'
  BY <1>1 DEF AuIInv, AuTypes, AuTypeOK
<1>3. ASSUME NEW r \in Requests PROVE RequestOK(r)' /\ (HasNew(r)' <=> HasNew(r))
  <2>1. (HasNew(r)' <=> HasNew(r)) /\ (Invalidates(r)' <=> Invalidates(r))
    BY <1>1 DEF HasNew, Invalidates
  <2>2. RequestOK(r)
    BY DEF AuIInv
  <2> QED BY <1>1, <2>1, <2>2 DEF RequestOK, PlaceOK, TokenOK, AccountOK
<1>4. NewApart'
  BY <1>1, <1>3 DEF AuIInv, NewApart
<1>5. SetsOK' /\ LogoutIsFinal' /\ GivenIsListed' /\ GivenHasAccount'
  BY <1>1, <1>3 DEF AuIInv, SetsOK, LogoutIsFinal, GivenIsListed, GivenHasAccount, Valid
<1> QED BY <1>2, <1>3, <1>4, <1>5 DEF AuIInv

\* Every statement's action keeps the invariant.
LEMMA AuStep == AuIInv /\ [AuNext]_auVars => AuIInv'
<1> SUFFICES ASSUME AuIInv, [AuNext]_auVars PROVE AuIInv'
  OBVIOUS
<1>1. ASSUME NEW r \in Requests, AcceptRegister(r) \/ AcceptLogin(r) \/ AcceptChangePassword(r)
      PROVE AuIInv'
  BY <1>1, AcceptMoves DEF AcceptRegister, AcceptLogin, AcceptChangePassword
<1>2. ASSUME NEW r \in Requests, AcceptUpdateMe(r) PROVE AuIInv'
  BY <1>2, AcceptMoves DEF AcceptUpdateMe
<1>3. ASSUME NEW r \in Requests, AcceptRefresh(r) PROVE AuIInv'
  BY <1>3, AcceptMoves DEF AcceptRefresh
<1>4. ASSUME NEW r \in Requests, AcceptLogout(r) PROVE AuIInv'
  BY <1>4, AcceptMoves DEF AcceptLogout
<1>5. CASE AuNext
  BY <1>1, <1>2, <1>3, <1>4, <1>5, FindMoves, CreateMoves, UpdateMoves, StoreMoves, TouchMoves,
     ValidateMoves, InvalidateMoves, ExpiryMoves DEF AuNext
<1> QED BY <1>5, AuUnchanged

\* The invariant implies the safety properties.
LEMMA SetsGiveSafety == AuIInv => AuthSafety
BY DEF AuIInv, AuthSafety, SetsOK, GivenIsGood, Valid

\* A token that a logout or a refresh has dropped stays dropped, and one a client was given stays
\* good, listed and owned until it is: whatever order the statements of any number of concurrent
\* requests take, and whichever of them fail.
THEOREM TokensAreSafe == AuSpec => []AuthSafety
BY AuInitially, AuStep, SetsGiveSafety, PTL DEF AuSpec

(***************************************************************************)
(* The WebSocket hub.                                                      *)
(***************************************************************************)

\* RemoveFirst takes away one element, and only of the value it is asked for.
LEMMA WithoutKeeps ==
    ASSUME NEW S, NEW list \in Seq(S), NEW c
    PROVE  /\ Without(list, c) \in Seq(S)
           /\ \A d : Contains(list, d) /\ d # c => Contains(Without(list, c), d)
<1>1. CASE ~Contains(list, c)
  BY <1>1 DEF Without
<1>2. CASE Contains(list, c)
  <2> DEFINE I == {i \in 1 .. Len(list) : list[i] = c}
             k == Min(I)
  <2>1. I \subseteq Nat /\ I # {}
    BY <1>2 DEF Contains
  <2>2. \E i \in I : \A j \in I : ~(<<j, i>> \in OpToRel(<, Nat))
    BY <2>1, NatLessThanWellFounded, WFMin
  <2>3. \E i \in I : \A j \in I : i <= j
    <3>1. \A i, j \in Nat : j < i => <<j, i>> \in OpToRel(<, Nat)
      BY Zenon DEF OpToRel
    <3>2. PICK i \in I : \A j \in I : ~(<<j, i>> \in OpToRel(<, Nat))
      BY <2>2
    <3>3. \A j \in I : ~(j < i)
      BY <2>1, <3>1, <3>2
    <3>4. \A j \in I : i <= j
      BY <3>3
    <3> QED BY <3>4
  <2>4. k \in I
    BY <2>3 DEF Min
  <2>5. k \in 1 .. Len(list) /\ list[k] = c
    BY <2>4
  <2>6. Without(list, c) = SubSeq(list, 1, k - 1) \o SubSeq(list, k + 1, Len(list))
    <3>1. SelectInSeq(list, LAMBDA v : v = c) = k
      BY <2>1 DEF SelectInSeq
    <3> QED BY <1>2, <3>1 DEF Without, RemoveFirst, RemoveAt, Contains
  <2> HIDE DEF k
  <2> DEFINE front == SubSeq(list, 1, k - 1)
             back == SubSeq(list, k + 1, Len(list))
  <2>7. /\ front \in Seq(S) /\ Len(front) = k - 1 /\ \A i \in 1 .. k - 1 : front[i] = list[i]
    BY <2>5
  <2>8. /\ back \in Seq(S) /\ Len(back) = Len(list) - k
        /\ \A i \in 1 .. Len(list) - k : back[i] = list[k + i]
    BY <2>5
  <2> HIDE DEF front, back
  <2>9. Without(list, c) \in Seq(S) /\ Len(Without(list, c)) = Len(list) - 1
    <3>1. Without(list, c) = front \o back
      BY <2>6 DEF front, back
    <3>2. front \o back \in Seq(S) /\ Len(front \o back) = Len(front) + Len(back)
      <4>1. front \in Seq(S) /\ back \in Seq(S)
        BY <2>7, <2>8
      <4> QED BY ONLY <4>1
    <3> QED BY <2>5, <2>7, <2>8, <3>1, <3>2
  <2>10. ASSUME NEW d, Contains(list, d), d # c
         PROVE  Contains(Without(list, c), d)
    <3>1. PICK i \in 1 .. Len(list) : list[i] = d
      BY <2>10 DEF Contains
    <3>2. CASE i < k
      <4>1. (front \o back)[i] = d
        BY <2>5, <2>7, <2>8, <3>1, <3>2
      <4>2. i \in 1 .. Len(list) - 1
        BY <2>5, <3>1, <3>2
      <4> QED BY <2>6, <2>9, <4>1, <4>2 DEF Contains, front, back
    <3>3. CASE i > k
      <4>1. (front \o back)[i - 1] = back[i - k] /\ back[i - k] = d
        BY <2>5, <2>7, <2>8, <3>1, <3>3
      <4>2. i - 1 \in 1 .. Len(list) - 1
        BY <2>5, <3>1, <3>3
      <4> QED BY <2>6, <2>9, <4>1, <4>2 DEF Contains, front, back
    <3> QED BY <2>5, <2>10, <3>1, <3>2, <3>3
  <2> QED BY <2>9, <2>10
<1> QED BY <1>1, <1>2

HubPlaces == {"out", "joining", "reading", "answering", "left table", "leaving", "gone"}
HubUsers == {UserOf[c] : c \in Clients}
\* The connections that the hub has taken in at some time.
Joined == {c \in Clients : phConn[c] \notin {"out", "joining"}}

\* Only clients that were taken in are counted, listed, copied and sent to.
HubLists ==
    /\ phMap \subseteq Joined /\ IsFiniteSet(phMap)
    /\ phUsers \in [HubUsers -> Seq(Joined)] /\ phTables \in [Tables -> Seq(Joined)]
    /\ phCopy \in [Clients -> Seq(Joined)] /\ phTodo \in [Broadcasters -> Seq(Joined)]

\* A client that was not taken in has an open channel and views nothing; one that is leaving a
\* table still views it.
HubClients ==
    /\ phConn \in [Clients -> HubPlaces] /\ phTable \in [Clients -> Tables \cup {NoTable}]
    /\ \A c \in Clients \ Joined : c \in phOpen /\ phTable[c] = NoTable
    /\ \A c \in Clients : phConn[c] = "left table" => phTable[c] # NoTable

PhIInv == HubLists /\ HubClients /\ HubSafety

\* The lists stay lists of clients that were taken in when more clients are.
LEMMA ListsGrow ==
    ASSUME HubLists, Joined \subseteq Joined', UNCHANGED <<phMap, phUsers, phTables, phCopy, phTodo>>
    PROVE  HubLists'
<1>1. \A s \in Seq(Joined) : s \in Seq(Joined')
  OBVIOUS
<1> QED BY <1>1 DEF HubLists

\* A client goes from one place to another.
LEMMA Goes ==
    ASSUME phConn \in [Clients -> HubPlaces], NEW c \in Clients, NEW place \in HubPlaces, At(c, place)
    PROVE  /\ phConn' \in [Clients -> HubPlaces] /\ phConn'[c] = place
           /\ \A d \in Clients \ {c} : phConn'[d] = phConn[d]
           /\ place \notin {"out", "joining"} => Joined' = Joined \cup {c}
           /\ phConn[c] \in {"out", "joining"} /\ place \in {"out", "joining"} => Joined' = Joined
BY DEF At, Joined

\* A hub without clients is in order.
LEMMA HubInitially == PhInit => PhIInv
<1> SUFFICES ASSUME PhInit PROVE PhIInv
  OBVIOUS
<1>1. Joined = {}
  BY DEF PhInit, Joined
<1>2. HubLists
  BY <1>1, FS_EmptySet DEF PhInit, HubLists, HubUsers
<1>3. HubClients
  BY DEF PhInit, HubClients, HubPlaces
<1>4. HubSafety
  BY DEF PhInit, HubSafety, RegisteredIsOpen, RegisteredIsListed, ViewerIsListed, GoneIsForgotten
<1> QED BY <1>2, <1>3, <1>4 DEF PhIInv

\* A step that leaves the maps and the channels alone.
LEMMA HubQuiet ==
    ASSUME PhIInv, NEW c \in Clients, NEW place \in HubPlaces, At(c, place),
           UNCHANGED <<phMap, phUsers, phTables, phTable, phOpen, phTodo, phLost>>,
           phCopy' = phCopy \/ phCopy' = [phCopy EXCEPT ![c] = phTables[phTable[c]]],
           phTable[c] # NoTable \/ phCopy' = phCopy,
           place = "left table" => phTable[c] # NoTable,
           \/ phConn[c] \in {"out", "joining"} /\ place \in {"out", "joining"}
           \/ phConn[c] \notin {"out", "joining"} /\ place \in {"reading", "answering", "left table", "leaving"}
    PROVE  PhIInv'
<1> USE DEF PhIInv
<1>1. /\ phConn' \in [Clients -> HubPlaces] /\ phConn'[c] = place
      /\ \A d \in Clients \ {c} : phConn'[d] = phConn[d]
      /\ Joined' = Joined
  BY Goes DEF HubClients, Joined
<1>2. HubLists'
  BY <1>1 DEF HubLists, HubClients
<1>3. HubClients'
  BY <1>1 DEF HubClients
<1>4. HubSafety'
  BY <1>1 DEF HubSafety, RegisteredIsOpen, RegisteredIsListed, ViewerIsListed, GoneIsForgotten, HubLists, Joined
<1> QED BY <1>2, <1>3, <1>4

\* A connection is upgraded and asks to be registered.
LEMMA ServeMoves == ASSUME PhIInv, NEW c \in Clients, ServeWS(c) PROVE PhIInv'
BY HubQuiet DEF ServeWS, phPresence, HubPlaces

\* A client asks to leave its table: its list is copied.
LEMMA LeaveMoves == ASSUME PhIInv, NEW c \in Clients, LeaveTable(c) PROVE PhIInv'
BY HubQuiet DEF LeaveTable, phPresence, HubPlaces

\* readPump ends, and the client is to be unregistered.
LEMMA ReadPumpMoves == ASSUME PhIInv, NEW c \in Clients, ReadPump(c) PROVE PhIInv'
BY HubQuiet DEF ReadPump, phPresence, HubPlaces

\* A step that changes no client's place, list, table or channel.
LEMMA HubSame ==
    ASSUME PhIInv, UNCHANGED <<phConn, phMap, phUsers, phTables, phTable, phOpen, phTodo, phCopy, phLost>>
    PROVE  PhIInv'
<1>1. Joined' = Joined
  BY DEF Joined
<1> QED BY <1>1 DEF PhIInv, HubLists, HubClients, HubSafety, RegisteredIsOpen, RegisteredIsListed,
                    ViewerIsListed, GoneIsForgotten

\* A direct answer goes to the client's channel, if that is open.
LEMMA AnswerClientMoves == ASSUME PhIInv, NEW c \in Clients, AnswerClient(c) PROVE PhIInv'
<1>1. CASE c \notin phOpen
  BY <1>1, HubSame DEF AnswerClient, phPresence
<1>2. CASE c \in phOpen
  BY <1>2, HubQuiet DEF AnswerClient, phPresence, HubPlaces
<1> QED BY <1>1, <1>2

\* writePump sends what is queued.
LEMMA WritePumpMoves == ASSUME PhIInv, NEW c \in Clients, WritePump(c) PROVE PhIInv'
BY HubSame DEF WritePump, phPresence

\* The hub enters a client in its map and in its user's list.
LEMMA RegisterMoves == ASSUME PhIInv, NEW c \in Clients, RegisterClient(c) PROVE PhIInv'
<1> USE DEF PhIInv
<1>1. /\ phConn[c] = "joining" /\ At(c, "reading") /\ phMap' = phMap \cup {c}
      /\ phUsers' = [phUsers EXCEPT ![UserOf[c]] = Append(@, c)]
      /\ UNCHANGED <<phTables, phTable, phOpen, phTodo, phCopy, phLost>>
  BY DEF RegisterClient
<1>2. /\ phConn' \in [Clients -> HubPlaces] /\ phConn'[c] = "reading"
      /\ \A d \in Clients \ {c} : phConn'[d] = phConn[d]
      /\ Joined' = Joined \cup {c} /\ c \notin Joined
  BY <1>1, Goes DEF HubClients, Joined, HubPlaces
<1>3. /\ \A s \in Seq(Joined) : s \in Seq(Joined')
      /\ \A s \in Seq(Joined) : Append(s, c) \in Seq(Joined')
  BY <1>2
<1>4. HubLists'
  BY <1>1, <1>2, <1>3, FS_AddElement DEF HubLists
<1>5. HubClients'
  BY <1>1, <1>2 DEF HubClients
<1>6. \A s \in Seq(Joined) : /\ Contains(Append(s, c), c)
                             /\ \A d : Contains(s, d) => Contains(Append(s, c), d)
  BY DEF Contains
<1>7. UserOf[c] \in HubUsers /\ phUsers \in [HubUsers -> Seq(Joined)]
  BY DEF HubUsers, HubLists
<1>8. RegisteredIsListed'
  BY <1>1, <1>6, <1>7 DEF HubSafety, RegisteredIsListed, HubUsers, HubLists, Joined
<1>9. RegisteredIsOpen' /\ ViewerIsListed' /\ GoneIsForgotten'
  BY <1>1, <1>2 DEF HubSafety, RegisteredIsOpen, ViewerIsListed, GoneIsForgotten, HubClients
<1> QED BY <1>4, <1>5, <1>8, <1>9 DEF HubSafety

\* The hub forgets a client everywhere and closes its channel.
LEMMA UnregisterMoves == ASSUME PhIInv, NEW c \in Clients, UnregisterClient(c) PROVE PhIInv'
<1> USE DEF PhIInv
<1>1. /\ phConn[c] = "leaving" /\ At(c, "gone")
      /\ UNCHANGED <<phTable, phTodo, phCopy, phLost>>
  BY DEF UnregisterClient
<1>2. /\ phConn' \in [Clients -> HubPlaces] /\ phConn'[c] = "gone"
      /\ \A d \in Clients \ {c} : phConn'[d] = phConn[d]
      /\ Joined' = Joined /\ c \in Joined
  BY <1>1, Goes DEF HubClients, Joined, HubPlaces
<1>3. CASE c \notin phMap
  <2>1. UNCHANGED <<phMap, phOpen, phUsers, phTables>>
    BY <1>3 DEF UnregisterClient
  <2>2. HubLists' /\ HubClients'
    BY <1>1, <1>2, <2>1 DEF HubLists, HubClients
  <2>3. HubSafety'
    BY <1>1, <1>2, <1>3, <2>1 DEF HubSafety, RegisteredIsOpen, RegisteredIsListed, ViewerIsListed, GoneIsForgotten
  <2> QED BY <2>2, <2>3
<1>4. CASE c \in phMap
  <2>1. /\ phMap' = phMap \ {c} /\ phOpen' = phOpen \ {c}
        /\ phUsers' = [phUsers EXCEPT ![UserOf[c]] = Without(@, c)]
        /\ phTables' = IF phTable[c] = NoTable THEN phTables
                       ELSE [phTables EXCEPT ![phTable[c]] = Without(@, c)]
    BY <1>4 DEF UnregisterClient
  <2>2. /\ \A s \in Seq(Joined) : Without(s, c) \in Seq(Joined)
        /\ \A s \in Seq(Joined) : \A d : Contains(s, d) /\ d # c => Contains(Without(s, c), d)
    BY WithoutKeeps
  <2>3. HubLists'
    BY <1>1, <1>2, <2>1, <2>2, FS_RemoveElement DEF HubLists
  <2>4. HubClients'
    BY <1>1, <1>2, <2>1 DEF HubClients
  <2>5. RegisteredIsOpen' /\ GoneIsForgotten'
    BY <1>2, <2>1 DEF HubSafety, RegisteredIsOpen, GoneIsForgotten
  <2>6. RegisteredIsListed'
    <3>1. \A d \in phMap' : d \in phMap /\ d # c /\ UserOf[d] \in HubUsers
      BY <2>1 DEF HubUsers, HubLists, Joined
    <3>2. \A d \in phMap' : Contains(phUsers[UserOf[d]], d) /\ phUsers[UserOf[d]] \in Seq(Joined)
      BY <3>1 DEF HubSafety, RegisteredIsListed, HubLists
    <3> QED BY <2>1, <2>2, <3>1, <3>2 DEF RegisteredIsListed, HubLists
  <2>7. ViewerIsListed'
    <3> SUFFICES ASSUME ~phLost, NEW d \in phMap', phTable[d] # NoTable
                 PROVE  Contains(phTables'[phTable[d]], d)
      BY <1>1 DEF ViewerIsListed
    <3>1. d \in phMap /\ d # c /\ d \in Clients
      BY <2>1 DEF HubLists, Joined
    <3>2. phTable[d] \in Tables
      BY <3>1 DEF HubClients
    <3>3. Contains(phTables[phTable[d]], d) /\ phTables[phTable[d]] \in Seq(Joined)
      BY <3>1, <3>2 DEF HubSafety, ViewerIsListed, HubLists
    <3> QED BY <2>1, <2>2, <3>1, <3>2, <3>3 DEF HubLists
  <2> QED BY <2>3, <2>4, <2>5, <2>6, <2>7 DEF HubSafety
<1> QED BY <1>3, <1>4

\* A broadcast starts with a list of clients that were taken in, whichever map it is from.
LEMMA BroadcastStarts ==
    ASSUME PhIInv, NEW b \in Broadcasters, NEW list \in Seq(Joined), phTodo' = [phTodo EXCEPT ![b] = list],
           UNCHANGED <<phConn, phMap, phUsers, phTables, phTable, phOpen, phCopy, phLost>>
    PROVE  PhIInv'
<1>1. Joined' = Joined
  BY DEF Joined
<1> QED BY <1>1 DEF PhIInv, HubLists, HubClients, HubSafety, RegisteredIsOpen, RegisteredIsListed,
                    ViewerIsListed, GoneIsForgotten

\* The hub's loop takes a broadcast from the queue, for all clients in any order.
LEMMA QueueMoves == ASSUME PhIInv, BroadcastMessage PROVE PhIInv'
<1>1. PICK order \in SetToSeqs(phMap) : phTodo' = [phTodo EXCEPT ![Hub] = order]
  BY DEF BroadcastMessage
<1>2. order \in [1 .. Cardinality(phMap) -> Joined]
  BY DEF SetToSeqs, PhIInv, HubLists
<1>3. order \in Seq(Joined)
  <2>1. IsFiniteSet(phMap)
    BY DEF PhIInv, HubLists
  <2>2. Cardinality(phMap) \in Nat
    BY <2>1, FS_CardinalityType
  <2> QED BY <1>2, <2>2
<1> QED BY <1>1, <1>3, BroadcastStarts DEF BroadcastMessage, phPresence, Broadcasters

\* A handler queues a message for all, or starts a broadcast to a table's or a user's clients.
LEMMA PostMoves == ASSUME PhIInv, NEW p \in Posters, PostMessage(p) PROVE PhIInv'
<1>1. CASE UNCHANGED phTodo
  BY <1>1, HubSame DEF PostMessage, phPresence
<1>2. ASSUME NEW list \in {phTables[t] : t \in Tables} \cup {phUsers[u] : u \in DOMAIN phUsers},
             phTodo' = [phTodo EXCEPT ![p] = list]
      PROVE  PhIInv'
  <2>1. list \in Seq(Joined)
    BY DEF PhIInv, HubLists
  <2> QED BY <1>2, <2>1, BroadcastStarts DEF PostMessage, phPresence, Broadcasters
<1> QED BY <1>1, <1>2 DEF PostMessage

\* A client whose channel is closed for its backlog was taken in, and is forgotten with it.
LEMMA BroadcastMoves == ASSUME PhIInv, NEW b \in Broadcasters, BroadcastTo(b) PROVE PhIInv'
<1> USE DEF PhIInv
<1> DEFINE c == Head(phTodo[b])
<1>1. /\ phTodo[b] # <<>> /\ UNCHANGED <<phConn, phUsers, phTables, phTable, phCopy, phLost>>
      /\ phTodo' = [phTodo EXCEPT ![b] = Tail(@)] \/ phTodo' = [phTodo EXCEPT ![b] = <<>>]
      /\ \/ UNCHANGED <<phMap, phOpen>>
         \/ phOpen' = phOpen \ {c} /\ phMap' = phMap \ {c}
  BY DEF BroadcastTo, phPresence
<1>2. phTodo[b] \in Seq(Joined)
  BY DEF HubLists
<1>3. c \in Joined /\ Tail(phTodo[b]) \in Seq(Joined) /\ <<>> \in Seq(Joined)
  BY <1>1, <1>2
<1>4. Joined' = Joined
  BY <1>1 DEF Joined
<1> HIDE DEF c
<1>5. HubLists'
  <2>1. phMap' \subseteq Joined /\ IsFiniteSet(phMap')
    <3>1. IsFiniteSet(phMap \ {c})
      BY FS_RemoveElement DEF HubLists
    <3>2. phMap' = phMap \/ phMap' = phMap \ {c}
      BY <1>1
    <3> QED BY <3>1, <3>2 DEF HubLists
  <2>2. phTodo' \in [Broadcasters -> Seq(Joined)]
    BY <1>1, <1>3 DEF HubLists
  <2> QED BY <1>1, <1>4, <2>1, <2>2 DEF HubLists
<1>6. HubClients'
  BY <1>1, <1>3, <1>4 DEF HubClients
<1>7. HubSafety'
  BY <1>1 DEF HubSafety, RegisteredIsOpen, RegisteredIsListed, ViewerIsListed, GoneIsForgotten
<1> QED BY <1>5, <1>6, <1>7

\* A client joins a table, and is first taken off the one it was at.
LEMMA JoinMoves == ASSUME PhIInv, NEW c \in Clients, NEW t \in Tables, JoinTable(c, t) PROVE PhIInv'
<1> USE DEF PhIInv
<1> DEFINE from == phTable[c]
           left == IF from \in Tables \ {t} THEN [phTables EXCEPT ![from] = Without(@, c)] ELSE phTables
<1>1. /\ phConn[c] = "reading" /\ At(c, "answering")
      /\ phTables' = [left EXCEPT ![t] = Append(@, c)] /\ phTable' = [phTable EXCEPT ![c] = t]
      /\ UNCHANGED <<phMap, phUsers, phOpen, phTodo, phCopy, phLost>>
  BY DEF JoinTable
<1>2. /\ phConn' \in [Clients -> HubPlaces] /\ phConn'[c] = "answering"
      /\ \A d \in Clients \ {c} : phConn'[d] = phConn[d]
      /\ Joined' = Joined /\ c \in Joined
  BY <1>1, Goes DEF HubClients, Joined, HubPlaces
<1>3. /\ \A s \in Seq(Joined) : Without(s, c) \in Seq(Joined)
      /\ \A s \in Seq(Joined) : \A d : Contains(s, d) /\ d # c => Contains(Without(s, c), d)
  BY WithoutKeeps
<1>4. /\ \A s \in Seq(Joined) : Append(s, c) \in Seq(Joined) /\ Contains(Append(s, c), c)
      /\ \A s \in Seq(Joined) : \A d : Contains(s, d) => Contains(Append(s, c), d)
  BY <1>2 DEF Contains
<1>5. /\ left \in [Tables -> Seq(Joined)]
      /\ \A u \in Tables : \A d : Contains(phTables[u], d) /\ d # c => Contains(left[u], d)
  BY <1>3 DEF HubLists
<1> HIDE DEF left
<1>6. /\ phTables' \in [Tables -> Seq(Joined)]
      /\ \A u \in Tables : \A d : Contains(phTables[u], d) /\ d # c => Contains(phTables'[u], d)
      /\ Contains(phTables'[t], c)
  BY <1>1, <1>4, <1>5
<1>7. HubLists'
  BY <1>1, <1>2, <1>6 DEF HubLists
<1>8. HubClients'
  BY <1>1, <1>2 DEF HubClients
<1>9. RegisteredIsOpen' /\ RegisteredIsListed' /\ GoneIsForgotten'
  BY <1>1, <1>2 DEF HubSafety, RegisteredIsOpen, RegisteredIsListed, GoneIsForgotten
<1>10. ViewerIsListed'
  <2> SUFFICES ASSUME ~phLost, NEW d \in phMap, phTable'[d] # NoTable
               PROVE  Contains(phTables'[phTable'[d]], d)
    BY <1>1 DEF ViewerIsListed
  <2>1. d \in Clients /\ phTable \in [Clients -> Tables \cup {NoTable}]
    BY DEF HubLists, HubClients, Joined
  <2>2. CASE d = c
    BY <1>1, <1>6, <2>1, <2>2
  <2>3. CASE d # c
    <3>1. phTable'[d] = phTable[d] /\ phTable[d] \in Tables
      BY <1>1, <2>1, <2>3
    <3>2. Contains(phTables[phTable[d]], d)
      BY <3>1 DEF HubSafety, ViewerIsListed
    <3> QED BY <1>6, <2>3, <3>1, <3>2
  <2> QED BY <2>2, <2>3
<1> QED BY <1>7, <1>8, <1>9, <1>10 DEF HubSafety

\* As long as nothing was written over, what leave_table writes back is the list without the client.
LEMMA WriteMoves == ASSUME PhIInv, NEW c \in Clients, WriteTable(c) PROVE PhIInv'
<1> USE DEF PhIInv
<1> DEFINE t == phTable[c]
<1>1. /\ phConn[c] = "left table" /\ At(c, "reading")
      /\ phTables' = [phTables EXCEPT ![t] = Without(phCopy[c], c)]
      /\ phTable' = [phTable EXCEPT ![c] = NoTable]
      /\ phLost' = (phLost \/ phTables[t] # phCopy[c])
      /\ phCopy' = [phCopy EXCEPT ![c] = <<>>]
      /\ UNCHANGED <<phMap, phUsers, phOpen, phTodo>>
  BY DEF WriteTable
<1>2. /\ phConn' \in [Clients -> HubPlaces] /\ phConn'[c] = "reading"
      /\ \A d \in Clients \ {c} : phConn'[d] = phConn[d]
      /\ Joined' = Joined /\ c \in Joined
  BY <1>1, Goes DEF HubClients, Joined, HubPlaces
<1>3. t \in Tables /\ phCopy[c] \in Seq(Joined)
  BY <1>1 DEF HubClients, HubLists
<1>4. /\ Without(phCopy[c], c) \in Seq(Joined)
      /\ \A d : Contains(phCopy[c], d) /\ d # c => Contains(Without(phCopy[c], c), d)
  BY <1>3, WithoutKeeps
<1>5. HubLists'
  <2>1. phTables' \in [Tables -> Seq(Joined)]
    BY <1>1, <1>4 DEF HubLists
  <2>2. phCopy' \in [Clients -> Seq(Joined)]
    <3>1. <<>> \in Seq(Joined)
      OBVIOUS
    <3> QED BY <1>1, <3>1 DEF HubLists
  <2> QED BY <1>1, <1>2, <2>1, <2>2 DEF HubLists
<1>6. HubClients'
  BY <1>1, <1>2 DEF HubClients
<1>7. RegisteredIsOpen' /\ RegisteredIsListed' /\ GoneIsForgotten'
  BY <1>1, <1>2 DEF HubSafety, RegisteredIsOpen, RegisteredIsListed, GoneIsForgotten
<1>8. ViewerIsListed'
  <2> SUFFICES ASSUME ~phLost', NEW d \in phMap, phTable'[d] # NoTable
               PROVE  Contains(phTables'[phTable'[d]], d)
    BY <1>1 DEF ViewerIsListed
  <2>1. d \in Clients /\ phTable \in [Clients -> Tables \cup {NoTable}] /\ phTables \in [Tables -> Seq(Joined)]
    BY DEF HubLists, HubClients, Joined
  <2>2. d # c /\ phTable'[d] = phTable[d] /\ phTable[d] \in Tables
    BY <1>1, <2>1
  <2>3. ~phLost /\ phTables[t] = phCopy[c]
    BY <1>1
  <2>4. Contains(phTables[phTable[d]], d)
    BY <2>2, <2>3 DEF HubSafety, ViewerIsListed
  <2> QED BY <1>1, <1>3, <1>4, <2>1, <2>2, <2>3, <2>4
<1> QED BY <1>5, <1>6, <1>7, <1>8 DEF HubSafety

\* Every action of the hub keeps the invariant.
LEMMA HubStep == PhIInv /\ [PhNext]_phVars => PhIInv'
<1> SUFFICES ASSUME PhIInv, [PhNext]_phVars PROVE PhIInv'
  OBVIOUS
<1>1. CASE PhNext
  BY <1>1, ServeMoves, RegisterMoves, UnregisterMoves, AnswerClientMoves, LeaveMoves, WriteMoves, WritePumpMoves,
     ReadPumpMoves, JoinMoves, QueueMoves, PostMoves, BroadcastMoves DEF PhNext
<1>2. CASE UNCHANGED phVars
  BY <1>2, HubSame DEF phVars
<1> QED BY <1>1, <1>2

\* The hub's maps agree with each other and with the channels, for any clients, users and tables.
THEOREM HubAgrees == PhSpec => []HubSafety
<1>1. PhIInv => HubSafety
  BY DEF PhIInv
<1> QED BY <1>1, HubInitially, HubStep, PTL DEF PhSpec

(***************************************************************************)
(* The permission service and its client.                                  *)
(***************************************************************************)
CheckPlaces == {"idle", "cache", "direct", "role", "set", "act", "invalidate"}
CheckType == [at : CheckPlaces, kind : {"check", "grant", "revoke", "role"}, by : PermUsers, of : PermUsers,
              row : SUBSET ResourcePermission, answer : {"allow", "deny"}, stale : BOOLEAN]

PmTypes ==
    /\ pmReq \in [PermRequests -> CheckType] /\ pmRows \subseteq ResourcePermission
    /\ pmCache \in [PermUsers -> {"none", "allow", "deny"}] /\ pmLate \in [PermUsers -> BOOLEAN]

\* What a check has read is still so, or it knows that it is not.
ReadHolds(q) ==
    ~q.stale => /\ q.at = "role" => RowsOf(q.by) = {}
                /\ q.at = "set" => q.answer \in Decisions(q.by)
\* A revocation changes the row of the user whose answers it drops.
RowIsOf(q) == \A row \in q.row : row.user = q.of

PmIInv == PmTypes /\ (\A r \in PermRequests : ReadHolds(pmReq[r]) /\ RowIsOf(pmReq[r])) /\ CacheIsCurrent

\* What a change of a user's rows does to a check under way: it only makes it late.
LEMMA SpoilsFields ==
    ASSUME NEW u, NEW q \in CheckType
    PROVE  /\ Spoils(u, q) \in CheckType
           /\ Spoils(u, q).at = q.at /\ Spoils(u, q).by = q.by /\ Spoils(u, q).of = q.of
           /\ Spoils(u, q).row = q.row /\ Spoils(u, q).answer = q.answer /\ Spoils(u, q).kind = q.kind
           /\ ~Spoils(u, q).stale => ~q.stale /\ ~(q.by = u /\ q.at \in {"role", "set"})
BY DEF Spoils, CheckType

\* A check that is over knows nothing and owes nothing.
LEMMA IdleCheckFields ==
    ASSUME NEW u \in PermUsers
    PROVE  /\ IdleCheck(u) \in CheckType /\ IdleCheck(u).at = "idle" /\ IdleCheck(u).row = {}
           /\ ReadHolds(IdleCheck(u)) /\ RowIsOf(IdleCheck(u))
BY DEF IdleCheck, CheckType, CheckPlaces, ReadHolds, RowIsOf

\* A step of one request that changes no table: what is owed may not be forgotten.
LEMMA CheckMoves ==
    ASSUME PmIInv, NEW r \in PermRequests, NEW q \in CheckType, pmReq' = [pmReq EXCEPT ![r] = q],
           UNCHANGED <<pmRows, pmHeld>>, ReadHolds(q), RowIsOf(q),
           pmReq[r].at # "invalidate", q.at # "invalidate",
           \/ UNCHANGED <<pmCache, pmLate>>
           \/ \E u \in PermUsers, answer \in {"allow", "deny"}, late \in BOOLEAN :
                 /\ pmCache' = [pmCache EXCEPT ![u] = answer] /\ pmLate' = [pmLate EXCEPT ![u] = late]
                 /\ late \/ answer \in Decisions(u)
    PROVE  PmIInv'
<1> USE DEF PmIInv
<1>1. \A u \in PermUsers : RowsOf(u)' = RowsOf(u) /\ Decisions(u)' = Decisions(u)
  BY DEF RowsOf, Decisions
<1>2. \A s \in PermRequests : pmReq'[s] = IF s = r THEN q ELSE pmReq[s]
  BY DEF PmTypes
<1>3. PmTypes'
  BY DEF PmTypes
<1>4. \A s \in PermRequests : ReadHolds(pmReq[s])' /\ RowIsOf(pmReq[s])'
  <2>1. \A s \in PermRequests : pmReq'[s] \in CheckType /\ ReadHolds(pmReq'[s]) /\ RowIsOf(pmReq'[s])
    BY <1>2 DEF PmTypes
  <2>2. \A s \in PermRequests : pmReq'[s].by \in PermUsers
    BY <2>1 DEF CheckType
  <2> QED BY <1>1, <2>1, <2>2 DEF ReadHolds, RowIsOf
<1>5. CacheIsCurrent'
  <2>1. \A s \in PermRequests : /\ AtStep(s, "invalidate")' <=> AtStep(s, "invalidate")
                                /\ AtStep(s, "invalidate") => pmReq'[s].of = pmReq[s].of
    BY <1>2 DEF AtStep
  <2> QED BY <1>1, <2>1 DEF CacheIsCurrent, PmTypes
<1> QED BY <1>3, <1>4, <1>5

\* With its answer, a check makes room for the handler's work, or is over.
LEMMA AnsweredFields ==
    ASSUME NEW q \in CheckType, NEW answer, answer \in {"none", "allow", "deny"}, RowIsOf(q)
    PROVE  /\ Answered(q, answer) \in CheckType /\ Answered(q, answer).at \in {"act", "idle"}
           /\ ReadHolds(Answered(q, answer)) /\ RowIsOf(Answered(q, answer))
<1>1. q.by \in PermUsers
  BY DEF CheckType
<1>2. CASE q.kind # "check" /\ answer = "allow"
  <2> DEFINE a == [q EXCEPT !.answer = answer, !.at = "act"]
  <2>1. a \in CheckType /\ a.at = "act" /\ a.row = q.row /\ a.of = q.of
    BY <1>2 DEF CheckType, CheckPlaces
  <2>2. Answered(q, answer) = a
    BY <1>2 DEF Answered
  <2> HIDE DEF a
  <2> QED BY <2>1, <2>2 DEF ReadHolds, RowIsOf
<1>3. CASE ~(q.kind # "check" /\ answer = "allow")
  BY <1>1, <1>3, IdleCheckFields DEF Answered
<1> QED BY <1>2, <1>3

\* A request to check, grant or revoke arrives.
LEMMA AskMoves == ASSUME PmIInv, NEW r \in PermRequests, Ask(r) PROVE PmIInv'
<1> USE DEF PmIInv
<1>1. PICK kind \in {"check", "grant", "revoke", "role"}, by \in PermUsers, of \in PermUsers :
          \E row \in IF kind = "revoke" THEN pmRows ELSE {[id |-> 0, user |-> of, effect |-> "allow"]} :
             /\ kind = "revoke" => row.user = of
             /\ pmReq' = [pmReq EXCEPT ![r] = [IdleCheck(by) EXCEPT
                             !.at = "cache", !.kind = kind, !.of = of,
                             !.row = IF kind = "revoke" THEN {row} ELSE {}]]
  BY DEF Ask
<1>2. PICK row \in IF kind = "revoke" THEN pmRows ELSE {[id |-> 0, user |-> of, effect |-> "allow"]} :
             /\ kind = "revoke" => row.user = of
             /\ pmReq' = [pmReq EXCEPT ![r] = [IdleCheck(by) EXCEPT
                             !.at = "cache", !.kind = kind, !.of = of,
                             !.row = IF kind = "revoke" THEN {row} ELSE {}]]
  BY <1>1
<1> DEFINE q == [IdleCheck(by) EXCEPT !.at = "cache", !.kind = kind, !.of = of,
                             !.row = IF kind = "revoke" THEN {row} ELSE {}]
<1>3. /\ q \in CheckType /\ q.at = "cache" /\ q.of = of
      /\ q.row = IF kind = "revoke" THEN {row} ELSE {}
  <2>1. kind = "revoke" => row \in ResourcePermission
    BY <1>2 DEF PmTypes
  <2> QED BY <2>1 DEF IdleCheck, CheckType, CheckPlaces
<1>4. pmReq' = [pmReq EXCEPT ![r] = q]
  BY <1>2
<1> HIDE DEF q
<1>5. ReadHolds(q) /\ RowIsOf(q)
  BY <1>2, <1>3 DEF ReadHolds, RowIsOf
<1>6. UNCHANGED <<pmRows, pmHeld, pmCache, pmLate>> /\ pmReq[r].at = "idle"
  BY DEF Ask, pmStore, AtStep
<1> QED BY <1>3, <1>4, <1>5, <1>6, CheckMoves

\* A check answers from the cache or goes on to the tables.
LEMMA ReadCacheMoves == ASSUME PmIInv, NEW r \in PermRequests, ReadCache(r) PROVE PmIInv'
<1> USE DEF PmIInv
<1>1. pmReq[r] \in CheckType /\ RowIsOf(pmReq[r]) /\ pmReq[r].by \in PermUsers
  BY DEF PmTypes, CheckType
<1>2. UNCHANGED <<pmRows, pmHeld, pmCache, pmLate>> /\ pmReq[r].at = "cache"
  BY DEF ReadCache, pmStore, AtStep
<1>3. CASE pmReq' = [pmReq EXCEPT ![r] = Answered(@, pmCache[@.by])]
  <2>1. pmReq' = [pmReq EXCEPT ![r] = Answered(pmReq[r], pmCache[pmReq[r].by])]
    BY <1>3
  <2>2. pmCache[pmReq[r].by] \in {"none", "allow", "deny"}
    BY <1>1 DEF PmTypes
  <2> QED BY <1>1, <1>2, <2>1, <2>2, AnsweredFields, CheckMoves
<1>4. CASE Moves(r, "direct")
  <2> DEFINE q == [pmReq[r] EXCEPT !.at = "direct"]
  <2>1. pmReq' = [pmReq EXCEPT ![r] = q]
    BY <1>4 DEF Moves
  <2>2. q \in CheckType /\ q.at = "direct" /\ q.of = pmReq[r].of /\ q.row = pmReq[r].row
    BY <1>1 DEF CheckType, CheckPlaces
  <2> HIDE DEF q
  <2>3. ReadHolds(q) /\ RowIsOf(q)
    BY <1>1, <2>2 DEF ReadHolds, RowIsOf
  <2> QED BY <1>2, <2>1, <2>2, <2>3, CheckMoves
<1> QED BY <1>3, <1>4 DEF ReadCache

\* The direct permissions are read: what they say now is what the check has read.
LEMMA DirectMoves == ASSUME PmIInv, NEW r \in PermRequests, CheckDirectPermission(r) PROVE PmIInv'
<1> USE DEF PmIInv
<1> DEFINE u == pmReq[r].by
<1>1. pmReq[r] \in CheckType /\ RowIsOf(pmReq[r]) /\ u \in PermUsers
  BY DEF PmTypes, CheckType
<1>2. UNCHANGED <<pmRows, pmHeld, pmCache, pmLate>> /\ pmReq[r].at = "direct"
  BY DEF CheckDirectPermission, pmStore, AtStep
<1>3. ASSUME NEW row \in RowsOf(u), pmReq' = [pmReq EXCEPT ![r].at = "set", ![r].answer = row.effect]
      PROVE  PmIInv'
  <2> DEFINE q == [[pmReq[r] EXCEPT !.at = "set"] EXCEPT !.answer = row.effect]
  <2>1. pmReq' = [pmReq EXCEPT ![r] = q]
    BY <1>3 DEF PmTypes
  <2>2. row.effect \in {"allow", "deny"} /\ row.effect \in Decisions(u)
    BY DEF RowsOf, Decisions, PmTypes, ResourcePermission
  <2>3. /\ q \in CheckType /\ q.at = "set" /\ q.of = pmReq[r].of /\ q.row = pmReq[r].row /\ q.by = u
        /\ q.answer = row.effect
    BY <1>1, <2>2 DEF CheckType, CheckPlaces
  <2> HIDE DEF q
  <2>4. ReadHolds(q) /\ RowIsOf(q)
    BY <1>1, <2>2, <2>3 DEF ReadHolds, RowIsOf
  <2> QED BY <1>2, <2>1, <2>3, <2>4, CheckMoves
<1>4. ASSUME NEW q \in CheckType, pmReq' = [pmReq EXCEPT ![r] = q],
             q.at = "role", q.of = pmReq[r].of, q.row = pmReq[r].row, q.by = u, q.stale \/ RowsOf(u) = {}
      PROVE  PmIInv'
  <2>1. ReadHolds(q) /\ RowIsOf(q)
    BY <1>1, <1>4 DEF ReadHolds, RowIsOf
  <2> QED BY <1>2, <1>4, <2>1, CheckMoves
<1>5. CASE RowsOf(u) = {} /\ Moves(r, "role")
  <2> DEFINE q == [pmReq[r] EXCEPT !.at = "role"]
  <2>1. pmReq' = [pmReq EXCEPT ![r] = q]
    BY <1>5 DEF Moves
  <2>2. q \in CheckType /\ q.at = "role" /\ q.of = pmReq[r].of /\ q.row = pmReq[r].row /\ q.by = u
    BY <1>1 DEF CheckType, CheckPlaces
  <2> HIDE DEF q
  <2> QED BY <1>4, <1>5, <2>1, <2>2
<1>6. CASE pmReq' = [pmReq EXCEPT ![r].at = "role", ![r].stale = TRUE]
  <2> DEFINE q == [[pmReq[r] EXCEPT !.at = "role"] EXCEPT !.stale = TRUE]
  <2>1. pmReq' = [pmReq EXCEPT ![r] = q]
    BY <1>6 DEF PmTypes
  <2>2. /\ q \in CheckType /\ q.at = "role" /\ q.of = pmReq[r].of /\ q.row = pmReq[r].row /\ q.by = u
        /\ q.stale = TRUE
    BY <1>1 DEF CheckType, CheckPlaces
  <2> HIDE DEF q
  <2> QED BY <1>4, <2>1, <2>2
<1> QED BY <1>3, <1>5, <1>6 DEF CheckDirectPermission

\* The permissions of the user's roles are read, if the direct ones did not decide.
LEMMA RoleMoves == ASSUME PmIInv, NEW r \in PermRequests, CheckRoleBasedPermission(r) PROVE PmIInv'
<1> USE DEF PmIInv
<1> DEFINE u == pmReq[r].by
<1>1. pmReq[r] \in CheckType /\ RowIsOf(pmReq[r]) /\ ReadHolds(pmReq[r]) /\ u \in PermUsers
  BY DEF PmTypes, CheckType
<1>2. UNCHANGED <<pmRows, pmHeld, pmCache, pmLate>> /\ pmReq[r].at = "role"
  BY DEF CheckRoleBasedPermission, pmStore, AtStep
<1>3. ASSUME NEW q \in CheckType, pmReq' = [pmReq EXCEPT ![r] = q],
             q.at = "set", q.of = pmReq[r].of, q.row = pmReq[r].row, q.by = u,
             q.stale \/ (q.stale = pmReq[r].stale /\ q.answer = IF u \in pmHeld THEN "allow" ELSE "deny")
      PROVE  PmIInv'
  <2>1. ~q.stale => q.answer \in Decisions(u)
    BY <1>1, <1>2, <1>3 DEF ReadHolds, Decisions
  <2>2. ReadHolds(q) /\ RowIsOf(q)
    BY <1>1, <1>3, <2>1 DEF ReadHolds, RowIsOf
  <2> QED BY <1>2, <1>3, <2>2, CheckMoves
<1>4. CASE pmReq' = [pmReq EXCEPT ![r].at = "set", ![r].answer = IF pmReq[r].by \in pmHeld THEN "allow" ELSE "deny"]
  <2> DEFINE answer == IF u \in pmHeld THEN "allow" ELSE "deny"
             q == [[pmReq[r] EXCEPT !.at = "set"] EXCEPT !.answer = answer]
  <2>1. pmReq' = [pmReq EXCEPT ![r] = q]
    BY <1>4 DEF PmTypes
  <2>2. /\ q \in CheckType /\ q.at = "set" /\ q.of = pmReq[r].of /\ q.row = pmReq[r].row /\ q.by = u
        /\ q.stale = pmReq[r].stale /\ q.answer = answer
    BY <1>1 DEF CheckType, CheckPlaces
  <2> HIDE DEF q
  <2> QED BY <1>3, <2>1, <2>2
<1>5. CASE pmReq' = [pmReq EXCEPT ![r].at = "set", ![r].answer = "deny", ![r].stale = TRUE]
  <2> DEFINE q == [[[pmReq[r] EXCEPT !.at = "set"] EXCEPT !.answer = "deny"] EXCEPT !.stale = TRUE]
  <2>1. pmReq' = [pmReq EXCEPT ![r] = q]
    BY <1>5 DEF PmTypes
  <2>2. /\ q \in CheckType /\ q.at = "set" /\ q.of = pmReq[r].of /\ q.row = pmReq[r].row /\ q.by = u
        /\ q.stale = TRUE
    BY <1>1 DEF CheckType, CheckPlaces
  <2> HIDE DEF q
  <2> QED BY <1>3, <2>1, <2>2
<1> QED BY <1>4, <1>5 DEF CheckRoleBasedPermission

\* The answer is stored in the cache: it is what the tables say, or known to be late.
LEMMA AnswerIsCached == ASSUME PmIInv, NEW r \in PermRequests, CheckPermission(r) PROVE PmIInv'
<1> USE DEF PmIInv
<1> DEFINE u == pmReq[r].by
           answer == pmReq[r].answer
           late == pmReq[r].stale
           q == Answered(pmReq[r], answer)
<1>1. /\ pmReq[r] \in CheckType /\ RowIsOf(pmReq[r]) /\ ReadHolds(pmReq[r])
      /\ u \in PermUsers /\ answer \in {"allow", "deny"} /\ late \in BOOLEAN
  BY DEF PmTypes, CheckType
<1>2. UNCHANGED <<pmRows, pmHeld>> /\ pmReq[r].at = "set" /\ pmReq' = [pmReq EXCEPT ![r] = q]
  BY DEF CheckPermission, AtStep
<1>3. q \in CheckType /\ q.at \in {"act", "idle"} /\ ReadHolds(q) /\ RowIsOf(q)
  BY <1>1, AnsweredFields
<1>4. late \/ answer \in Decisions(u)
  BY <1>1, <1>2 DEF ReadHolds
<1>5. \/ UNCHANGED <<pmCache, pmLate>>
      \/ pmCache' = [pmCache EXCEPT ![u] = answer] /\ pmLate' = [pmLate EXCEPT ![u] = late]
  BY DEF CheckPermission
<1> HIDE DEF q
<1> QED BY <1>1, <1>2, <1>3, <1>4, <1>5, CheckMoves

\* A change of a user's rows makes every check under way of that user stale, and owes the removal
\* of the cached answers.
LEMMA RowsChange ==
    ASSUME PmIInv, NEW r \in PermRequests, NEW rows, rows \subseteq ResourcePermission, ChangesRows(r, rows),
           \A u \in PermUsers \ {pmReq[r].of} : {row \in rows : row.user = u} = RowsOf(u)
    PROVE  PmIInv'
<1> USE DEF PmIInv
<1> DEFINE v == pmReq[r].of
           seen(s) == Spoils(v, pmReq[s])
<1>1. \A s \in PermRequests : pmReq[s] \in CheckType
  BY DEF PmTypes
<1>2. \A s \in PermRequests : /\ seen(s) \in CheckType
                              /\ seen(s).at = pmReq[s].at /\ seen(s).by = pmReq[s].by /\ seen(s).of = pmReq[s].of
                              /\ seen(s).row = pmReq[s].row /\ seen(s).answer = pmReq[s].answer
                              /\ ~seen(s).stale => ~pmReq[s].stale /\ ~(pmReq[s].by = v /\ pmReq[s].at \in {"role", "set"})
  BY <1>1, SpoilsFields
<1>3. /\ pmRows' = rows /\ UNCHANGED <<pmHeld, pmCache, pmLate>>
      /\ pmReq' = [s \in PermRequests |-> IF s = r THEN [seen(s) EXCEPT !.at = "invalidate"] ELSE seen(s)]
  BY DEF ChangesRows
<1> HIDE DEF seen
<1> DEFINE q == [seen(r) EXCEPT !.at = "invalidate"]
<1>4. /\ q \in CheckType /\ q.at = "invalidate" /\ q.of = v /\ q.row = pmReq[r].row
  BY <1>2 DEF CheckType, CheckPlaces
<1>5. \A s \in PermRequests : pmReq'[s] = IF s = r THEN q ELSE seen(s)
  BY <1>3
<1> HIDE DEF q
<1>6. \A u \in PermUsers \ {v} : RowsOf(u)' = RowsOf(u) /\ Decisions(u)' = Decisions(u)
  BY <1>3 DEF RowsOf, Decisions
<1>7. PmTypes'
  BY <1>2, <1>3, <1>4 DEF PmTypes, q
<1>8. \A s \in PermRequests : RowIsOf(pmReq[s])'
  BY <1>2, <1>4, <1>5 DEF RowIsOf
<1>9. \A s \in PermRequests : ReadHolds(pmReq[s])'
  <2> SUFFICES ASSUME NEW s \in PermRequests PROVE ReadHolds(pmReq[s])'
    OBVIOUS
  <2>1. CASE s = r
    BY <1>4, <1>5, <2>1 DEF ReadHolds
  <2>2. CASE s # r
    <3>1. pmReq'[s] = seen(s) /\ pmReq[s].by \in PermUsers /\ ReadHolds(pmReq[s])
      BY <1>1, <1>5, <2>2 DEF CheckType
    <3> QED BY <1>2, <1>6, <3>1 DEF ReadHolds
  <2> QED BY <2>1, <2>2
<1>10. CacheIsCurrent'
  <2>1. \A s \in PermRequests : AtStep(s, "invalidate") => AtStep(s, "invalidate")' /\ pmReq'[s].of = pmReq[s].of
    BY <1>2, <1>4, <1>5 DEF AtStep
  <2>2. AtStep(r, "invalidate")' /\ pmReq'[r].of = v
    BY <1>4, <1>5 DEF AtStep
  <2> QED BY <1>3, <1>6, <2>1, <2>2 DEF CacheIsCurrent
<1> QED BY <1>7, <1>8, <1>9, <1>10

\* A handler ends without a change.
LEMMA NothingDone ==
    ASSUME PmIInv, NEW r \in PermRequests, pmReq[r].at = "act", NotDone(r)
    PROVE  PmIInv'
<1> USE DEF PmIInv
<1> DEFINE q == [pmReq[r] EXCEPT !.at = "idle"]
<1>1. pmReq[r] \in CheckType /\ RowIsOf(pmReq[r])
  BY DEF PmTypes
<1>2. pmReq' = [pmReq EXCEPT ![r] = q] /\ UNCHANGED <<pmRows, pmHeld, pmCache, pmLate>>
  BY DEF NotDone, Moves, pmStore
<1>3. q \in CheckType /\ q.at = "idle" /\ q.of = pmReq[r].of /\ q.row = pmReq[r].row
  BY <1>1 DEF CheckType, CheckPlaces
<1> HIDE DEF q
<1>4. ReadHolds(q) /\ RowIsOf(q)
  BY <1>1, <1>3 DEF ReadHolds, RowIsOf
<1> QED BY <1>2, <1>3, <1>4, CheckMoves

\* A grant inserts a row, or changes nothing.
LEMMA GrantMoves == ASSUME PmIInv, NEW r \in PermRequests, GrantPermission(r) PROVE PmIInv'
<1>1. pmReq[r].at = "act" /\ pmReq[r].of \in PermUsers /\ pmRows \subseteq ResourcePermission
  BY DEF GrantPermission, AtStep, PmIInv, PmTypes, CheckType
<1>2. ASSUME NEW id \in RowIds, NEW effect \in {"allow", "deny"},
             ChangesRows(r, pmRows \cup {[id |-> id, user |-> pmReq[r].of, effect |-> effect]})
      PROVE  PmIInv'
  <2> DEFINE row == [id |-> id, user |-> pmReq[r].of, effect |-> effect]
  <2>1. row \in ResourcePermission /\ row.user = pmReq[r].of
    BY <1>1 DEF ResourcePermission
  <2> HIDE DEF row
  <2>2. \A u \in PermUsers \ {pmReq[r].of} : {w \in pmRows \cup {row} : w.user = u} = RowsOf(u)
    BY <2>1 DEF RowsOf
  <2>3. ChangesRows(r, pmRows \cup {row})
    BY <1>2 DEF row
  <2> QED BY <1>1, <2>1, <2>2, <2>3, RowsChange
<1> QED BY <1>1, <1>2, NothingDone DEF GrantPermission

\* A revocation deletes the row it found, if it is still there.
LEMMA RevokeMoves == ASSUME PmIInv, NEW r \in PermRequests, RevokePermission(r) PROVE PmIInv'
<1>1. pmReq[r].at = "act" /\ RowIsOf(pmReq[r]) /\ pmRows \subseteq ResourcePermission
  BY DEF RevokePermission, AtStep, PmIInv, PmTypes
<1>2. CASE ChangesRows(r, pmRows \ pmReq[r].row)
  <2>1. \A u \in PermUsers \ {pmReq[r].of} : {w \in pmRows \ pmReq[r].row : w.user = u} = RowsOf(u)
    BY <1>1 DEF RowsOf, RowIsOf
  <2> QED BY <1>1, <1>2, <2>1, RowsChange
<1> QED BY <1>1, <1>2, NothingDone DEF RevokePermission

\* Making and assigning a role writes nothing.
LEMMA RoleNotMade == ASSUME PmIInv, NEW r \in PermRequests, CreateOrAssignRole(r) PROVE PmIInv'
BY NothingDone DEF CreateOrAssignRole, AtStep

\* The answers of the user are dropped, or known to be late.
LEMMA InvalidationMoves == ASSUME PmIInv, NEW r \in PermRequests, InvalidateUserPermissionCache(r) PROVE PmIInv'
<1> USE DEF PmIInv
<1> DEFINE u == pmReq[r].of
           q == [pmReq[r] EXCEPT !.at = "idle"]
<1>1. pmReq[r] \in CheckType /\ RowIsOf(pmReq[r]) /\ u \in PermUsers
  BY DEF PmTypes, CheckType
<1>2. /\ pmReq' = [pmReq EXCEPT ![r] = q] /\ UNCHANGED <<pmRows, pmHeld>>
      /\ \/ pmCache' = [pmCache EXCEPT ![u] = "none"] /\ pmLate' = [pmLate EXCEPT ![u] = FALSE]
         \/ pmLate' = [pmLate EXCEPT ![u] = TRUE] /\ UNCHANGED pmCache
  BY DEF InvalidateUserPermissionCache, Moves
<1>3. q \in CheckType /\ q.at = "idle" /\ q.of = pmReq[r].of /\ q.row = pmReq[r].row
  BY <1>1 DEF CheckType, CheckPlaces
<1> HIDE DEF q
<1>4. \A s \in PermRequests : pmReq'[s] = IF s = r THEN q ELSE pmReq[s]
  BY <1>2 DEF PmTypes
<1>5. \A w \in PermUsers : RowsOf(w)' = RowsOf(w) /\ Decisions(w)' = Decisions(w)
  BY <1>2 DEF RowsOf, Decisions
<1>6. PmTypes'
  BY <1>1, <1>2, <1>3 DEF PmTypes
<1>7. \A s \in PermRequests : ReadHolds(pmReq[s])' /\ RowIsOf(pmReq[s])'
  <2>1. ReadHolds(q) /\ RowIsOf(q)
    BY <1>1, <1>3 DEF ReadHolds, RowIsOf
  <2>2. \A s \in PermRequests : pmReq'[s] \in CheckType /\ ReadHolds(pmReq'[s]) /\ RowIsOf(pmReq'[s])
    BY <1>3, <1>4, <2>1 DEF PmTypes
  <2>3. \A s \in PermRequests : pmReq'[s].by \in PermUsers
    BY <2>2 DEF CheckType
  <2> QED BY <1>5, <2>2, <2>3 DEF ReadHolds, RowIsOf
<1>8. CacheIsCurrent'
  <2>1. \A s \in PermRequests \ {r} : /\ AtStep(s, "invalidate") => AtStep(s, "invalidate")'
                                      /\ pmReq'[s].of = pmReq[s].of
    BY <1>4 DEF AtStep
  <2>2. \A w \in PermUsers \ {u} : pmCache'[w] = pmCache[w] /\ pmLate'[w] = pmLate[w]
    BY <1>2 DEF PmTypes
  <2>3. pmCache'[u] = "none" \/ pmLate'[u]
    BY <1>1, <1>2 DEF PmTypes
  <2> QED BY <1>5, <2>1, <2>2, <2>3 DEF CacheIsCurrent
<1> QED BY <1>6, <1>7, <1>8

\* A cached answer expires.
LEMMA EntryExpiryMoves == ASSUME PmIInv, NEW u \in PermUsers, CacheEntryExpires(u) PROVE PmIInv'
<1>1. /\ pmCache' = [pmCache EXCEPT ![u] = "none"] /\ pmLate' = [pmLate EXCEPT ![u] = FALSE]
      /\ UNCHANGED <<pmRows, pmHeld, pmReq>>
  BY DEF CacheEntryExpires
<1>2. \A w \in PermUsers : RowsOf(w)' = RowsOf(w) /\ Decisions(w)' = Decisions(w)
  BY <1>1 DEF RowsOf, Decisions
<1>3. PmTypes'
  BY <1>1 DEF PmIInv, PmTypes
<1>4. \A s \in PermRequests : ReadHolds(pmReq[s])' /\ RowIsOf(pmReq[s])'
  <2>1. \A s \in PermRequests : pmReq[s].by \in PermUsers
    BY DEF PmIInv, PmTypes, CheckType
  <2> QED BY <1>1, <1>2, <2>1 DEF PmIInv, ReadHolds, RowIsOf
<1>5. CacheIsCurrent'
  BY <1>1, <1>2 DEF PmIInv, PmTypes, CacheIsCurrent, AtStep
<1> QED BY <1>3, <1>4, <1>5 DEF PmIInv

\* Time changes what the tables say, and the answers cached of it are late from then on.
LEMMA PermissionExpiryMoves == ASSUME PmIInv, NEW u \in PermUsers, PermissionExpires(u) PROVE PmIInv'
<1> USE DEF PmIInv
<1>1. /\ UNCHANGED pmCache /\ pmLate' = [pmLate EXCEPT ![u] = pmCache[u] # "none"]
      /\ pmReq' = [s \in PermRequests |-> Spoils(u, pmReq[s])]
      /\ \/ (\E row \in RowsOf(u) : pmRows' = pmRows \ {row}) /\ UNCHANGED pmHeld
         \/ pmHeld' = pmHeld \ {u} /\ UNCHANGED pmRows
  BY DEF PermissionExpires
<1>2. \A s \in PermRequests : /\ pmReq'[s] \in CheckType
                              /\ pmReq'[s].at = pmReq[s].at /\ pmReq'[s].by = pmReq[s].by /\ pmReq'[s].of = pmReq[s].of
                              /\ pmReq'[s].row = pmReq[s].row /\ pmReq'[s].answer = pmReq[s].answer
                              /\ ~pmReq'[s].stale => ~pmReq[s].stale /\ ~(pmReq[s].by = u /\ pmReq[s].at \in {"role", "set"})
  <2>1. \A s \in PermRequests : pmReq[s] \in CheckType
    BY DEF PmTypes
  <2> QED BY <1>1, <2>1, SpoilsFields
<1>3. \A w \in PermUsers \ {u} : RowsOf(w)' = RowsOf(w) /\ Decisions(w)' = Decisions(w)
  BY <1>1 DEF RowsOf, Decisions
<1>4. PmTypes'
  <2>1. pmReq' \in [PermRequests -> CheckType]
    BY <1>1, <1>2
  <2> QED BY <1>1, <2>1 DEF PmTypes
<1>5. \A s \in PermRequests : ReadHolds(pmReq[s])' /\ RowIsOf(pmReq[s])'
  <2>1. \A s \in PermRequests : pmReq[s].by \in PermUsers
    BY DEF PmTypes, CheckType
  <2> QED BY <1>2, <1>3, <2>1 DEF ReadHolds, RowIsOf
<1>6. CacheIsCurrent'
  <2>1. \A s \in PermRequests : AtStep(s, "invalidate") => AtStep(s, "invalidate")' /\ pmReq'[s].of = pmReq[s].of
    BY <1>2 DEF AtStep
  <2>2. pmCache'[u] = "none" \/ pmLate'[u]
    BY <1>1 DEF PmTypes
  <2> QED BY <1>1, <1>3, <2>1, <2>2 DEF CacheIsCurrent, PmTypes
<1> QED BY <1>4, <1>5, <1>6

\* Without rows and answers the permission service is in order.
LEMMA PmInitially == PmInit => PmIInv
<1> SUFFICES ASSUME PmInit PROVE PmIInv
  OBVIOUS
<1>1. (CHOOSE u \in PermUsers : TRUE) \in PermUsers
  BY DEF PmInit
<1>2. \A r \in PermRequests : /\ pmReq[r] \in CheckType /\ pmReq[r].at = "idle"
                              /\ ReadHolds(pmReq[r]) /\ RowIsOf(pmReq[r])
  BY <1>1, IdleCheckFields DEF PmInit
<1>3. PmTypes
  BY <1>1, IdleCheckFields DEF PmInit, PmTypes
<1>4. CacheIsCurrent
  BY DEF PmInit, CacheIsCurrent
<1> QED BY <1>2, <1>3, <1>4 DEF PmIInv

\* Every action of the permission service keeps the invariant.
LEMMA PmStep == PmIInv /\ [PmNext]_pmVars => PmIInv'
<1> SUFFICES ASSUME PmIInv, [PmNext]_pmVars PROVE PmIInv'
  OBVIOUS
<1>1. CASE PmNext
  BY <1>1, AskMoves, ReadCacheMoves, DirectMoves, RoleMoves, AnswerIsCached, GrantMoves, RevokeMoves, RoleNotMade,
     InvalidationMoves, EntryExpiryMoves, PermissionExpiryMoves DEF PmNext
<1>2. CASE UNCHANGED pmVars
  <2>1. UNCHANGED <<pmRows, pmHeld, pmCache, pmLate, pmReq>>
    BY <1>2 DEF pmVars
  <2>2. \A w : RowsOf(w)' = RowsOf(w) /\ Decisions(w)' = Decisions(w)
    BY <2>1 DEF RowsOf, Decisions
  <2> QED BY <2>1, <2>2 DEF PmIInv, PmTypes, ReadHolds, RowIsOf, CacheIsCurrent, AtStep
<1> QED BY <1>1, <1>2

\* A call runs at most once in each of its attempts, and only the call that holds the breaker's mutex
\* has a connection.
PcIInv ==
    /\ pcFailures \in Nat /\ pcRan \in Nat /\ pcAttempt \in 0 .. MaxRetries + 1
    /\ pcState \in {"closed", "open", "half_open"}
    /\ pcHolder = NoCall => pcConn = "none"
    /\ pcHolder # NoCall => pcAttempt >= 1 /\ pcRan < pcAttempt
    /\ ClientHolds

\* The client's breaker starts closed and unheld.
LEMMA PcInitially == PcInit => PcIInv
BY PermissionsAssumption DEF PcInit, PcIInv, ClientHolds

\* Every action of the client keeps the invariant.
LEMMA PcStep == PcIInv /\ [PcNext]_pcVars => PcIInv'
<1> SUFFICES ASSUME PcIInv, [PcNext]_pcVars PROVE PcIInv'
  OBVIOUS
<1> USE PermissionsAssumption DEF PcIInv, ClientHolds
<1>1. ASSUME NEW c \in ClientCalls, StartCall(c) PROVE PcIInv'
  <2>1. c # NoCall
    BY ClientAssumption
  <2>2. CASE pcState = "open" /\ ~pcExpired
    BY <1>1, <2>2 DEF StartCall
  <2>3. CASE ~(pcState = "open" /\ ~pcExpired)
    BY <1>1, <2>1, <2>3 DEF StartCall
  <2> QED BY <2>2, <2>3
<1>2. CASE GetConnection
  BY <1>2 DEF GetConnection
<1>3. CASE WithRetry
  <2>1. pcConn # "none" /\ pcHolder # NoCall /\ pcRan' \in {pcRan, pcRan + 1}
    BY <1>3 DEF WithRetry
  <2>2. \/ Returns(FALSE) \/ Returns(TRUE)
        \/ /\ pcAttempt <= MaxRetries /\ pcAttempt' = pcAttempt + 1 /\ pcConn' = "none"
           /\ UNCHANGED <<pcState, pcFailures, pcExpired, pcHolder>>
    BY <1>3 DEF WithRetry
  <2>3. CASE Returns(FALSE)
    BY <2>1, <2>3 DEF Returns
  <2>4. CASE Returns(TRUE)
    BY <2>1, <2>4 DEF Returns
  <2>5. CASE /\ pcAttempt <= MaxRetries /\ pcAttempt' = pcAttempt + 1 /\ pcConn' = "none"
             /\ UNCHANGED <<pcState, pcFailures, pcExpired, pcHolder>>
    BY <2>1, <2>5
  <2> QED BY <2>2, <2>3, <2>4, <2>5
<1>4. CASE OpenTimeoutPasses
  BY <1>4 DEF OpenTimeoutPasses
<1>5. ASSUME NEW i \in 1 .. PoolSize, ConnectionTurns(i) PROVE PcIInv'
  BY <1>5 DEF ConnectionTurns
<1>6. CASE UNCHANGED pcVars
  BY <1>6 DEF pcVars
<1> QED BY <1>1, <1>2, <1>3, <1>4, <1>5, <1>6 DEF PcNext

(***************************************************************************)
(* The plugin service.                                                     *)
(***************************************************************************)
InstallPlaces == {"idle", "refused", "create", "load", "activate", "installed", "stuck"}
RunType == [at : {"idle", "lock", "run"}, of : SUBSET Installs]

\* An installation that has been loaded has its instance; the status is set on the way, so that it
\* is "active" only then.
LoadedOK ==
    /\ pgAt \in [Installs -> InstallPlaces] /\ pgStatus \in [Installs -> PluginStatus]
    /\ pgLoaded \subseteq Installs /\ IsFiniteSet(pgLoaded)
    /\ \A i \in Installs : /\ pgAt[i] \in {"activate", "installed"} => i \in pgLoaded
                           /\ pgStatus[i] = "active" => pgAt[i] = "installed"

\* Who is at work in an instance is the holder of its mutex, and works in no other.
RunsOK ==
    /\ pgRun \in [PluginExecutions -> RunType] /\ pgOwner \in [Installs -> SUBSET PluginExecutions]
    /\ \A e \in PluginExecutions : pgRun[e].at \in {"lock", "run"} => \E i \in Installs : pgRun[e].of = {i}
    /\ \A i \in Installs : pgOwner[i] = {} \/ \E e \in PluginExecutions : pgOwner[i] = {e}
    /\ \A i \in Installs : pgOwner[i] = {e \in PluginExecutions : pgRun[e].at = "run" /\ pgRun[e].of = {i}}

PgIInv == LoadedOK /\ RunsOK /\ RoomKept

\* A runtime without instances is in order.
LEMMA PgInitially == PgInit => PgIInv
<1> SUFFICES ASSUME PgInit PROVE PgIInv
  OBVIOUS
<1>1. LoadedOK
  BY FS_EmptySet DEF PgInit, LoadedOK, InstallPlaces, PluginStatus
<1>2. RunsOK
  BY DEF PgInit, RunsOK, RunType, NoExecution
<1>3. RoomKept
  BY FS_EmptySet, PluginsAssumption DEF PgInit, RoomKept, ActiveInstalls
<1> QED BY <1>1, <1>2, <1>3 DEF PgIInv

\* A step of an installation that loads nothing.
LEMMA InstallMoves ==
    ASSUME PgIInv, NEW i \in Installs, NEW at \in InstallPlaces \ {"stuck"}, NEW status \in PluginStatus,
           pgAt' = [pgAt EXCEPT ![i] = at],
           pgStatus' = [pgStatus EXCEPT ![i] = status] \/ (pgStatus' = pgStatus /\ status = pgStatus[i]),
           at \in {"activate", "installed"} => i \in pgLoaded,
           status = "active" => at = "installed",
           UNCHANGED <<pgLoaded, pgJammed, pgRun, pgOwner>>
    PROVE  PgIInv'
<1> USE DEF PgIInv
<1>1. LoadedOK'
  BY DEF LoadedOK
<1>2. RunsOK'
  BY DEF RunsOK
<1>3. RoomKept'
  BY <1>1 DEF RoomKept, ActiveInstalls, LoadedOK
<1> QED BY <1>1, <1>2, <1>3

\* An installation begins.
LEMMA StartMoves == ASSUME PgIInv, NEW i \in Installs, StartInstall(i) PROVE PgIInv'
<1>1. /\ pgAt[i] = "idle" /\ UNCHANGED <<pgStatus, pgLoaded, pgJammed, pgRun, pgOwner>>
      /\ pgAt' = [pgAt EXCEPT ![i] = "create"] \/ pgAt' = [pgAt EXCEPT ![i] = "refused"]
  BY DEF StartInstall, InstallGoes, pgTables, pgRuntime
<1>2. pgStatus[i] \in PluginStatus /\ pgStatus[i] # "active"
  BY <1>1 DEF PgIInv, LoadedOK
<1> QED BY <1>1, <1>2, InstallMoves DEF InstallPlaces

\* The installation's row is written, or the request refused.
LEMMA CreateInstallMoves == ASSUME PgIInv, NEW i \in Installs, CreateInstallation(i) PROVE PgIInv'
<1>1. /\ pgAt[i] = "create" /\ UNCHANGED <<pgLoaded, pgJammed, pgRun, pgOwner>>
      /\ \/ pgAt' = [pgAt EXCEPT ![i] = "load"] /\ pgStatus' = [pgStatus EXCEPT ![i] = "installed"]
         \/ pgAt' = [pgAt EXCEPT ![i] = "refused"] /\ UNCHANGED pgStatus
  BY DEF CreateInstallation, InstallGoes, StatusBecomes, pgRuntime
<1>2. pgStatus[i] \in PluginStatus /\ pgStatus[i] # "active"
  BY <1>1 DEF PgIInv, LoadedOK
<1> QED BY <1>1, <1>2, InstallMoves DEF InstallPlaces, PluginStatus

\* The installation is answered, whether or not its row was updated.
LEMMA InstalledMoves == ASSUME PgIInv, NEW i \in Installs, InstallPlugin(i) PROVE PgIInv'
<1>1. /\ pgAt[i] = "activate" /\ UNCHANGED <<pgLoaded, pgJammed, pgRun, pgOwner>>
      /\ pgAt' = [pgAt EXCEPT ![i] = "installed"]
      /\ pgStatus' = [pgStatus EXCEPT ![i] = "active"] \/ UNCHANGED pgStatus
  BY DEF InstallPlugin, InstallGoes, StatusBecomes, pgRuntime
<1>2. i \in pgLoaded /\ pgStatus[i] \in PluginStatus
  BY <1>1 DEF PgIInv, LoadedOK
<1> QED BY <1>1, <1>2, InstallMoves DEF InstallPlaces, PluginStatus

\* The runtime takes an instance in only while it has room, and jams when it has none.
LEMMA LoadMoves == ASSUME PgIInv, NEW i \in Installs, LoadPlugin(i) PROVE PgIInv'
<1> USE DEF PgIInv
<1>1. pgAt[i] = "load" /\ ~pgJammed /\ UNCHANGED <<pgRun, pgOwner>> /\ pgStatus[i] # "active"
  BY DEF LoadPlugin, LoadedOK
<1>2. RunsOK'
  BY <1>1 DEF RunsOK
<1>3. CASE /\ Cardinality(pgLoaded) >= MaxInstances
           /\ pgJammed' = TRUE /\ InstallGoes(i, "stuck") /\ UNCHANGED <<pgLoaded, pgStatus, pgFaults>>
  <2>1. LoadedOK'
    BY <1>1, <1>3 DEF LoadedOK, InstallGoes, InstallPlaces
  <2>2. Cardinality(pgLoaded) = MaxInstances
    <3>1. Cardinality(pgLoaded) \in Nat
      BY FS_CardinalityType DEF LoadedOK
    <3> QED BY <1>3, <3>1, PluginsAssumption DEF RoomKept
  <2>3. RoomKept'
    BY <1>3, <2>2, PluginsAssumption DEF RoomKept, ActiveInstalls
  <2> QED BY <1>2, <2>1, <2>3
<1>4. CASE /\ Cardinality(pgLoaded) < MaxInstances
           /\ pgLoaded' = pgLoaded \cup {i} /\ InstallGoes(i, "activate")
           /\ UNCHANGED <<pgJammed, pgStatus, pgFaults>>
  <2>1. IsFiniteSet(pgLoaded') /\ Cardinality(pgLoaded') <= MaxInstances
    <3>1. Cardinality(pgLoaded) \in Nat
      BY FS_CardinalityType DEF LoadedOK
    <3>2. /\ IsFiniteSet(pgLoaded')
          /\ Cardinality(pgLoaded') = Cardinality(pgLoaded) \/ Cardinality(pgLoaded') = Cardinality(pgLoaded) + 1
      BY <1>4, FS_AddElement DEF LoadedOK
    <3> QED BY <1>4, <3>1, <3>2, PluginsAssumption
  <2>2. LoadedOK'
    BY <1>1, <1>4, <2>1 DEF LoadedOK, InstallGoes, InstallPlaces
  <2>3. \A j \in Installs : pgAt[j] # "stuck"
    BY <1>1 DEF RoomKept
  <2>4. \A j \in Installs : pgAt'[j] # "stuck"
    BY <1>4, <2>3 DEF LoadedOK, InstallGoes
  <2>5. RoomKept'
    BY <1>4, <2>1, <2>4 DEF RoomKept, ActiveInstalls
  <2> QED BY <1>2, <2>2, <2>5
<1>5. CASE /\ PluginFault /\ StatusBecomes(i, "error") /\ InstallGoes(i, "refused") /\ UNCHANGED <<pgLoaded, pgJammed>>
  BY <1>1, <1>5, InstallMoves DEF InstallGoes, StatusBecomes, InstallPlaces, PluginStatus
<1> QED BY <1>3, <1>4, <1>5 DEF LoadPlugin

\* A step that leaves installations, instances and executions alone.
LEMMA PluginStays ==
    ASSUME PgIInv, UNCHANGED <<pgAt, pgStatus, pgLoaded, pgRun, pgOwner>>, pgJammed' = pgJammed \/ pgJammed' = TRUE
    PROVE  PgIInv'
BY DEF PgIInv, LoadedOK, RunsOK, RoomKept, ActiveInstalls

\* Waiting for an instance's mutex.
LEMMA ExecuteMoves == ASSUME PgIInv, NEW e \in PluginExecutions, ExecutePlugin(e) PROVE PgIInv'
<1> USE DEF PgIInv
<1>1. PICK i \in pgLoaded : pgRun' = [pgRun EXCEPT ![e] = [at |-> "lock", of |-> {i}]]
  BY DEF ExecutePlugin
<1>2. pgRun[e].at = "idle" /\ UNCHANGED <<pgAt, pgStatus, pgLoaded, pgJammed, pgOwner>>
  BY DEF ExecutePlugin, pgTables, pgRuntime
<1>3. i \in Installs
  BY DEF LoadedOK
<1>4. \A f \in PluginExecutions : (pgRun'[f].at = "run") = (pgRun[f].at = "run")
  BY <1>1, <1>2 DEF RunsOK
<1>5. \A f \in PluginExecutions : pgRun[f].at = "run" => pgRun'[f] = pgRun[f]
  BY <1>1, <1>2 DEF RunsOK
<1>6. \A j \in Installs : {f \in PluginExecutions : pgRun'[f].at = "run" /\ pgRun'[f].of = {j}} = pgOwner[j]
  BY <1>4, <1>5 DEF RunsOK
<1>7. pgRun' \in [PluginExecutions -> RunType]
  BY <1>1, <1>3 DEF RunsOK, RunType
<1>8. \A f \in PluginExecutions : pgRun'[f].at \in {"lock", "run"} => \E j \in Installs : pgRun'[f].of = {j}
  BY <1>1, <1>3 DEF RunsOK
<1>9. RunsOK'
  BY <1>2, <1>6, <1>7, <1>8 DEF RunsOK
<1>10. LoadedOK' /\ RoomKept'
  BY <1>2 DEF LoadedOK, RoomKept, ActiveInstalls
<1> QED BY <1>9, <1>10

\* The mutex is free when it is taken.
LEMMA RunMoves == ASSUME PgIInv, NEW e \in PluginExecutions, RunInstance(e) PROVE PgIInv'
<1> USE DEF PgIInv
<1>1. PICK i \in pgRun[e].of :
         /\ pgRun[e].at = "lock" /\ pgOwner[i] = {}
         /\ pgOwner' = [pgOwner EXCEPT ![i] = {e}] /\ pgRun' = [pgRun EXCEPT ![e].at = "run"]
         /\ UNCHANGED <<pgAt, pgStatus, pgLoaded, pgJammed>>
  BY DEF RunInstance, pgTables
<1>2. i \in Installs /\ pgRun[e].of = {i} /\ pgRun[e] \in RunType
  BY <1>1 DEF RunsOK, RunType
<1>3. /\ pgRun' \in [PluginExecutions -> RunType] /\ pgRun'[e].at = "run" /\ pgRun'[e].of = {i}
      /\ \A f \in PluginExecutions \ {e} : pgRun'[f] = pgRun[f]
  BY <1>1, <1>2 DEF RunsOK, RunType
<1>4. \A j \in Installs : pgOwner'[j] = IF j = i THEN {e} ELSE pgOwner[j]
  BY <1>1 DEF RunsOK
<1>5. \A j \in Installs : pgOwner'[j] = {f \in PluginExecutions : pgRun'[f].at = "run" /\ pgRun'[f].of = {j}}
  <2> SUFFICES ASSUME NEW j \in Installs
               PROVE  pgOwner'[j] = {f \in PluginExecutions : pgRun'[f].at = "run" /\ pgRun'[f].of = {j}}
    OBVIOUS
  <2>1. pgOwner[j] = {f \in PluginExecutions : pgRun[f].at = "run" /\ pgRun[f].of = {j}}
    BY DEF RunsOK
  <2>2. CASE j = i
    <3>1. \A f \in PluginExecutions \ {e} : ~(pgRun[f].at = "run" /\ pgRun[f].of = {j})
      BY <1>1, <2>1, <2>2
    <3> QED BY <1>3, <1>4, <2>2, <3>1
  <2>3. CASE j # i
    BY <1>1, <1>3, <1>4, <2>1, <2>3
  <2> QED BY <2>2, <2>3
<1>6. \A f \in PluginExecutions : pgRun'[f].at \in {"lock", "run"} => \E j \in Installs : pgRun'[f].of = {j}
  BY <1>2, <1>3 DEF RunsOK
<1>7. /\ pgOwner' \in [Installs -> SUBSET PluginExecutions]
      /\ \A j \in Installs : pgOwner'[j] = {} \/ \E f \in PluginExecutions : pgOwner'[j] = {f}
  BY <1>1, <1>4 DEF RunsOK
<1>8. RunsOK'
  BY <1>3, <1>5, <1>6, <1>7 DEF RunsOK
<1>9. LoadedOK' /\ RoomKept'
  BY <1>1 DEF LoadedOK, RoomKept, ActiveInstalls
<1> QED BY <1>8, <1>9

\* The holder gives the mutex up, though the function it called may go on.
LEMMA LimitsMoves == ASSUME PgIInv, NEW e \in PluginExecutions, ExecuteWithResourceLimits(e) PROVE PgIInv'
<1> USE DEF PgIInv
<1>1. PICK i \in pgRun[e].of :
         /\ pgRun[e].at = "run" /\ pgRun' = [pgRun EXCEPT ![e] = NoExecution]
         /\ pgOwner' = [pgOwner EXCEPT ![i] = {}]
         /\ UNCHANGED <<pgAt, pgStatus, pgLoaded, pgJammed>>
  BY DEF ExecuteWithResourceLimits, pgTables
<1>2. i \in Installs /\ pgRun[e].of = {i}
  BY <1>1 DEF RunsOK, RunType
<1>3. /\ pgRun' \in [PluginExecutions -> RunType] /\ pgRun'[e].at = "idle"
      /\ \A f \in PluginExecutions \ {e} : pgRun'[f] = pgRun[f]
  BY <1>1 DEF RunsOK, RunType, NoExecution
<1>4. \A j \in Installs : pgOwner'[j] = IF j = i THEN {} ELSE pgOwner[j]
  BY <1>1 DEF RunsOK
<1>5. \A j \in Installs : pgOwner'[j] = {f \in PluginExecutions : pgRun'[f].at = "run" /\ pgRun'[f].of = {j}}
  <2> SUFFICES ASSUME NEW j \in Installs
               PROVE  pgOwner'[j] = {f \in PluginExecutions : pgRun'[f].at = "run" /\ pgRun'[f].of = {j}}
    OBVIOUS
  <2>1. pgOwner[j] = {f \in PluginExecutions : pgRun[f].at = "run" /\ pgRun[f].of = {j}}
    BY DEF RunsOK
  <2>2. CASE j = i
    <3>1. e \in pgOwner[i]
      BY <1>1, <1>2, <2>1, <2>2
    <3>2. pgOwner[i] = {e}
      BY <1>2, <3>1 DEF RunsOK
    <3>3. \A f \in PluginExecutions \ {e} : ~(pgRun[f].at = "run" /\ pgRun[f].of = {j})
      BY <2>1, <2>2, <3>2
    <3> QED BY <1>3, <1>4, <2>2, <3>3
  <2>3. CASE j # i
    BY <1>1, <1>2, <1>3, <1>4, <2>1, <2>3
  <2> QED BY <2>2, <2>3
<1>6. \A f \in PluginExecutions : pgRun'[f].at \in {"lock", "run"} => \E j \in Installs : pgRun'[f].of = {j}
  BY <1>3 DEF RunsOK
<1>7. /\ pgOwner' \in [Installs -> SUBSET PluginExecutions]
      /\ \A j \in Installs : pgOwner'[j] = {} \/ \E f \in PluginExecutions : pgOwner'[j] = {f}
  BY <1>1, <1>4 DEF RunsOK
<1>8. RunsOK'
  BY <1>3, <1>5, <1>6, <1>7 DEF RunsOK
<1>9. LoadedOK' /\ RoomKept'
  BY <1>1 DEF LoadedOK, RoomKept, ActiveInstalls
<1> QED BY <1>8, <1>9

\* Every action of the plugin service keeps the invariant.
LEMMA PgStep == PgIInv /\ [PgNext]_pgVars => PgIInv'
<1> SUFFICES ASSUME PgIInv, [PgNext]_pgVars PROVE PgIInv'
  OBVIOUS
<1>1. ASSUME NEW i \in Installs, RunawayEnds(i) PROVE PgIInv'
  BY <1>1, PluginStays DEF RunawayEnds, pgTables
<1>2. CASE CreatePlugin \/ DeletePlugin \/ QuarantinePlugin
  BY <1>2, PluginStays DEF CreatePlugin, DeletePlugin, QuarantinePlugin, pgRuntime
<1>3. CASE ShutdownRuntime
  BY <1>3, PluginStays DEF ShutdownRuntime, pgTables
<1>4. CASE UNCHANGED pgVars
  BY <1>4, PluginStays DEF pgVars
<1> QED BY <1>1, <1>2, <1>3, <1>4, StartMoves, CreateInstallMoves, LoadMoves, InstalledMoves, ExecuteMoves,
           RunMoves, LimitsMoves DEF PgNext

\* Only the holder of its mutex calls into an instance that no call was left in.
LEMMA OneAtATime == PgIInv => OneCallEach
<1> SUFFICES ASSUME PgIInv, NEW i \in Installs PROVE Cardinality(pgOwner[i]) <= 1
  BY DEF PgIInv, RunsOK, OneCallEach
<1>1. pgOwner[i] = {} \/ \E e \in PluginExecutions : pgOwner[i] = {e}
  BY DEF PgIInv, RunsOK
<1>2. Cardinality({}) = 0 /\ \A e : Cardinality({e}) = 1
  BY FS_EmptySet, FS_Singleton
<1> QED BY <1>1, <1>2

\* A list is stored whole unless the search that stores it was filtered.
LEMMA ListStays == ListIsWhole /\ [PrNext]_prVars => ListIsWhole'
<1> SUFFICES ASSUME ListIsWhole, [PrNext]_prVars PROVE ListIsWhole'
  OBVIOUS
<1> USE DEF ListIsWhole
<1>1. CASE ListExpires
  BY <1>1 DEF ListExpires
<1>2. ASSUME NEW s \in Searches, SearchPlugins(s) \/ SyncRegistry(s) \/ FetchPluginsFromAPI(s)
      PROVE  ListIsWhole'
  BY <1>2 DEF SearchPlugins, SyncRegistry, FetchPluginsFromAPI
<1>3. CASE UNCHANGED prVars
  BY <1>3 DEF prVars
<1> QED BY <1>1, <1>2, <1>3 DEF PrNext

(***************************************************************************)
(* The breaker of the gRPC servers.                                        *)
(***************************************************************************)
CountType == [requests : Nat, failures : Nat]

\* In half-open every answer but a failure ends the generation, so the requests are those under
\* way and those that failed; when none is under way, the failures were too few to trip it.
MbIInv ==
    /\ mbState \in {"closed", "half_open", "open"} /\ mbGeneration \in Nat \ {0}
    /\ mbCounts \in CountType /\ mbExpired \in BOOLEAN
    /\ mbCall \in [GrpcCalls -> Nat] /\ \A c \in GrpcCalls : mbCall[c] <= mbGeneration
    /\ CountsOwn
    /\ mbState = "half_open" =>
          /\ ~mbExpired /\ mbCounts.requests = mbCounts.failures + Cardinality(Probing)
          /\ Probing = {} => mbCounts.requests < TripAt

\* The breaker as a handler finds it: as it is, or at the start of a generation.
BreakerRecord == [state : {"closed", "half_open", "open"}, generation : Nat, counts : CountType, expired : BOOLEAN]
BreakerFound(b) ==
    /\ b \in BreakerRecord
    /\ b = AsItIs \/ (b.generation = mbGeneration + 1 /\ b.counts = NoCounts /\ ~b.expired)

\* currentState leaves the breaker as it is or begins a generation.
LEMMA StateFound == MbIInv => BreakerFound(CurrentState)
BY DEF MbIInv, CurrentState, BreakerFound, BreakerRecord, NewGeneration, AsItIs, NoCounts, CountType

\* The calls admitted in a generation.
Of(g) == {c \in GrpcCalls : mbCall[c] = g}

\* The requests under way are a finite number, none of a generation that has not begun.
LEMMA OfFinite ==
    ASSUME MbIInv, NEW g
    PROVE  /\ IsFiniteSet(Of(g)) /\ Cardinality(Of(g)) \in Nat /\ (Cardinality(Of(g)) = 0 <=> Of(g) = {})
           /\ (g \in Nat /\ g > mbGeneration => Of(g) = {})
           /\ Probing = Of(mbGeneration)
<1>1. IsFiniteSet(Of(g))
  BY FS_Subset, MiddlewareBreakerAssumption DEF Of
<1> QED BY <1>1, FS_CardinalityType, FS_EmptySet DEF Of, Probing, MbIInv

\* What a breaker record owes its invariant, with the calls it leaves under way.
BreakerOwes(b, under) ==
    /\ b.counts.failures + Cardinality(under) <= b.counts.requests
    /\ b.state = "half_open" =>
          /\ ~b.expired /\ b.counts.requests = b.counts.failures + Cardinality(under)
          /\ under = {} => b.counts.requests < TripAt

\* The breaker that a handler finds still owes what its own calls under way leave it.
LEMMA FoundOwes ==
    ASSUME MbIInv
    PROVE  BreakerOwes(CurrentState, Of(CurrentState.generation))
<1> DEFINE b == CurrentState
<1>1. BreakerFound(b)
  BY StateFound
<1>2. CASE b = AsItIs
  BY <1>2, OfFinite DEF MbIInv, AsItIs, BreakerOwes, CountsOwn
<1>3. CASE b.generation = mbGeneration + 1 /\ b.counts = NoCounts /\ ~b.expired
  <2>1. mbGeneration \in Nat /\ b.generation > mbGeneration /\ b.generation \in Nat
    BY <1>3 DEF MbIInv
  <2>2. Of(b.generation) = {} /\ Cardinality(Of(b.generation)) = 0
    BY <2>1, OfFinite, FS_EmptySet
  <2> QED BY <1>3, <2>2, MiddlewareBreakerAssumption DEF BreakerOwes, NoCounts
<1> QED BY <1>1, <1>2, <1>3 DEF BreakerFound

\* A handler that leaves a breaker owing nothing keeps the invariant.
LEMMA BecomesKeeps ==
    ASSUME MbIInv, NEW b \in BreakerRecord, Becomes(b), mbCall' \in [GrpcCalls -> Nat],
           b.generation # 0, \A c \in GrpcCalls : mbCall'[c] <= b.generation,
           BreakerOwes(b, {c \in GrpcCalls : mbCall'[c] = b.generation})
    PROVE  MbIInv'
BY DEF Becomes, BreakerRecord, MbIInv, BreakerOwes, CountsOwn, Probing, CountType

\* beforeRequest keeps the breaker's account, whether it admits the call or refuses it.
LEMMA BeforeMoves == ASSUME MbIInv, NEW c \in GrpcCalls, BeforeRequest(c) PROVE MbIInv'
<1> DEFINE b == CurrentState
           g == b.generation
           admitted == [b EXCEPT !.counts.requests = @ + 1]
<1>1. BreakerFound(b) /\ b \in BreakerRecord /\ g \in Nat \ {0} /\ g >= mbGeneration /\ b.counts \in CountType
  BY StateFound DEF BreakerFound, MbIInv, AsItIs, BreakerRecord
<1>2. BreakerOwes(b, Of(g)) /\ mbCall[c] = 0
  BY FoundOwes DEF BeforeRequest
<1>3. CASE Becomes(b) /\ UNCHANGED mbCall
  <2>1. \A d \in GrpcCalls : mbCall'[d] \in Nat /\ mbCall'[d] <= g
    BY <1>1, <1>3 DEF MbIInv
  <2>2. Of(g) = {d \in GrpcCalls : mbCall'[d] = g}
    BY <1>3 DEF Of
  <2>3. mbCall' \in [GrpcCalls -> Nat]
    BY <1>3 DEF MbIInv
  <2> HIDE DEF b
  <2> QED BY <1>1, <1>2, <1>3, <2>1, <2>2, <2>3, BecomesKeeps
<1>4. CASE Becomes(admitted) /\ mbCall' = [mbCall EXCEPT ![c] = g]
  <2> HIDE DEF b
  <2>1. /\ admitted \in BreakerRecord /\ admitted.generation = g /\ admitted.state = b.state
        /\ admitted.counts = [requests |-> b.counts.requests + 1, failures |-> b.counts.failures]
        /\ admitted.expired = b.expired
    BY <1>1 DEF BreakerRecord, CountType
  <2>2. mbCall' \in [GrpcCalls -> Nat] /\ (\A d \in GrpcCalls : mbCall'[d] <= g)
    BY <1>1, <1>4 DEF MbIInv
  <2>3. {d \in GrpcCalls : mbCall'[d] = g} = Of(g) \cup {c} /\ c \notin Of(g)
    BY <1>1, <1>2, <1>4 DEF Of, MbIInv
  <2>4. Cardinality(Of(g) \cup {c}) = Cardinality(Of(g)) + 1 /\ Cardinality(Of(g)) \in Nat
    BY <2>3, OfFinite, FS_AddElement
  <2>5. BreakerOwes(admitted, Of(g) \cup {c})
    BY <1>1, <1>2, <2>1, <2>4 DEF BreakerOwes, CountType
  <2> HIDE DEF admitted
  <2> QED BY <1>1, <1>4, <2>1, <2>2, <2>3, <2>5, BecomesKeeps
<1> QED BY <1>3, <1>4 DEF BeforeRequest

\* A generation that begins owes nothing, whatever calls of earlier ones are under way.
LEMMA BeginsKeeps ==
    ASSUME MbIInv, NEW b \in BreakerRecord, Becomes(b), NEW c \in GrpcCalls, mbCall' = [mbCall EXCEPT ![c] = 0],
           b.generation > mbGeneration, b.counts = NoCounts, ~b.expired
    PROVE  MbIInv'
<1>1. b.generation \in Nat /\ mbGeneration \in Nat
  BY DEF BreakerRecord, MbIInv
<1>2. mbCall' \in [GrpcCalls -> Nat] /\ \A d \in GrpcCalls : mbCall'[d] < b.generation
  BY <1>1 DEF MbIInv
<1>3. {d \in GrpcCalls : mbCall'[d] = b.generation} = {}
  BY <1>1, <1>2
<1>4. BreakerOwes(b, {})
  BY FS_EmptySet, MiddlewareBreakerAssumption DEF BreakerOwes, NoCounts
<1> QED BY <1>1, <1>2, <1>3, <1>4, BecomesKeeps

\* afterRequest keeps the breaker's account, for an answer of this generation or of an earlier one.
LEMMA AfterMoves == ASSUME MbIInv, NEW c \in GrpcCalls, AfterRequest(c) PROVE MbIInv'
<1> DEFINE b == CurrentState
           g == b.generation
           counted == [b EXCEPT !.counts.failures = @ + 1]
<1>1. /\ BreakerFound(b) /\ b \in BreakerRecord /\ g \in Nat \ {0} /\ g >= mbGeneration /\ b.counts \in CountType
      /\ mbGeneration \in Nat
  BY StateFound DEF BreakerFound, MbIInv, AsItIs, BreakerRecord
<1>2. BreakerOwes(b, Of(g)) /\ mbCall[c] # 0 /\ mbCall' = [mbCall EXCEPT ![c] = 0]
  BY FoundOwes DEF AfterRequest
<1>3. mbCall' \in [GrpcCalls -> Nat] /\ \A d \in GrpcCalls : mbCall'[d] <= g
  BY <1>1, <1>2 DEF MbIInv
<1>4. CASE g # mbCall[c] /\ Becomes(b)
  <2>1. Of(g) = {d \in GrpcCalls : mbCall'[d] = g}
    BY <1>1, <1>2, <1>4 DEF Of, MbIInv
  <2> HIDE DEF b
  <2> QED BY <1>1, <1>2, <1>3, <1>4, <2>1, BecomesKeeps
<1>5. ASSUME g = mbCall[c]
      PROVE  /\ {d \in GrpcCalls : mbCall'[d] = g} = Of(g) \ {c} /\ c \in Of(g)
             /\ Cardinality(Of(g)) = Cardinality(Of(g) \ {c}) + 1 /\ Cardinality(Of(g) \ {c}) \in Nat
  <2>1. {d \in GrpcCalls : mbCall'[d] = g} = Of(g) \ {c} /\ c \in Of(g)
    BY <1>1, <1>2, <1>5 DEF Of, MbIInv
  <2>2. IsFiniteSet(Of(g))
    BY OfFinite
  <2>3. IsFiniteSet(Of(g) \ {c}) /\ Cardinality(Of(g) \ {c}) = Cardinality(Of(g)) - 1
    BY <2>1, <2>2, FS_RemoveElement
  <2> QED BY <2>1, <2>2, <2>3, FS_CardinalityType
<1>6. CASE g = mbCall[c] /\ Becomes(OnSuccess(b))
  <2> HIDE DEF b
  <2>1. CASE b.state = "half_open"
    <3> DEFINE closed == [b EXCEPT !.state = "closed", !.generation = @ + 1, !.counts = NoCounts, !.expired = FALSE]
    <3>0. b.generation + 1 \in Nat /\ b.generation + 1 > mbGeneration /\ NoCounts \in CountType
      BY <1>1 DEF NoCounts, CountType
    <3>1. closed \in BreakerRecord /\ closed.generation > mbGeneration /\ closed.counts = NoCounts /\ ~closed.expired
      BY <1>1, <3>0 DEF BreakerRecord
    <3>2. Becomes(closed)
      BY <1>6, <2>1 DEF OnSuccess
    <3> HIDE DEF closed
    <3> QED BY <1>2, <3>1, <3>2, BeginsKeeps
  <2>2. CASE b.state # "half_open"
    <3>1. BreakerOwes(b, Of(g) \ {c})
      BY <1>1, <1>2, <1>5, <1>6, <2>2 DEF BreakerOwes, CountType
    <3> QED BY <1>1, <1>3, <1>5, <1>6, <2>2, <3>1, BecomesKeeps DEF OnSuccess
  <2> QED BY <2>1, <2>2
<1>7. CASE g = mbCall[c] /\ Becomes(OnFailure(b))
  <2> HIDE DEF b
  <2>1. /\ counted \in BreakerRecord /\ counted.generation = g /\ counted.state = b.state /\ counted.expired = b.expired
        /\ counted.counts = [requests |-> b.counts.requests, failures |-> b.counts.failures + 1]
    BY <1>1 DEF BreakerRecord, CountType
  <2>2. CASE ReadyToTrip(counted.counts)
    <3> DEFINE open == [b EXCEPT !.state = "open", !.generation = @ + 1, !.counts = NoCounts, !.expired = FALSE]
    <3>0. b.generation + 1 \in Nat /\ b.generation + 1 > mbGeneration /\ NoCounts \in CountType
      BY <1>1 DEF NoCounts, CountType
    <3>1. open \in BreakerRecord /\ open.generation > mbGeneration /\ open.counts = NoCounts /\ ~open.expired
      BY <1>1, <3>0 DEF BreakerRecord
    <3>2. Becomes(open)
      BY <1>7, <2>2 DEF OnFailure
    <3> HIDE DEF open
    <3> QED BY <1>2, <3>1, <3>2, BeginsKeeps
  <2>3. CASE ~ReadyToTrip(counted.counts)
    <3>1. Becomes(counted)
      BY <1>7, <2>3 DEF OnFailure
    <3>2. Of(g) \ {c} = {} => Cardinality(Of(g) \ {c}) = 0
      BY FS_EmptySet
    <3>3. BreakerOwes(counted, Of(g) \ {c})
      BY <1>1, <1>2, <1>5, <1>7, <2>1, <2>3, <3>2, MiddlewareBreakerAssumption DEF BreakerOwes, CountType, ReadyToTrip
    <3> HIDE DEF counted
    <3> QED BY <1>1, <1>3, <1>5, <1>7, <2>1, <3>1, <3>3, BecomesKeeps
  <2> QED BY <2>2, <2>3
<1> QED BY <1>4, <1>6, <1>7 DEF AfterRequest

\* At first nothing was admitted.
LEMMA MbInitially == MbInit => MbIInv
<1> SUFFICES ASSUME MbInit PROVE MbIInv
  OBVIOUS
<1>1. Probing = {}
  BY DEF MbInit, Probing
<1>2. Cardinality(Probing) = 0
  BY <1>1, FS_EmptySet
<1>3. mbCounts \in CountType /\ CountsOwn
  BY <1>2 DEF MbInit, CountsOwn, CountType, NoCounts
<1>4. mbCall \in [GrpcCalls -> Nat] /\ \A c \in GrpcCalls : mbCall[c] <= mbGeneration
  BY DEF MbInit
<1>5. mbState = "closed" /\ mbGeneration \in Nat \ {0}
  BY DEF MbInit
<1>6. mbExpired \in BOOLEAN
  BY DEF MbInit
<1> QED BY <1>3, <1>4, <1>5, <1>6 DEF MbIInv

\* Every step of the breaker keeps its invariant.
LEMMA MbStep == MbIInv /\ [MbNext]_mbVars => MbIInv'
<1> SUFFICES ASSUME MbIInv, [MbNext]_mbVars PROVE MbIInv'
  OBVIOUS
<1>1. CASE Expire
  <2>1. Probing' = Probing
    BY <1>1 DEF Expire, Probing
  <2> QED BY <1>1, <2>1 DEF Expire, MbIInv, CountsOwn
<1>2. CASE UNCHANGED mbVars
  <2>1. Probing' = Probing
    BY <1>2 DEF mbVars, Probing
  <2> QED BY <1>2, <2>1 DEF mbVars, MbIInv, CountsOwn
<1> QED BY <1>1, <1>2, BeforeMoves, AfterMoves DEF MbNext

\* Once no more probes are admitted, one is still to answer.
LEMMA BreakerHasWayOut == MbIInv => MiddlewareBreakerSafety
BY MiddlewareBreakerAssumption DEF MbIInv, MiddlewareBreakerSafety, NeverWedged, CountType

\* A half-open breaker always has a way out: it lets in at least as many probes as it takes for
\* failures to trip it.
THEOREM BreakerIsNotWedged == MbSpec => []MiddlewareBreakerSafety
<1>1. MbIInv => MiddlewareBreakerSafety
  BY BreakerHasWayOut
<1> QED BY <1>1, MbInitially, MbStep, PTL DEF MbSpec

(***************************************************************************)
(* What the gateway keeps in Redis: windows, quotas and the API key.       *)
(***************************************************************************)

\* A window lets through no more than it counts, nor than the limit.
WindowIInv ==
    /\ glStrategy \in Strategies /\ glCount \in [Windows -> Nat] /\ glAllowed \in [Windows -> Nat]
    /\ glStrategy = "fixed_window" => \A w \in Windows : glAllowed[w] <= glCount[w] /\ glCount[w] <= Limit
    /\ glStrategy = "counter" => \A w \in Windows : glAllowed[w] <= glCount[w] /\ glAllowed[w] <= Limit

Periods == {"day", "month"}
SpendPlaces == {"idle", "month", "count day", "count month"}
QuotaIInv ==
    /\ glSpend \in [Spenders -> SpendPlaces] /\ glUsage \in [Periods -> Nat]
    /\ QuotaOvershoot

AdminPlaces == {"idle", "set record", "set hash", "delete record", "delete hash"}
AdminWork == [at : AdminPlaces, on : BOOLEAN]

\* Nobody is about to write back a key that was switched off or deleted.
KeyIInv ==
    /\ glAdmin \in [KeyAdmins -> AdminWork]
    /\ glRevoked => glKey # "on" /\ \A b \in KeyAdmins : ~Writing(b)

\* The bucket: what was let through and what is left is covered by the capacity and the clock of the
\* last script; and what was let through, by the clock itself, since a script that lets through
\* leaves no debt.
BucketIInv ==
    /\ glStrategy \in Strategies /\ glNow \in Nat /\ glAsk \in [LimitCallers -> Int]
    /\ glTokens \in Int /\ glLast \in Int /\ glPassed \in Nat
    /\ \A c \in LimitCallers : glAsk[c] <= glNow
    /\ glStrategy = "token_bucket" => glPassed <= Limit + glNow /\ glPassed + glTokens <= Limit + glLast

\* A script that runs late, with an older clock, keeps the bucket's account.
LEMMA BucketMoves == ASSUME BucketIInv, NEW c \in LimitCallers, Allow(c) PROVE BucketIInv'
<1> DEFINE now == glAsk[c]
           tokens == Least(Limit, glTokens + (now - glLast))
<1>1. /\ Limit \in Nat /\ now \in Int /\ now <= glNow /\ glNow \in Nat /\ glTokens \in Int /\ glLast \in Int /\ glPassed \in Nat
      /\ glStrategy \in Strategies
  BY LimitsAssumption DEF BucketIInv
<1>2. glStrategy' = glStrategy /\ glNow' = glNow /\ glAsk' = [glAsk EXCEPT ![c] = -1]
  BY DEF Allow
<1>3. glAsk' \in [LimitCallers -> Int] /\ \A d \in LimitCallers : glAsk'[d] <= glNow
  BY <1>1, <1>2 DEF BucketIInv
<1>4. CASE glStrategy = "token_bucket"
  <2>1. DistributedTokenBucket(now)
    BY <1>4 DEF Allow
  <2>2. tokens \in Int /\ tokens <= glTokens + (now - glLast)
    BY <1>1 DEF Least
  <2>3. \/ tokens >= 1 /\ glTokens' = tokens - 1 /\ glPassed' = glPassed + 1
        \/ glTokens' = tokens /\ glPassed' = glPassed
    BY <2>1 DEF DistributedTokenBucket, Lets, Refuses
  <2>4. glLast' = now
    BY <2>1 DEF DistributedTokenBucket
  <2>5. glPassed <= Limit + glNow /\ glPassed + glTokens <= Limit + glLast
    BY <1>4 DEF BucketIInv
  <2> HIDE DEF tokens, now
  <2>6. glTokens' \in Int /\ glPassed' \in Nat /\ glPassed' <= Limit + glNow /\ glPassed' + glTokens' <= Limit + glLast'
    BY <1>1, <2>2, <2>3, <2>4, <2>5
  <2> QED BY <1>1, <1>2, <1>3, <2>4, <2>6 DEF BucketIInv
<1>5. CASE glStrategy # "token_bucket"
  <2>1. glTokens' = glTokens /\ glLast' = glLast /\ glPassed' \in Nat
    <3>1. glStrategy \in {"sliding_window", "fixed_window", "counter"}
      BY <1>1, <1>5, LimitsAssumption
    <3>2. DistributedSlidingWindow(now) \/ DistributedFixedWindow(now) \/ CheckLimit(now)
      BY <3>1 DEF Allow
    <3> QED BY <1>1, <3>2 DEF DistributedSlidingWindow, DistributedFixedWindow, CheckLimit, Lets, Refuses
  <2> QED BY <1>1, <1>2, <1>3, <1>5, <2>1 DEF BucketIInv
<1> QED BY <1>4, <1>5

\* A caller that takes leave to ask is within its window's count and limit, whichever strategy runs.
LEMMA WindowMoves == ASSUME WindowIInv, NEW c \in LimitCallers, Allow(c) PROVE WindowIInv'
<1> DEFINE now == glAsk[c]
           w == WindowOf(now)
<1>1. glStrategy' = glStrategy /\ Limit \in Nat
  BY LimitsAssumption DEF Allow
<1>2. CASE glStrategy = "token_bucket"
  BY <1>1, <1>2 DEF Allow, DistributedTokenBucket, Lets, Refuses, WindowIInv
<1>3. CASE glStrategy = "sliding_window"
  BY <1>1, <1>3 DEF Allow, DistributedSlidingWindow, Lets, Refuses, WindowIInv
<1>4. CASE glStrategy = "fixed_window"
  <2>1. DistributedFixedWindow(now)
    BY <1>4 DEF Allow
  <2>2. CASE glCount[w] < Limit
    BY <1>1, <1>4, <2>1, <2>2 DEF DistributedFixedWindow, Lets, WindowIInv
  <2>3. CASE ~(glCount[w] < Limit)
    BY <1>1, <1>4, <2>1, <2>3 DEF DistributedFixedWindow, Refuses, WindowIInv
  <2> QED BY <2>2, <2>3
<1>5. CASE glStrategy = "counter"
  <2>1. CheckLimit(now)
    BY <1>5 DEF Allow
  <2>2. glCount' \in [Windows -> Nat] /\ glAllowed' \in [Windows -> Nat]
    <3>1. glCount \in [Windows -> Nat] /\ glAllowed \in [Windows -> Nat]
      BY DEF WindowIInv
    <3>2. glCount' = [glCount EXCEPT ![w] = @ + 1]
      BY <2>1 DEF CheckLimit
    <3>3. glAllowed' = glAllowed \/ glAllowed' = [glAllowed EXCEPT ![w] = @ + 1]
      BY <2>1 DEF CheckLimit, Lets, Refuses
    <3>4. ASSUME NEW f \in [Windows -> Nat], NEW v
          PROVE  [f EXCEPT ![v] = @ + 1] \in [Windows -> Nat]
      <4> SUFFICES ASSUME NEW x \in Windows PROVE [f EXCEPT ![v] = @ + 1][x] \in Nat
        OBVIOUS
      <4> QED OBVIOUS
    <3> HIDE DEF w
    <3>5. glCount' \in [Windows -> Nat]
      BY <3>1, <3>2, <3>4
    <3>6. glAllowed' \in [Windows -> Nat]
      BY <3>1, <3>3, <3>4
    <3> QED BY <3>5, <3>6
  <2>3. ASSUME NEW v \in Windows
        PROVE  glAllowed'[v] <= glCount'[v] /\ glAllowed'[v] <= Limit
    <3>1. glAllowed[v] <= glCount[v] /\ glAllowed[v] <= Limit /\ glAllowed[v] \in Nat /\ glCount[v] \in Nat
      BY <1>5 DEF WindowIInv
    <3>2. CASE v = w
      <4>1. glCount'[v] = glCount[v] + 1
        BY <2>1, <3>2 DEF CheckLimit, WindowIInv
      <4>2. glAllowed'[v] = glAllowed[v] \/ (glCount'[v] <= Limit /\ glAllowed'[v] = glAllowed[v] + 1)
        BY <2>1, <3>2 DEF CheckLimit, Lets, Refuses, WindowIInv
      <4> QED BY <1>1, <3>1, <4>1, <4>2
    <3>3. CASE v # w
      BY <2>1, <3>1, <3>3 DEF CheckLimit, Lets, Refuses, WindowIInv
    <3> QED BY <3>2, <3>3
  <2> QED BY <1>1, <1>5, <2>2, <2>3 DEF WindowIInv
<1> QED BY <1>2, <1>3, <1>4, <1>5, LimitsAssumption DEF WindowIInv

\* The requests that are to count under a quota: they found it not used up.
DueIn(spend, p) == {s \in Spenders : \/ spend[s] = "count day"
                                     \/ spend[s] = "count month" /\ p = "month"
                                     \/ spend[s] = "month" /\ p = "day"}
\* What QuotaOvershoot says of one period.
Overshoot(spend, used, p) == used + Cardinality(DueIn(spend, p)) <= Quota[p] - 1 + Cardinality(Spenders)

\* QuotaOvershoot, period by period, before and after a step.
LEMMA QuotaParts ==
    /\ QuotaOvershoot <=> \A p \in Periods : Quota[p] > 0 => Overshoot(glSpend, glUsage[p], p)
    /\ QuotaOvershoot' <=> \A p \in Periods : Quota[p] > 0 => Overshoot(glSpend', glUsage'[p], p)
BY DEF QuotaOvershoot, Overshoot, DueIn, Periods

\* One request goes on: it leaves those that are due, and may be counted, or finds the quota not
\* used up and joins them.
LEMMA SpenderMoves ==
    ASSUME NEW f \in [Spenders -> SpendPlaces], NEW s \in Spenders, NEW to \in SpendPlaces, NEW p \in Periods,
           NEW used \in Nat, NEW next, Overshoot(f, used, p), NEW g, g = [f EXCEPT ![s] = to],
           \/ next = used /\ (s \in DueIn(g, p) => s \in DueIn(f, p) \/ used < Quota[p])
           \/ next = used + 1 /\ s \in DueIn(f, p) /\ s \notin DueIn(g, p)
    PROVE  Overshoot(g, next, p)
<1> DEFINE old == DueIn(f, p)
           new == DueIn(g, p)
           both == old \ {s}
<1>1. Quota[p] \in Nat
  BY LimitsAssumption DEF Periods
<1>2. new \ {s} = both /\ new \subseteq Spenders /\ old \subseteq Spenders
  BY DEF DueIn
<1>3. IsFiniteSet(old) /\ IsFiniteSet(new) /\ IsFiniteSet(both)
  BY <1>2, LimitsAssumption, FS_Subset
<1>4. /\ Cardinality(old) \in Nat /\ Cardinality(new) \in Nat /\ Cardinality(both) \in Nat
      /\ Cardinality(Spenders) \in Nat /\ Cardinality(new) <= Cardinality(Spenders)
  BY <1>2, <1>3, LimitsAssumption, FS_CardinalityType, FS_Subset
<1>5. (s \in old => Cardinality(old) = Cardinality(both) + 1) /\ (s \notin old => Cardinality(old) = Cardinality(both))
  <2>1. CASE s \in old
    <3>1. Cardinality(both) = Cardinality(old) - 1
      BY <2>1, <1>3, FS_RemoveElement
    <3> QED BY <2>1, <3>1, <1>4
  <2>2. CASE s \notin old
    <3>1. both = old
      BY <2>2
    <3> QED BY <2>2, <3>1, <1>4
  <2> QED BY <2>1, <2>2
<1>6. (s \in new => Cardinality(new) = Cardinality(both) + 1) /\ (s \notin new => Cardinality(new) = Cardinality(both))
  <2>1. CASE s \in new
    <3>1. Cardinality(new \ {s}) = Cardinality(new) - 1
      BY <2>1, <1>3, FS_RemoveElement
    <3>2. Cardinality(both) = Cardinality(new) - 1
      <4> HIDE DEF both, new
      <4> QED BY <3>1, <1>2
    <3> QED BY <2>1, <3>2, <1>4
  <2>2. CASE s \notin new
    <3>1. new \ {s} = new
      BY <2>2
    <3>2. both = new
      BY <3>1, <1>2
    <3>3. Cardinality(new) = Cardinality(both)
      BY <3>2
    <3> QED BY <2>2, <3>3
  <2> QED BY <2>1, <2>2
<1> HIDE DEF old, new, both
<1>7. used + Cardinality(old) <= Quota[p] - 1 + Cardinality(Spenders)
  BY DEF Overshoot, old
<1>8. next + Cardinality(new) <= Quota[p] - 1 + Cardinality(Spenders)
  BY <1>1, <1>4, <1>5, <1>6, <1>7 DEF old, new
<1> QED BY <1>8 DEF Overshoot, new

\* CheckQuota lets a request on only while the quota it read is not used up.
LEMMA CheckQuotaMoves == ASSUME QuotaIInv, NEW s \in Spenders, CheckQuota(s) PROVE QuotaIInv'
<1>1. PICK to \in SpendPlaces :
        /\ glSpend' = [glSpend EXCEPT ![s] = to]
        /\ \/ to = "idle"
           \/ glSpend[s] = "idle" /\ to = "month" /\ Below("day")
           \/ glSpend[s] = "month" /\ to = "count day" /\ Below("month")
  BY DEF CheckQuota, ToSpend, SpendPlaces
<1>2. glUsage' = glUsage /\ glSpend \in [Spenders -> SpendPlaces] /\ \A p \in Periods : glUsage[p] \in Nat
  BY DEF CheckQuota, QuotaIInv, SpendPlaces
<1>3. ASSUME NEW p \in Periods, Quota[p] > 0
      PROVE  s \in DueIn(glSpend', p) => s \in DueIn(glSpend, p) \/ glUsage[p] < Quota[p]
  <2>1. glSpend'[s] = to /\ (p = "day" \/ p = "month")
    BY <1>1, <1>2 DEF Periods
  <2>2. CASE to = "idle"
    BY <2>1, <2>2 DEF DueIn
  <2>3. CASE glSpend[s] = "idle" /\ to = "month" /\ Below("day")
    <3>1. CASE p = "day"
      <4>1. Quota["day"] > 0 /\ Quota["day"] \in Nat
        BY <1>3, <3>1, LimitsAssumption
      <4>2. Quota["day"] # 0
        BY <4>1
      <4>3. glUsage["day"] < Quota["day"]
        BY <2>3, <4>2, Zenon DEF Below
      <4> QED BY <3>1, <4>3
    <3>2. CASE p = "month"
      BY <2>1, <2>3, <3>2 DEF DueIn
    <3> QED BY <2>1, <3>1, <3>2
  <2>4. CASE glSpend[s] = "month" /\ to = "count day" /\ Below("month")
    <3>1. CASE p = "month"
      <4>1. Quota["month"] > 0 /\ Quota["month"] \in Nat
        BY <1>3, <3>1, LimitsAssumption
      <4>2. Quota["month"] # 0
        BY <4>1
      <4>3. glUsage["month"] < Quota["month"]
        BY <2>4, <4>2, Zenon DEF Below
      <4> QED BY <3>1, <4>3
    <3>2. CASE p = "day"
      <4>1. s \in DueIn(glSpend, p)
        BY <2>4, <3>2 DEF DueIn
      <4> QED BY <4>1
    <3> QED BY <2>1, <3>1, <3>2
  <2> QED BY <1>1, <2>2, <2>3, <2>4
<1>4. ASSUME NEW p \in Periods, Quota[p] > 0
      PROVE  Overshoot(glSpend', glUsage'[p], p)
  <2>1. Overshoot(glSpend, glUsage[p], p)
    BY <1>4, QuotaParts DEF QuotaIInv
  <2> QED BY <1>1, <1>2, <1>3, <1>4, <2>1, SpenderMoves
<1> QED BY <1>1, <1>2, <1>4, QuotaParts DEF QuotaIInv, SpendPlaces

\* IncrementUsage counts a request that was due, or fails and lets it go.
LEMMA IncrementMoves == ASSUME QuotaIInv, NEW s \in Spenders, IncrementUsage(s) PROVE QuotaIInv'
<1>1. PICK to \in SpendPlaces, period \in Periods :
        /\ glSpend' = [glSpend EXCEPT ![s] = to]
        /\ (glUsage' = glUsage /\ to = "idle") \/ glUsage' = [glUsage EXCEPT ![period] = @ + 1]
        /\ \/ glSpend[s] = "count day" /\ period = "day" /\ to \in {"idle", "count month"}
           \/ glSpend[s] = "count month" /\ period = "month" /\ to = "idle"
  BY DEF IncrementUsage, ToSpend, SpendPlaces, Periods
<1>2. glSpend \in [Spenders -> SpendPlaces] /\ glUsage \in [Periods -> Nat] /\ \A p \in Periods : glUsage[p] \in Nat
  BY DEF QuotaIInv, SpendPlaces
<1>3. ASSUME NEW p \in Periods
      PROVE  \/ glUsage'[p] = glUsage[p] /\ (s \in DueIn(glSpend', p) => s \in DueIn(glSpend, p))
             \/ glUsage'[p] = glUsage[p] + 1 /\ s \in DueIn(glSpend, p) /\ s \notin DueIn(glSpend', p)
  BY <1>1, <1>2 DEF DueIn, Periods
<1>4. ASSUME NEW p \in Periods, Quota[p] > 0
      PROVE  Overshoot(glSpend', glUsage'[p], p)
  <2>1. Overshoot(glSpend, glUsage[p], p)
    BY <1>4, QuotaParts DEF QuotaIInv
  <2> QED BY <1>1, <1>2, <1>3, <1>4, <2>1, SpenderMoves
<1>5. glSpend' \in [Spenders -> SpendPlaces]
  BY <1>1, <1>2
<1>6. glUsage' \in [Periods -> Nat]
  <2>1. CASE glUsage' = glUsage
    BY <1>2, <2>1
  <2>2. CASE glUsage' = [glUsage EXCEPT ![period] = @ + 1]
    <3>1. glUsage[period] + 1 \in Nat
      BY <1>2
    <3> QED BY <1>2, <2>2, <3>1
  <2> QED BY <1>1, <2>1, <2>2
<1> QED BY <1>4, <1>5, <1>6, QuotaParts DEF QuotaIInv

\* One admin goes on; if the key counts as revoked afterwards, nobody is to write it as switched on.
LEMMA AdminMoves ==
    ASSUME KeyIInv, NEW a \in KeyAdmins, NEW to \in AdminWork, glAdmin' = [glAdmin EXCEPT ![a] = to],
           glRevoked' => /\ glKey' # "on" /\ ~(to.at \in {"set record", "set hash"} /\ to.on)
                         /\ \A b \in KeyAdmins \ {a} : ~Writing(b)
    PROVE  KeyIInv'
BY DEF KeyIInv, Writing

\* Storing and deleting keep a revoked key revoked while nobody is about to write it back.
LEMMA KeyMoves ==
    ASSUME KeyIInv, NEW a \in KeyAdmins, UpdateAPIKey(a) \/ StoreAPIKey(a) \/ DeleteAPIKey(a)
    PROVE  KeyIInv'
<1> DEFINE work(at, on) == [at |-> at, on |-> on]
<1>1. glAdmin[a] \in AdminWork /\ glAdmin[a] = work(glAdmin[a].at, glAdmin[a].on) /\ NoAdminWork \in AdminWork
  <2>1. glAdmin[a] \in AdminWork
    BY DEF KeyIInv
  <2>2. NoAdminWork \in AdminWork
    BY DEF AdminWork, AdminPlaces, NoAdminWork
  <2> QED BY <2>1, <2>2 DEF AdminWork
<1>2. glRevoked => glKey # "on" /\ ~Writing(a) /\ \A b \in KeyAdmins \ {a} : ~Writing(b)
  BY DEF KeyIInv
<1>3. ASSUME NEW on \in BOOLEAN, NEW at \in AdminPlaces
      PROVE  work(at, on) \in AdminWork
  BY DEF AdminWork, AdminPlaces
<1>4. CASE UpdateAPIKey(a)
  <2>1. PICK on \in BOOLEAN : glAdmin' = [glAdmin EXCEPT ![a] = work("set record", on)] /\ (glRevoked' => glRevoked /\ ~on)
    BY <1>4 DEF UpdateAPIKey, AdminGoes
  <2>2. work("set record", on) \in AdminWork
    BY <1>3 DEF AdminPlaces
  <2>3. glKey' = glKey
    BY <1>4 DEF UpdateAPIKey
  <2> QED BY <1>2, <2>1, <2>2, <2>3, AdminMoves
<1>5. CASE StoreAPIKey(a) /\ AdminAt(a, "set record")
  <2>1. glRevoked' = glRevoked /\ (glRevoked => ~glAdmin[a].on)
    BY <1>2, <1>5 DEF StoreAPIKey, AdminAt, Writing
  <2>2. CASE /\ glKey' = (IF glAdmin[a].on THEN "on" ELSE "off")
             /\ glAdmin' = [glAdmin EXCEPT ![a] = work("set hash", glAdmin[a].on)]
    <3>1. work("set hash", glAdmin[a].on) \in AdminWork
      BY <1>1, <1>3 DEF AdminPlaces, AdminWork
    <3> QED BY <1>2, <2>1, <2>2, <3>1, AdminMoves
  <2>3. CASE glKey' = glKey /\ glAdmin' = [glAdmin EXCEPT ![a] = NoAdminWork]
    BY <1>1, <1>2, <2>1, <2>3, AdminMoves DEF NoAdminWork
  <2> QED BY <1>1, <1>5, <2>2, <2>3 DEF StoreAPIKey, AdminAt, AdminGoes
<1>6. CASE StoreAPIKey(a) /\ AdminAt(a, "set hash")
  <2>1. /\ glKey' = glKey /\ glAdmin' = [glAdmin EXCEPT ![a] = NoAdminWork]
        /\ glRevoked' => glRevoked \/ (Alone(a) /\ glKey = "off")
    BY <1>6 DEF StoreAPIKey, AdminAt, AdminGoes
  <2> QED BY <1>1, <1>2, <2>1, AdminMoves DEF NoAdminWork, Alone
<1>7. CASE DeleteAPIKey(a)
  <2>1. /\ (glKey' = glKey /\ glRevoked' = glRevoked) \/ (glKey' = "none" /\ (glRevoked' => glRevoked \/ Alone(a)))
        /\ \E at \in {"idle", "delete record", "delete hash"}, on \in BOOLEAN : glAdmin' = [glAdmin EXCEPT ![a] = work(at, on)]
    BY <1>1, <1>7 DEF DeleteAPIKey, AdminAt, AdminGoes, NoAdminWork, AdminWork
  <2>2. PICK at \in {"idle", "delete record", "delete hash"}, on \in BOOLEAN : glAdmin' = [glAdmin EXCEPT ![a] = work(at, on)]
    BY <2>1
  <2>3. work(at, on) \in AdminWork
    BY <1>3 DEF AdminPlaces
  <2>4. work(at, on).at \notin {"set record", "set hash"}
    OBVIOUS
  <2> HIDE DEF work
  <2>5. glRevoked' => glKey' # "on" /\ \A b \in KeyAdmins \ {a} : ~Writing(b)
    BY <1>2, <2>1 DEF Alone
  <2> QED BY <2>2, <2>3, <2>4, <2>5, AdminMoves
<1> QED BY <1>4, <1>5, <1>6, <1>7 DEF StoreAPIKey

(***************************************************************************)
(* The four together.                                                      *)
(***************************************************************************)
GlIInv == BucketIInv /\ WindowIInv /\ QuotaIInv /\ KeyIInv

\* At first nothing was let through, nothing spent, and the key is on.
LEMMA GlInitially == GlInit => GlIInv
<1> SUFFICES ASSUME GlInit PROVE GlIInv
  OBVIOUS
<1>1. WindowIInv /\ BucketIInv
  BY LimitsAssumption DEF GlInit, WindowIInv, BucketIInv
<1>2. glSpend \in [Spenders -> SpendPlaces] /\ glUsage \in [Periods -> Nat]
  BY DEF GlInit, SpendPlaces, Periods
<1>3. ASSUME NEW p \in Periods, Quota[p] > 0
      PROVE  Overshoot(glSpend, glUsage[p], p)
  <2>1. DueIn(glSpend, p) = {}
    BY DEF GlInit, DueIn
  <2>2. Cardinality(DueIn(glSpend, p)) = 0
    BY <2>1, FS_EmptySet
  <2>3. Quota[p] \in Nat /\ Cardinality(Spenders) \in Nat
    BY LimitsAssumption, FS_CardinalityType DEF Periods
  <2>4. glUsage[p] = 0
    BY DEF GlInit, Periods
  <2> QED BY <1>3, <2>2, <2>3, <2>4 DEF Overshoot
<1>4. KeyIInv
  BY DEF GlInit, KeyIInv, NoAdminWork, AdminWork, AdminPlaces
<1> QED BY <1>1, <1>2, <1>3, <1>4, QuotaParts DEF GlIInv, QuotaIInv

\* What leaves the variables of a part alone keeps its invariant.
LEMMA LimiterRests ==
    WindowIInv /\ BucketIInv /\ UNCHANGED glLimiter => WindowIInv' /\ BucketIInv'
BY DEF WindowIInv, BucketIInv, glLimiter
\* The quotas, likewise.
LEMMA QuotaRests == QuotaIInv /\ UNCHANGED glQuotas => QuotaIInv'
BY QuotaParts DEF QuotaIInv, glQuotas
\* The key, likewise.
LEMMA KeyRests == KeyIInv /\ UNCHANGED glKeys => KeyIInv'
<1> SUFFICES ASSUME KeyIInv, UNCHANGED glKeys PROVE KeyIInv'
  OBVIOUS
<1>1. glAdmin' = glAdmin /\ glRevoked' = glRevoked /\ glKey' = glKey
  BY DEF glKeys
<1>2. \A b \in KeyAdmins : Writing(b)' = Writing(b)
  BY <1>1 DEF Writing
<1> QED BY <1>1, <1>2 DEF KeyIInv

\* Every step keeps the windows, the quotas and the key.
LEMMA GlStep == GlIInv /\ [GlNext]_glVars => GlIInv'
<1> SUFFICES ASSUME GlIInv, [GlNext]_glVars PROVE GlIInv'
  OBVIOUS
<1> USE DEF GlIInv
<1>1. CASE LimiterNext
  <2>1. CASE ClockTick
    <3>1. WindowIInv' /\ BucketIInv'
      <4>1. WindowIInv'
        BY <2>1 DEF ClockTick, glBuckets, WindowIInv
      <4>2. BucketIInv'
        BY <2>1, LimitsAssumption DEF ClockTick, glBuckets, BucketIInv
      <4> QED BY <4>1, <4>2
    <3> QED BY <1>1, <3>1, QuotaRests, KeyRests DEF LimiterNext
  <2>2. ASSUME NEW c \in LimitCallers, ReadClock(c) PROVE GlIInv'
    <3>1. WindowIInv' /\ BucketIInv'
      <4>1. WindowIInv'
        BY <2>2 DEF ReadClock, glBuckets, WindowIInv
      <4>2. BucketIInv'
        BY <2>2, LimitsAssumption DEF ReadClock, glBuckets, BucketIInv
      <4> QED BY <4>1, <4>2
    <3> QED BY <1>1, <3>1, QuotaRests, KeyRests DEF LimiterNext
  <2>3. ASSUME NEW c \in LimitCallers, Allow(c) PROVE GlIInv'
    BY <1>1, <2>3, WindowMoves, BucketMoves, QuotaRests, KeyRests DEF LimiterNext
  <2> QED BY <1>1, <2>1, <2>2, <2>3 DEF LimiterNext
<1>2. CASE QuotaNext
  <2>1. UNCHANGED glLimiter /\ UNCHANGED glKeys
    BY <1>2 DEF QuotaNext
  <2> QED BY <1>2, <2>1, LimiterRests, KeyRests, CheckQuotaMoves, IncrementMoves DEF QuotaNext
<1>3. CASE KeyNext
  <2>1. UNCHANGED glLimiter /\ UNCHANGED glQuotas
    BY <1>3 DEF KeyNext
  <2> QED BY <1>3, <2>1, LimiterRests, QuotaRests, KeyMoves DEF KeyNext
<1>4. CASE UNCHANGED glVars
  <2>1. UNCHANGED glLimiter /\ UNCHANGED glQuotas /\ UNCHANGED glKeys
    BY <1>4 DEF glVars
  <2> QED BY <2>1, LimiterRests, QuotaRests, KeyRests
<1> QED BY <1>1, <1>2, <1>3, <1>4 DEF GlNext

\* A bucket and a window let no more through than their budgets, in whatever order the scripts run;
\* a quota is overspent by no more than the requests that read it together; a key that was revoked
\* with nobody about to write it back does not validate.
LEMMA LimitsHold == GlIInv => LimitsSafety
BY LimitsAssumption DEF GlIInv, BucketIInv, WindowIInv, QuotaIInv, KeyIInv, LimitsSafety, BucketBudget, WindowBudget,
   RevokedStays, ValidateAPIKey

(***************************************************************************)
(* The GraphQL gateway's response cache.                                   *)
(***************************************************************************)
GqlRequestType == [at : {"idle", "stale", "set", "tag", "expire"}, q : SUBSET CachedQueries]
SweepType == [at : {"idle", "delete", "untag"}, found : SUBSET CachedQueries]
RcTypes ==
    /\ rcNow \in Nat /\ rcTagEnds \in Nat /\ rcEnds \in [CachedQueries -> Nat] /\ rcTag \subseteq CachedQueries
    /\ rcCall \in [GqlCalls -> GqlRequestType] /\ rcSweep \in SweepType /\ rcUnfound \subseteq CachedQueries
\* A live response nobody is at is kept by its tag, or is one of those whose tag was lost.
KeptOK(q) == Live(q) /\ ~Tagging(q) /\ q \notin rcUnfound => TagKeeps(q)
\* What came to the tag during a sweep, the sweep does not find.
SweptOK == rcSweep.at # "idle" => rcTag \ rcSweep.found \subseteq rcUnfound
\* What the sweep found and deleted is gone, or stored again and still to be tagged.
Retagged(q) == \E c \in GqlCalls : RequestAt(c, "tag", q)
GoneOK == rcSweep.at = "untag" => \A q \in rcSweep.found \ rcUnfound : rcEnds[q] = 0 \/ Retagged(q)
RcIInv == RcTypes /\ SweptOK /\ GoneOK /\ \A q \in CachedQueries : KeptOK(q)

\* What is known of a query and its response.
LEMMA ResponseKnown ==
    ASSUME RcIInv, NEW q \in CachedQueries
    PROVE  rcNow \in Nat /\ rcTagEnds \in Nat /\ rcEnds[q] \in Nat /\ QueryTTL[q] \in Nat /\ KeptOK(q)
BY GraphqlAssumption DEF RcIInv, RcTypes

\* A request that goes on concerns its own query alone.
LEMMA RequestGoesOn ==
    ASSUME rcCall \in [GqlCalls -> GqlRequestType], NEW c \in GqlCalls, NEW q \in CachedQueries,
           NEW to \in GqlRequestType, rcCall' = [rcCall EXCEPT ![c] = to],
           rcCall[c].q \subseteq {q} \/ rcCall[c].at \notin {"tag", "expire"}, to.q \subseteq {q}
    PROVE  /\ rcCall' \in [GqlCalls -> GqlRequestType] /\ rcCall'[c] = to
           /\ \A p \in CachedQueries \ {q} : (Tagging(p)' <=> Tagging(p)) /\ (Retagged(p)' <=> Retagged(p))
           /\ rcCall[c].at \notin {"tag", "expire"} => (Tagging(q) => Tagging(q)')
           /\ rcCall[c].at # "tag" => (Retagged(q) => Retagged(q)')
<1>1. rcCall' \in [GqlCalls -> GqlRequestType] /\ rcCall'[c] = to /\ \A d \in GqlCalls \ {c} : rcCall'[d] = rcCall[d]
  OBVIOUS
<1>2. ASSUME NEW p \in CachedQueries \ {q}, NEW place \in {"tag", "expire"}
      PROVE  ~RequestAt(c, place, p) /\ ~RequestAt(c, place, p)'
  BY <1>1, <1>2 DEF RequestAt
<1>3. \A d \in GqlCalls \ {c} : \A place, p : RequestAt(d, place, p)' <=> RequestAt(d, place, p)
  BY <1>1 DEF RequestAt
<1>4. \A p \in CachedQueries \ {q} : (Tagging(p)' <=> Tagging(p)) /\ (Retagged(p)' <=> Retagged(p))
  BY <1>2, <1>3 DEF Tagging, Retagged
<1>5. rcCall[c].at \notin {"tag", "expire"} => (Tagging(q) => Tagging(q)')
  BY <1>3 DEF Tagging, RequestAt
<1>6. rcCall[c].at # "tag" => (Retagged(q) => Retagged(q)')
  BY <1>3 DEF Retagged, RequestAt
<1> QED BY <1>1, <1>4, <1>5, <1>6

\* Where a request is.
LEMMA OperationKnown ==
    ASSUME rcCall \in [GqlCalls -> GqlRequestType], NEW c \in GqlCalls, NEW q \in CachedQueries
    PROVE  /\ NoOperation \in GqlRequestType /\ NoOperation.q \subseteq {q} /\ NoOperation.at = "idle"
           /\ \A place \in {"idle", "stale", "set", "tag", "expire"} :
                 RequestTo(c, place) /\ rcCall[c].q = {q} =>
                    \E to \in GqlRequestType : to.at = place /\ to.q = {q} /\ rcCall' = [rcCall EXCEPT ![c] = to]
<1>1. NoOperation \in GqlRequestType /\ NoOperation.q \subseteq {q} /\ NoOperation.at = "idle"
  BY DEF NoOperation, GqlRequestType
<1>2. ASSUME NEW place \in {"idle", "stale", "set", "tag", "expire"}, RequestTo(c, place), rcCall[c].q = {q}
      PROVE  \E to \in GqlRequestType : to.at = place /\ to.q = {q} /\ rcCall' = [rcCall EXCEPT ![c] = to]
  <2> DEFINE to == [rcCall[c] EXCEPT !.at = place]
  <2>1. rcCall[c] \in GqlRequestType
    OBVIOUS
  <2>2. to \in GqlRequestType /\ to.at = place /\ to.q = {q}
    BY <1>2, <2>1 DEF GqlRequestType
  <2>3. rcCall' = [rcCall EXCEPT ![c] = to]
    BY <1>2 DEF RequestTo
  <2> HIDE DEF to
  <2> QED BY <2>2, <2>3
<1> QED BY <1>1, <1>2

\* Nothing of the tag changes when an operation begins.
LEMMA OperationResolved ==
    ASSUME RcIInv, NEW c \in GqlCalls, NEW q \in CachedQueries, ResolveOperation(c, q) PROVE RcIInv'
<1>1. UNCHANGED <<rcNow, rcEnds, rcTag, rcTagEnds, rcSweep, rcUnfound>> /\ rcCall[c].at = "idle"
  BY DEF ResolveOperation
<1>2. PICK to \in GqlRequestType : to.q = {q} /\ rcCall' = [rcCall EXCEPT ![c] = to]
  <2>1. \A place \in {"stale", "set"} : [at |-> place, q |-> {q}] \in GqlRequestType
    BY DEF GqlRequestType
  <2>2. PICK place \in {"stale", "set"} : rcCall' = [rcCall EXCEPT ![c] = [at |-> place, q |-> {q}]]
    BY DEF ResolveOperation
  <2> QED BY <2>1, <2>2
<1>3. /\ rcCall' \in [GqlCalls -> GqlRequestType]
      /\ \A p \in CachedQueries : (Tagging(p) => Tagging(p)') /\ (Retagged(p) => Retagged(p)')
  BY <1>1, <1>2, RequestGoesOn DEF RcIInv, RcTypes
<1>4. SweptOK' /\ GoneOK'
  BY <1>1, <1>3 DEF RcIInv, RcTypes, SweepType, SweptOK, GoneOK
<1>5. \A p \in CachedQueries : KeptOK(p)'
  BY <1>1, <1>3 DEF RcIInv, KeptOK, Live, TagKeeps, TagSet
<1> QED BY <1>1, <1>3, <1>4, <1>5 DEF RcIInv, RcTypes

\* A response that is deleted needs no tag.
LEMMA StaleDeleted ==
    ASSUME RcIInv, NEW c \in GqlCalls, NEW q \in CachedQueries, DeleteStale(c, q) PROVE RcIInv'
<1>1. /\ UNCHANGED <<rcNow, rcTag, rcTagEnds, rcSweep, rcUnfound>> /\ rcCall[c].at = "stale" /\ rcCall[c].q = {q}
      /\ RequestTo(c, "set")
  BY DEF DeleteStale, RequestAt
<1>2. /\ rcEnds' \in [CachedQueries -> Nat]
      /\ \A p \in CachedQueries : rcEnds'[p] = rcEnds[p] \/ rcEnds'[p] = 0
  BY DEF DeleteStale, RcIInv, RcTypes
<1>3. PICK to \in GqlRequestType : to.at = "set" /\ to.q = {q} /\ rcCall' = [rcCall EXCEPT ![c] = to]
  BY <1>1, OperationKnown DEF RcIInv, RcTypes
<1>4. /\ rcCall' \in [GqlCalls -> GqlRequestType]
      /\ \A p \in CachedQueries : (Tagging(p) => Tagging(p)') /\ (Retagged(p) => Retagged(p)')
  BY <1>1, <1>3, RequestGoesOn DEF RcIInv, RcTypes
<1>5. SweptOK' /\ GoneOK'
  BY <1>1, <1>2, <1>4 DEF RcIInv, RcTypes, SweepType, SweptOK, GoneOK
<1>6. \A p \in CachedQueries : KeptOK(p)'
  BY <1>1, <1>2, <1>4 DEF RcIInv, KeptOK, Live, TagKeeps, TagSet
<1> QED BY <1>1, <1>2, <1>4, <1>5, <1>6 DEF RcIInv, RcTypes

\* A response that is stored is still to be tagged.
LEMMA ResponseStored ==
    ASSUME RcIInv, NEW c \in GqlCalls, NEW q \in CachedQueries, SetEntry(c, q) PROVE RcIInv'
<1>1. UNCHANGED <<rcNow, rcTag, rcTagEnds, rcSweep, rcUnfound>> /\ rcCall[c].at = "set" /\ rcCall[c].q = {q}
  BY DEF SetEntry, RequestAt
<1>2. CASE RequestDone(c) /\ UNCHANGED rcEnds
  <2>1. /\ rcCall' \in [GqlCalls -> GqlRequestType]
        /\ \A p \in CachedQueries : (Tagging(p) => Tagging(p)') /\ (Retagged(p) => Retagged(p)')
    BY <1>1, <1>2, OperationKnown, RequestGoesOn DEF RequestDone, RcIInv, RcTypes
  <2>2. SweptOK' /\ GoneOK'
    BY <1>1, <1>2, <2>1 DEF RcIInv, RcTypes, SweepType, SweptOK, GoneOK
  <2>3. \A p \in CachedQueries : KeptOK(p)'
    BY <1>1, <1>2, <2>1 DEF RcIInv, KeptOK, Live, TagKeeps, TagSet
  <2> QED BY <1>1, <1>2, <2>1, <2>2, <2>3 DEF RcIInv, RcTypes
<1>3. CASE RequestTo(c, "tag") /\ (UNCHANGED rcEnds \/ rcEnds' = [rcEnds EXCEPT ![q] = rcNow + QueryTTL[q]])
  <2>1. PICK to \in GqlRequestType : to.at = "tag" /\ to.q = {q} /\ rcCall' = [rcCall EXCEPT ![c] = to]
    BY <1>1, <1>3, OperationKnown DEF RcIInv, RcTypes
  <2>2. /\ rcCall' \in [GqlCalls -> GqlRequestType] /\ rcCall'[c].at = "tag" /\ rcCall'[c].q = {q}
        /\ \A p \in CachedQueries : (Tagging(p) => Tagging(p)') /\ (Retagged(p) => Retagged(p)')
    BY <1>1, <2>1, RequestGoesOn DEF RcIInv, RcTypes
  <2>3. Tagging(q)' /\ Retagged(q)'
    BY <2>2 DEF Tagging, Retagged, RequestAt
  <2>4. rcEnds' \in [CachedQueries -> Nat] /\ \A p \in CachedQueries \ {q} : rcEnds'[p] = rcEnds[p]
    <3>1. rcNow + QueryTTL[q] \in Nat
      BY ResponseKnown
    <3> QED BY <1>3, <3>1 DEF RcIInv, RcTypes
  <2>5. SweptOK' /\ GoneOK'
    BY <1>1, <2>2, <2>3, <2>4 DEF RcIInv, RcTypes, SweepType, SweptOK, GoneOK
  <2>6. \A p \in CachedQueries : KeptOK(p)'
    BY <1>1, <2>2, <2>3, <2>4 DEF RcIInv, KeptOK, Live, TagKeeps, TagSet
  <2> QED BY <1>1, <2>2, <2>4, <2>5, <2>6 DEF RcIInv, RcTypes
<1> QED BY <1>2, <1>3 DEF SetEntry

\* The tag takes the query in beside those it still keeps; during a sweep the query is noted as one it may lose.
LEMMA TagAdded ==
    ASSUME RcIInv, NEW c \in GqlCalls, NEW q \in CachedQueries, AddTag(c, q) PROVE RcIInv'
<1>1. UNCHANGED <<rcNow, rcEnds, rcSweep>> /\ rcCall[c].at = "tag" /\ rcCall[c].q = {q} /\ RequestTo(c, "expire")
  BY DEF AddTag, RequestAt
<1>2. PICK to \in GqlRequestType : to.at = "expire" /\ to.q = {q} /\ rcCall' = [rcCall EXCEPT ![c] = to]
  BY <1>1, OperationKnown DEF RcIInv, RcTypes
<1>3. /\ rcCall' \in [GqlCalls -> GqlRequestType] /\ rcCall'[c].at = "expire" /\ rcCall'[c].q = {q}
      /\ \A p \in CachedQueries \ {q} : (Tagging(p) => Tagging(p)') /\ (Retagged(p) => Retagged(p)')
  BY <1>1, <1>2, RequestGoesOn DEF RcIInv, RcTypes
<1>4. Tagging(q)'
  BY <1>3 DEF Tagging, RequestAt
<1>5. /\ rcUnfound \subseteq rcUnfound' /\ rcUnfound' \subseteq CachedQueries
      /\ rcSweep.at # "idle" => q \in rcUnfound'
  BY DEF AddTag, RcIInv, RcTypes
<1>6. /\ rcTag' \subseteq rcTag \cup {q} /\ rcTag' \subseteq CachedQueries /\ rcTagEnds' \in Nat
      /\ TagSet # {} => rcTagEnds' = rcTagEnds /\ TagSet \subseteq rcTag'
  BY DEF AddTag, TagSet, RcIInv, RcTypes
<1>7. SweptOK' /\ GoneOK'
  BY <1>1, <1>3, <1>5, <1>6 DEF RcIInv, RcTypes, SweepType, SweptOK, GoneOK
<1>8. ASSUME NEW p \in CachedQueries PROVE KeptOK(p)'
  <2>1. CASE p = q
    BY <1>4, <2>1 DEF KeptOK
  <2>2. CASE p # q /\ TagKeeps(p)
    <3>1. p \in TagSet /\ rcTagEnds' = rcTagEnds /\ p \in rcTag'
      BY <1>6, <2>2 DEF TagKeeps
    <3>2. TagKeeps(p)'
      BY <1>1, <2>2, <3>1 DEF TagKeeps, TagSet
    <3> QED BY <3>2 DEF KeptOK
  <2>3. CASE p # q /\ ~TagKeeps(p)
    BY <1>1, <1>3, <1>5, <2>3 DEF RcIInv, KeptOK, Live
  <2> QED BY <2>1, <2>2, <2>3
<1> QED BY <1>1, <1>3, <1>5, <1>6, <1>7, <1>8 DEF RcIInv, RcTypes

\* The tag's new life loses only those that are noted.
LEMMA TagExpires ==
    ASSUME RcIInv, NEW c \in GqlCalls, NEW q \in CachedQueries, ExpireTag(c, q) PROVE RcIInv'
<1>1. UNCHANGED <<rcNow, rcEnds, rcTag, rcSweep>> /\ rcCall[c].at = "expire" /\ rcCall[c].q = {q} /\ RequestDone(c)
  BY DEF ExpireTag, RequestAt
<1>2. /\ rcCall' \in [GqlCalls -> GqlRequestType]
      /\ \A p \in CachedQueries \ {q} : Tagging(p) => Tagging(p)'
      /\ \A p \in CachedQueries : Retagged(p) => Retagged(p)'
  <2>1. PICK to \in GqlRequestType : to.q \subseteq {q} /\ rcCall' = [rcCall EXCEPT ![c] = to]
    BY <1>1, OperationKnown DEF RequestDone, RcIInv, RcTypes
  <2>2. rcCall \in [GqlCalls -> GqlRequestType] /\ rcCall[c].q \subseteq {q}
    BY <1>1 DEF RcIInv, RcTypes
  <2>3. /\ rcCall' \in [GqlCalls -> GqlRequestType]
        /\ \A p \in CachedQueries \ {q} : (Tagging(p)' <=> Tagging(p)) /\ (Retagged(p)' <=> Retagged(p))
        /\ Retagged(q) => Retagged(q)'
    BY <1>1, <2>1, <2>2, RequestGoesOn
  <2> QED BY <2>3
<1>3. /\ rcUnfound' \subseteq CachedQueries /\ \A p \in CachedQueries \ {q} : p \in rcUnfound => p \in rcUnfound'
      /\ rcSweep.at # "idle" => rcUnfound \subseteq rcUnfound'
  BY DEF ExpireTag, RcIInv, RcTypes
<1>4. rcTagEnds' \in Nat
  BY ResponseKnown, GraphqlAssumption DEF ExpireTag
<1>5. SweptOK' /\ GoneOK'
  BY <1>1, <1>2, <1>3 DEF RcIInv, RcTypes, SweepType, SweptOK, GoneOK
<1>6. ASSUME NEW p \in CachedQueries, Live(p), p \notin rcUnfound', p # q => TagKeeps(p) PROVE TagKeeps(p)'
  <2>1. CASE UNCHANGED rcTagEnds /\ rcUnfound' = rcUnfound \cup (IF TagKeeps(q) THEN {} ELSE {q})
    BY <1>1, <1>6, <2>1 DEF TagKeeps, TagSet
  <2>2. CASE /\ rcTagEnds' = (IF TagSet = {} THEN rcTagEnds ELSE rcNow + QueryTTL[q] + TagGrace)
             /\ q \notin TagSet => q \in rcUnfound'
             /\ \A r \in CachedQueries : rcEnds[r] > rcTagEnds' => r \in rcUnfound'
    <3>1. p \in TagSet /\ p \in rcTag
      BY <1>6, <2>2 DEF TagKeeps, TagSet
    <3>2. rcEnds[p] <= rcTagEnds'
      BY <1>4, <1>6, <2>2, ResponseKnown
    <3>3. rcNow <= rcTagEnds'
      BY <1>4, <1>6, <3>2, ResponseKnown DEF Live
    <3> QED BY <1>1, <3>1, <3>2, <3>3 DEF TagKeeps, TagSet
  <2> QED BY <2>1, <2>2 DEF ExpireTag
<1>7. ASSUME NEW p \in CachedQueries PROVE KeptOK(p)'
  <2>1. Live(p)' <=> Live(p)
    BY <1>1 DEF Live
  <2>2. p # q /\ Live(p) /\ ~Tagging(p)' /\ p \notin rcUnfound' => TagKeeps(p)
    BY <1>2, <1>3, ResponseKnown DEF KeptOK
  <2> QED BY <1>6, <2>1, <2>2 DEF KeptOK
<1> QED BY <1>1, <1>2, <1>3, <1>4, <1>5, <1>7 DEF RcIInv, RcTypes

\* The sweep finds all the tag has.
LEMMA MembersRead == ASSUME RcIInv, ReadMembers PROVE RcIInv'
<1>1. /\ UNCHANGED <<rcNow, rcEnds, rcTag, rcTagEnds, rcCall, rcUnfound>>
      /\ rcSweep' = [at |-> "delete", found |-> TagSet] /\ TagSet = rcTag
  BY DEF ReadMembers, TagSet
<1>2. rcSweep' \in SweepType
  BY <1>1 DEF SweepType, RcIInv, RcTypes
<1>3. SweptOK' /\ GoneOK'
  BY <1>1 DEF SweptOK, GoneOK
<1>4. \A p \in CachedQueries : KeptOK(p)'
  BY <1>1 DEF RcIInv, KeptOK, Live, Tagging, RequestAt, TagKeeps, TagSet
<1> QED BY <1>1, <1>2, <1>3, <1>4 DEF RcIInv, RcTypes

\* Less is live; what the sweep found is gone, or noted.
LEMMA EntriesDeleted == ASSUME RcIInv, DeleteEntries PROVE RcIInv'
<1>1. /\ UNCHANGED <<rcNow, rcTag, rcTagEnds, rcCall>> /\ rcSweep.at = "delete"
      /\ rcSweep' = [rcSweep EXCEPT !.at = "untag"]
  BY DEF DeleteEntries
<1>2. PICK kept \in SUBSET rcSweep.found : rcEnds' = WithoutEntries(rcSweep.found \ kept) /\ rcUnfound' = rcUnfound \cup kept
  <2>1. rcSweep.found \ {} = rcSweep.found /\ rcUnfound \cup {} = rcUnfound /\ {} \in SUBSET rcSweep.found
    OBVIOUS
  <2> QED BY <2>1 DEF DeleteEntries
<1>3. rcSweep' \in SweepType /\ rcSweep'.at = "untag" /\ rcSweep'.found = rcSweep.found /\ rcSweep.found \subseteq CachedQueries
  BY <1>1 DEF RcIInv, RcTypes, SweepType
<1>4. /\ rcEnds' \in [CachedQueries -> Nat] /\ \A p \in CachedQueries : rcEnds'[p] = 0 \/ rcEnds'[p] = rcEnds[p]
      /\ \A p \in rcSweep.found \ kept : rcEnds'[p] = 0
  BY <1>2, <1>3 DEF WithoutEntries, RcIInv, RcTypes
<1>5. SweptOK'
  BY <1>1, <1>2, <1>3 DEF RcIInv, SweptOK
<1>6. GoneOK'
  BY <1>2, <1>3, <1>4 DEF GoneOK
<1>7. \A p \in CachedQueries : KeptOK(p)'
  BY <1>1, <1>2, <1>4 DEF RcIInv, KeptOK, Live, Tagging, RequestAt, TagKeeps, TagSet
<1>8. rcUnfound' \subseteq CachedQueries
  BY <1>2, <1>3 DEF RcIInv, RcTypes
<1> QED BY <1>1, <1>3, <1>4, <1>5, <1>6, <1>7, <1>8 DEF RcIInv, RcTypes

\* By the time the tag is deleted no live response relies on it.
LEMMA TagDeleted == ASSUME RcIInv, DeleteTag PROVE RcIInv'
<1>1. /\ UNCHANGED <<rcNow, rcEnds, rcCall, rcUnfound>> /\ rcSweep.at = "untag" /\ rcSweep' = IdleSweep
      /\ (rcTag' = {} /\ rcTagEnds' = 0) \/ UNCHANGED <<rcTag, rcTagEnds>>
  BY DEF DeleteTag
<1>2. rcSweep' \in SweepType /\ rcSweep'.at = "idle"
  BY <1>1 DEF IdleSweep, SweepType
<1>3. SweptOK' /\ GoneOK'
  BY <1>2 DEF SweptOK, GoneOK
<1>4. ASSUME NEW p \in CachedQueries, Live(p), ~Tagging(p) PROVE p \in rcUnfound
  <2>1. p \in rcUnfound \/ p \in rcTag
    BY <1>4 DEF RcIInv, KeptOK, TagKeeps, TagSet
  <2>2. p \in rcUnfound \/ p \in rcSweep.found
    BY <1>1, <2>1 DEF RcIInv, SweptOK
  <2>3. p \in rcUnfound \/ rcEnds[p] = 0 \/ Retagged(p)
    BY <1>1, <2>2 DEF RcIInv, GoneOK
  <2> QED BY <1>4, <2>3 DEF Live, Tagging, Retagged
<1>5. \A p \in CachedQueries : KeptOK(p)'
  BY <1>1, <1>4 DEF KeptOK, Live, Tagging, RequestAt
<1> QED BY <1>1, <1>2, <1>3, <1>5 DEF RcIInv, RcTypes

\* What is deleted by pattern needs no tag.
LEMMA SomeInvalidated == ASSUME RcIInv, invalidate PROVE RcIInv'
<1>1. UNCHANGED <<rcNow, rcTag, rcTagEnds, rcCall, rcSweep, rcUnfound>>
  BY DEF invalidate
<1>2. rcEnds' \in [CachedQueries -> Nat] /\ \A p \in CachedQueries : rcEnds'[p] = 0 \/ rcEnds'[p] = rcEnds[p]
  BY DEF invalidate, WithoutEntries, RcIInv, RcTypes
<1>3. SweptOK' /\ GoneOK'
  BY <1>1, <1>2 DEF RcIInv, RcTypes, SweepType, SweptOK, GoneOK, Retagged, RequestAt
<1>4. \A p \in CachedQueries : KeptOK(p)'
  BY <1>1, <1>2 DEF RcIInv, KeptOK, Live, Tagging, RequestAt, TagKeeps, TagSet
<1> QED BY <1>1, <1>2, <1>3, <1>4 DEF RcIInv, RcTypes

\* The requests a restart ends leave their queries noted.
LEMMA GatewayStartsAgain == ASSUME RcIInv, GatewayRestarts PROVE RcIInv'
<1>1. /\ UNCHANGED <<rcNow, rcEnds, rcTag, rcTagEnds>> /\ rcSweep' = IdleSweep
      /\ rcCall' = [c \in GqlCalls |-> NoOperation]
      /\ rcUnfound' = rcUnfound \cup {q \in CachedQueries : Tagging(q)}
  BY DEF GatewayRestarts
<1>2. rcSweep' \in SweepType /\ rcSweep'.at = "idle"
  BY <1>1 DEF IdleSweep, SweepType
<1>3. rcCall' \in [GqlCalls -> GqlRequestType]
  BY <1>1 DEF NoOperation, GqlRequestType
<1>4. SweptOK' /\ GoneOK'
  BY <1>2 DEF SweptOK, GoneOK
<1>5. \A p \in CachedQueries : KeptOK(p)'
  BY <1>1 DEF RcIInv, KeptOK, Live, TagKeeps, TagSet
<1>6. rcUnfound' \subseteq CachedQueries
  BY <1>1 DEF RcIInv, RcTypes
<1> QED BY <1>1, <1>2, <1>3, <1>4, <1>5, <1>6 DEF RcIInv, RcTypes

\* A tag that keeps a response lives as long as that.
LEMMA ResponsesAge == ASSUME RcIInv, ResponseCacheTick PROVE RcIInv'
<1>1. UNCHANGED <<rcEnds, rcTag, rcTagEnds, rcCall, rcSweep, rcUnfound>> /\ rcNow' = rcNow + 1 /\ rcNow' \in Nat
  BY DEF ResponseCacheTick, RcIInv, RcTypes
<1>2. SweptOK' /\ GoneOK'
  BY <1>1 DEF RcIInv, SweptOK, GoneOK, Retagged, RequestAt
<1>3. ASSUME NEW p \in CachedQueries, Live(p)', TagKeeps(p) PROVE TagKeeps(p)'
  BY <1>1, <1>3, ResponseKnown DEF Live, TagKeeps, TagSet
<1>4. ASSUME NEW p \in CachedQueries PROVE KeptOK(p)'
  <2>1. (Live(p)' => Live(p)) /\ (Tagging(p)' <=> Tagging(p))
    BY <1>1, ResponseKnown DEF Live, Tagging, RequestAt
  <2> QED BY <1>1, <1>3, <2>1 DEF RcIInv, KeptOK
<1> QED BY <1>1, <1>2, <1>4 DEF RcIInv, RcTypes

\* No response yet.
LEMMA ResponsesStart == RcInit => RcIInv
BY DEF RcInit, RcIInv, RcTypes, SweptOK, GoneOK, KeptOK, Live, IdleSweep, SweepType, NoOperation, GqlRequestType

\* Every step of the response cache keeps the responses found.
LEMMA ResponsesStep == RcIInv /\ [RcNext]_rcVars => RcIInv'
<1> SUFFICES ASSUME RcIInv, [RcNext]_rcVars PROVE RcIInv'
  OBVIOUS
<1>1. CASE UNCHANGED rcVars
  BY <1>1 DEF rcVars, RcIInv, RcTypes, SweptOK, GoneOK, Retagged, KeptOK, Live, Tagging, RequestAt, TagKeeps, TagSet
<1> QED BY <1>1, OperationResolved, StaleDeleted, ResponseStored, TagAdded, TagExpires, MembersRead, EntriesDeleted,
           TagDeleted, SomeInvalidated, GatewayStartsAgain, ResponsesAge DEF RcNext

\* A live response that is not noted is kept by the tag.
LEMMA ResponsesAreSafe == RcIInv => TagFindsEntries
BY DEF RcIInv, KeptOK, TagKeeps, TagFindsEntries

(***************************************************************************)
(* The data loaders of a GraphQL request.                                  *)
(***************************************************************************)
Settled == {"row", "none"}
Waiting(k) == \E i \in 1 .. Len(dlAsked) : dlAsked[i] = k
DlTypes ==
    /\ dlAnswer \in [LoadedKeys -> {"unasked", "asked"} \cup Settled] /\ dlGiven \in [LoadedKeys -> SUBSET Settled]
    /\ dlAsked \in Seq(LoadedKeys) /\ dlFlight \subseteq LoadedKeys
    /\ IsFiniteSet(dlFlight) /\ Cardinality(dlFlight) <= MaxBatch
\* What was given of a key is what its promise holds; a key waits, or is in the batch, only while it is asked for.
GivenOK(k) == dlGiven[k] \subseteq {dlAnswer[k]}
DlIInv ==
    /\ DlTypes
    /\ \A k \in LoadedKeys : GivenOK(k)
    /\ \A k \in dlFlight : dlAnswer[k] = "asked" /\ ~Waiting(k)
    /\ \A i \in 1 .. Len(dlAsked) : dlAnswer[dlAsked[i]] = "asked"
    /\ \A i, j \in 1 .. Len(dlAsked) : i # j => dlAsked[i] # dlAsked[j]

\* What is known of a key.
LEMMA KeyKnown ==
    ASSUME DlIInv, NEW k \in LoadedKeys
    PROVE  /\ dlAnswer[k] \in {"unasked", "asked"} \cup Settled /\ dlGiven[k] \subseteq Settled /\ GivenOK(k)
           /\ dlAnswer[k] \in {"unasked", "asked"} => dlGiven[k] = {}
           /\ dlAnswer[k] # "asked" => k \notin dlFlight /\ ~Waiting(k)
<1>1. dlAnswer[k] \in {"unasked", "asked"} \cup Settled /\ dlGiven[k] \subseteq Settled /\ GivenOK(k)
  BY DEF DlIInv, DlTypes
<1>2. dlAnswer[k] \in {"unasked", "asked"} => dlGiven[k] = {}
  BY <1>1 DEF GivenOK, Settled
<1>3. dlAnswer[k] # "asked" => k \notin dlFlight /\ ~Waiting(k)
  BY DEF DlIInv, Waiting
<1> QED BY <1>1, <1>2, <1>3

\* What is known of the keys that wait.
LEMMA AskedKnown ==
    ASSUME DlIInv
    PROVE  /\ Len(dlAsked) \in Nat /\ dlAsked \in [1 .. Len(dlAsked) -> LoadedKeys] /\ dlAsked \in Seq(LoadedKeys)
           /\ \A i \in 1 .. Len(dlAsked) : dlAsked[i] \in LoadedKeys /\ dlAnswer[dlAsked[i]] = "asked"
           /\ \A i, j \in 1 .. Len(dlAsked) : i # j => dlAsked[i] # dlAsked[j]
<1>1. dlAsked \in Seq(LoadedKeys)
  BY DEF DlIInv, DlTypes
<1>2. Len(dlAsked) \in Nat /\ dlAsked \in [1 .. Len(dlAsked) -> LoadedKeys]
  BY <1>1, LenProperties
<1> QED BY <1>1, <1>2 DEF DlIInv

\* A step that leaves the waiting keys and the batch, and changes what one key holds.
LEMMA KeySettles ==
    ASSUME DlIInv, NEW k \in LoadedKeys, dlAnswer[k] # "asked", UNCHANGED <<dlAsked, dlFlight>>,
           NEW a \in {"unasked", "asked"} \cup Settled, dlAnswer' = [dlAnswer EXCEPT ![k] = a],
           NEW g \in SUBSET Settled, dlGiven' = [dlGiven EXCEPT ![k] = g], g \subseteq {a}
    PROVE  DlIInv'
<1>1. /\ dlAnswer' \in [LoadedKeys -> {"unasked", "asked"} \cup Settled] /\ dlAnswer'[k] = a
      /\ \A d \in LoadedKeys \ {k} : dlAnswer'[d] = dlAnswer[d]
      /\ dlGiven' \in [LoadedKeys -> SUBSET Settled] /\ dlGiven'[k] = g
      /\ \A d \in LoadedKeys \ {k} : dlGiven'[d] = dlGiven[d]
  BY DEF DlIInv, DlTypes
<1>2. DlTypes'
  BY <1>1 DEF DlIInv, DlTypes
<1>3. ASSUME NEW d \in LoadedKeys PROVE GivenOK(d)'
  <2>1. CASE d = k
    BY <1>1, <2>1 DEF GivenOK
  <2>2. CASE d # k
    BY <1>1, <2>2, KeyKnown DEF GivenOK
  <2> QED BY <2>1, <2>2
<1>4. k \notin dlFlight /\ ~Waiting(k)
  BY KeyKnown
<1>5. \A d \in dlFlight' : dlAnswer'[d] = "asked" /\ ~Waiting(d)'
  BY <1>1, <1>4 DEF DlIInv, DlTypes, Waiting
<1>6. \A i \in 1 .. Len(dlAsked') : dlAnswer'[dlAsked'[i]] = "asked"
  BY <1>1, <1>4, AskedKnown DEF Waiting
<1>7. \A i, j \in 1 .. Len(dlAsked') : i # j => dlAsked'[i] # dlAsked'[j]
  BY AskedKnown
<1> QED BY <1>2, <1>3, <1>5, <1>6, <1>7 DEF DlIInv

\* A key is asked for, and waits behind the others.
LEMMA KeyLoaded == ASSUME DlIInv, NEW k \in LoadedKeys, LoadKey(k) PROVE DlIInv'
<1>1. /\ dlAnswer[k] = "unasked" /\ UNCHANGED <<dlFlight, dlGiven>>
      /\ dlAnswer' = [dlAnswer EXCEPT ![k] = "asked"] /\ dlAsked' = Append(dlAsked, k)
  BY DEF LoadKey
<1>2. /\ dlAnswer' \in [LoadedKeys -> {"unasked", "asked"} \cup Settled] /\ dlAnswer'[k] = "asked"
      /\ \A d \in LoadedKeys \ {k} : dlAnswer'[d] = dlAnswer[d]
  BY <1>1 DEF DlIInv, DlTypes
<1>3. k \notin dlFlight /\ ~Waiting(k) /\ dlGiven[k] = {}
  BY <1>1, KeyKnown
<1>4. dlAsked' \in Seq(LoadedKeys) /\ Len(dlAsked') = Len(dlAsked) + 1
      /\ (\A i \in 1 .. Len(dlAsked) : dlAsked'[i] = dlAsked[i]) /\ dlAsked'[Len(dlAsked) + 1] = k
  BY <1>1, AskedKnown, AppendProperties
<1>5. DlTypes'
  BY <1>1, <1>2, <1>4 DEF DlIInv, DlTypes
<1>6. ASSUME NEW d \in LoadedKeys PROVE GivenOK(d)'
  <2>1. CASE d = k
    BY <1>1, <1>3, <2>1 DEF GivenOK
  <2>2. CASE d # k
    BY <1>1, <1>2, <2>2, KeyKnown DEF GivenOK
  <2> QED BY <2>1, <2>2
<1>7. ASSUME NEW i \in 1 .. Len(dlAsked') PROVE i \in 1 .. Len(dlAsked) \/ (i = Len(dlAsked) + 1 /\ dlAsked'[i] = k)
  BY <1>4, <1>7, AskedKnown
<1>8. ASSUME NEW d \in dlFlight' PROVE dlAnswer'[d] = "asked" /\ ~Waiting(d)'
  <2>1. d # k /\ d \in LoadedKeys /\ dlAnswer[d] = "asked" /\ ~Waiting(d)
    BY <1>1, <1>3, <1>8 DEF DlIInv, DlTypes
  <2>2. \A i \in 1 .. Len(dlAsked') : dlAsked'[i] # d
    BY <1>4, <1>7, <2>1 DEF Waiting
  <2> QED BY <1>2, <2>1, <2>2 DEF Waiting
<1>9. \A i \in 1 .. Len(dlAsked') : dlAnswer'[dlAsked'[i]] = "asked"
  BY <1>2, <1>4, <1>7, AskedKnown
<1>10. \A i, j \in 1 .. Len(dlAsked') : i # j => dlAsked'[i] # dlAsked'[j]
  BY <1>3, <1>4, <1>7, AskedKnown DEF Waiting
<1> QED BY <1>5, <1>6, <1>8, <1>9, <1>10 DEF DlIInv

\* The first keys of a sequence are no more than they are.
LEMMA FirstKeys ==
    ASSUME NEW n \in Nat, NEW f
    PROVE  IsFiniteSet({f[i] : i \in 1 .. n}) /\ Cardinality({f[i] : i \in 1 .. n}) <= n
<1> DEFINE T == {f[i] : i \in 1 .. n}
           g == [i \in 1 .. n |-> f[i]]
<1>1. g \in Surjection(1 .. n, T)
  BY DEF Surjection
<1>2. IsFiniteSet(1 .. n) /\ Cardinality(1 .. n) = n
  <2>1. Cardinality(1 .. n) = IF 1 > n THEN 0 ELSE n - 1 + 1
    BY FS_Interval
  <2> QED BY <2>1, FS_Interval
<1> HIDE DEF T, g
<1>3. IsFiniteSet(T) /\ Cardinality(T) <= Cardinality(1 .. n)
  BY <1>1, <1>2, FS_Surjection
<1> QED BY <1>2, <1>3 DEF T

\* The batch takes the first of the keys that wait.
LEMMA BatchSent == ASSUME DlIInv, Dispatch PROVE DlIInv'
<1> DEFINE n == IF Len(dlAsked) > MaxBatch THEN MaxBatch ELSE Len(dlAsked)
<1>1. /\ UNCHANGED <<dlAnswer, dlGiven>> /\ dlFlight' = {dlAsked[i] : i \in 1 .. n}
      /\ dlAsked' = SubSeq(dlAsked, n + 1, Len(dlAsked))
  BY DEF Dispatch
<1>2. n \in Nat /\ n <= MaxBatch /\ n <= Len(dlAsked) /\ MaxBatch \in Nat
  BY GraphqlAssumption, AskedKnown
<1> HIDE DEF n
<1>3. IsFiniteSet(dlFlight') /\ Cardinality(dlFlight') <= MaxBatch
  <2>1. IsFiniteSet(dlFlight') /\ Cardinality(dlFlight') <= n
    BY <1>1, <1>2, FirstKeys
  <2>2. Cardinality(dlFlight') \in Nat
    BY <2>1, FS_CardinalityType
  <2> QED BY <1>2, <2>1, <2>2
<1>4. \A i \in 1 .. n : i \in 1 .. Len(dlAsked) /\ dlAsked[i] \in LoadedKeys
  BY <1>2, AskedKnown
<1>5. /\ dlAsked' \in Seq(LoadedKeys) /\ Len(dlAsked') \in Nat
      /\ \A i \in 1 .. Len(dlAsked') : dlAsked'[i] = dlAsked[n + i] /\ n + i \in 1 .. Len(dlAsked)
  <2>1. n + 1 \in Int /\ Len(dlAsked) \in Int /\ Len(dlAsked) \in Nat
    BY <1>2, AskedKnown
  <2>2. \A i \in n + 1 .. Len(dlAsked) : i \in 1 .. Len(dlAsked) /\ dlAsked[i] \in LoadedKeys
    BY <1>2, AskedKnown
  <2>3. /\ dlAsked' \in Seq(LoadedKeys)
        /\ Len(dlAsked') = IF n + 1 <= Len(dlAsked) THEN Len(dlAsked) - (n + 1) + 1 ELSE 0
        /\ \A i \in 1 .. Len(dlAsked) - (n + 1) + 1 : dlAsked'[i] = dlAsked[n + 1 + i - 1]
    BY <1>1, <2>1, <2>2, SubSeqProperties
  <2>4. Len(dlAsked') = Len(dlAsked) - n
    BY <1>2, <2>1, <2>3
  <2>5. \A i \in 1 .. Len(dlAsked') : n + 1 + i - 1 = n + i /\ n + i \in 1 .. Len(dlAsked)
                                        /\ i \in 1 .. Len(dlAsked) - (n + 1) + 1
    BY <1>2, <2>1, <2>4
  <2> QED BY <1>2, <2>1, <2>3, <2>4, <2>5
<1>6. dlFlight' \subseteq LoadedKeys
  BY <1>1, <1>4
<1>7. ASSUME NEW k \in dlFlight' PROVE dlAnswer'[k] = "asked" /\ ~Waiting(k)'
  <2>1. PICK i \in 1 .. n : k = dlAsked[i]
    BY <1>1
  <2>2. dlAnswer[k] = "asked"
    BY <1>4, <2>1, AskedKnown
  <2>3. \A j \in 1 .. Len(dlAsked') : i # n + j
    BY <1>2, <1>5
  <2>4. \A j \in 1 .. Len(dlAsked') : dlAsked'[j] # k
    BY <1>4, <1>5, <2>1, <2>3, AskedKnown
  <2> QED BY <1>1, <2>2, <2>4 DEF Waiting
<1>8. \A i \in 1 .. Len(dlAsked') : dlAnswer'[dlAsked'[i]] = "asked"
  BY <1>1, <1>5, AskedKnown
<1>9. ASSUME NEW i \in 1 .. Len(dlAsked'), NEW j \in 1 .. Len(dlAsked'), i # j PROVE dlAsked'[i] # dlAsked'[j]
  <2>1. n + i # n + j
    BY <1>2, <1>5, <1>9
  <2> QED BY <1>5, <2>1, AskedKnown
<1>10. \A k \in LoadedKeys : GivenOK(k)'
  BY <1>1, KeyKnown DEF GivenOK
<1>11. DlTypes'
  BY <1>1, <1>3, <1>5, <1>6 DEF DlIInv, DlTypes
<1> QED BY <1>7, <1>8, <1>9, <1>10, <1>11 DEF DlIInv

\* A batch that is over: what its keys hold and were given, and nothing of another key.
LEMMA BatchOver ==
    ASSUME DlIInv, dlFlight' = {}, UNCHANGED dlAsked,
           dlAnswer' \in [LoadedKeys -> {"unasked", "asked"} \cup Settled], dlGiven' \in [LoadedKeys -> SUBSET Settled],
           \A k \in LoadedKeys : GivenOK(k)', \A k \in LoadedKeys : k \notin dlFlight => dlAnswer'[k] = dlAnswer[k]
    PROVE  DlIInv'
<1>1. IsFiniteSet(dlFlight') /\ Cardinality(dlFlight') <= MaxBatch
  <2>1. IsFiniteSet({}) /\ Cardinality({}) = 0
    BY FS_EmptySet
  <2> QED BY <2>1, GraphqlAssumption
<1>2. DlTypes'
  BY <1>1 DEF DlIInv, DlTypes
<1>3. \A i \in 1 .. Len(dlAsked') : dlAnswer'[dlAsked'[i]] = "asked"
  <2>1. \A i \in 1 .. Len(dlAsked) : dlAsked[i] \notin dlFlight
    BY DEF DlIInv, Waiting
  <2> QED BY <2>1, AskedKnown
<1>4. \A i, j \in 1 .. Len(dlAsked') : i # j => dlAsked'[i] # dlAsked'[j]
  BY AskedKnown
<1> QED BY <1>2, <1>3, <1>4 DEF DlIInv

\* Each key of the batch is given its own row, for the first time.
LEMMA BatchAnswered == ASSUME DlIInv, BatchLoaded PROVE DlIInv'
<1> DEFINE RowOfKey(k) == IF k \in dlThere THEN "row" ELSE "none"
           kept == {k \in dlFlight : dlAnswer[k] = "asked" /\ \A i \in 1 .. Len(dlAsked) : dlAsked[i] # k}
<1>1. /\ dlAnswer' = [k \in LoadedKeys |-> IF k \in kept THEN RowOfKey(k) ELSE dlAnswer[k]]
      /\ dlGiven' = [k \in LoadedKeys |-> dlGiven[k] \cup (IF k \in kept THEN {RowOfKey(k)} ELSE {})]
      /\ dlFlight' = {} /\ UNCHANGED dlAsked
  BY DEF BatchLoaded
<1>2. \A k : RowOfKey(k) \in Settled
  BY DEF Settled
<1>3. \A k \in kept : k \in dlFlight /\ dlAnswer[k] = "asked"
  OBVIOUS
<1> HIDE DEF RowOfKey, kept
<1>4. dlAnswer' \in [LoadedKeys -> {"unasked", "asked"} \cup Settled]
  BY <1>1, <1>2, KeyKnown
<1>5. dlGiven' \in [LoadedKeys -> SUBSET Settled]
  BY <1>1, <1>2, KeyKnown
<1>6. ASSUME NEW k \in LoadedKeys PROVE GivenOK(k)'
  <2>1. CASE k \in kept
    <3>1. dlGiven[k] = {}
      BY <1>3, <2>1, KeyKnown
    <3> QED BY <1>1, <2>1, <3>1 DEF GivenOK
  <2>2. CASE k \notin kept
    <3>1. dlGiven'[k] = dlGiven[k] /\ dlAnswer'[k] = dlAnswer[k]
      BY <1>1, <2>2
    <3> QED BY <3>1, KeyKnown DEF GivenOK
  <2> QED BY <2>1, <2>2
<1>7. \A k \in LoadedKeys : k \notin dlFlight => dlAnswer'[k] = dlAnswer[k]
  BY <1>1, <1>3
<1> QED BY <1>1, <1>4, <1>5, <1>6, <1>7, BatchOver

\* The keys of a batch that failed are asked for again.
LEMMA BatchRejected == ASSUME DlIInv, BatchFailed PROVE DlIInv'
<1>1. /\ dlFlight' = {} /\ UNCHANGED dlAsked
      /\ dlAnswer' = [k \in LoadedKeys |->
                          IF k \in dlFlight /\ \A i \in 1 .. Len(dlAsked) : dlAsked[i] # k
                          THEN "unasked" ELSE dlAnswer[k]]
      /\ dlGiven' = [k \in LoadedKeys |-> IF k \in dlFlight THEN {} ELSE dlGiven[k]]
  BY DEF BatchFailed
<1>2. dlAnswer' \in [LoadedKeys -> {"unasked", "asked"} \cup Settled]
  BY <1>1, KeyKnown
<1>3. dlGiven' \in [LoadedKeys -> SUBSET Settled]
  BY <1>1, KeyKnown
<1>4. ASSUME NEW k \in LoadedKeys PROVE GivenOK(k)' /\ (k \notin dlFlight => dlAnswer'[k] = dlAnswer[k])
  <2>1. CASE k \in dlFlight
    BY <1>1, <2>1 DEF GivenOK
  <2>2. CASE k \notin dlFlight
    BY <1>1, <2>2, KeyKnown DEF GivenOK
  <2> QED BY <2>1, <2>2
<1> QED BY <1>1, <1>2, <1>3, <1>4, BatchOver

\* Another load is given what the promise holds.
LEMMA LoadedAgain == ASSUME DlIInv, NEW k \in LoadedKeys, LoadAgain(k) PROVE DlIInv'
<1> DEFINE a == dlAnswer[k]
           g == dlGiven[k] \cup {a}
<1>1. a \in Settled /\ UNCHANGED <<dlAsked, dlFlight, dlAnswer>> /\ dlGiven' = [dlGiven EXCEPT ![k] = g]
  BY DEF LoadAgain, Settled
<1>2. dlAnswer[k] # "asked" /\ a \in {"unasked", "asked"} \cup Settled
  BY <1>1 DEF Settled
<1>3. dlAnswer' = [dlAnswer EXCEPT ![k] = a]
  BY <1>1 DEF DlIInv, DlTypes
<1>4. g \in SUBSET Settled /\ g \subseteq {a}
  BY <1>1, KeyKnown DEF GivenOK
<1> HIDE DEF a, g
<1>5. UNCHANGED <<dlAsked, dlFlight>>
  BY <1>1
<1> QED BY <1>1, <1>2, <1>3, <1>4, <1>5, KeySettles

\* A primed key was not asked for.
LEMMA KeyPrimed == ASSUME DlIInv, NEW k \in LoadedKeys, primeCache(k) PROVE DlIInv'
<1>1. /\ dlAnswer[k] = "unasked" /\ UNCHANGED <<dlAsked, dlFlight, dlGiven>> /\ dlAnswer' = [dlAnswer EXCEPT ![k] = "row"]
  BY DEF primeCache
<1>2. dlGiven[k] = {} /\ dlAnswer[k] # "asked"
  BY <1>1, KeyKnown
<1>3. dlGiven' = [dlGiven EXCEPT ![k] = {}]
  BY <1>1, <1>2 DEF DlIInv, DlTypes
<1>4. "row" \in {"unasked", "asked"} \cup Settled /\ {} \in SUBSET Settled /\ {} \subseteq {"row"}
  BY DEF Settled
<1> QED BY <1>1, <1>2, <1>3, <1>4, KeySettles

\* A key that is cleared was settled, and is in no batch.
LEMMA KeyCleared == ASSUME DlIInv, NEW k \in LoadedKeys, clearCache(k) PROVE DlIInv'
<1>1. /\ dlAnswer[k] \in Settled /\ UNCHANGED <<dlAsked, dlFlight>>
      /\ dlAnswer' = [dlAnswer EXCEPT ![k] = "unasked"] /\ dlGiven' = [dlGiven EXCEPT ![k] = {}]
  BY DEF clearCache, Settled
<1>2. dlAnswer[k] # "asked"
  BY <1>1 DEF Settled
<1>3. "unasked" \in {"unasked", "asked"} \cup Settled /\ {} \in SUBSET Settled /\ {} \subseteq {"unasked"}
  OBVIOUS
<1> QED BY <1>1, <1>2, <1>3, KeySettles

\* Nothing of the loaders' own changes.
LEMMA LoadersKeep == ASSUME DlIInv, UNCHANGED <<dlAsked, dlFlight, dlAnswer, dlGiven>> PROVE DlIInv'
BY DEF DlIInv, DlTypes, GivenOK, Waiting

\* No key is asked for yet.
LEMMA LoadersStart == DlInit => DlIInv
<1> SUFFICES ASSUME DlInit PROVE DlIInv
  OBVIOUS
<1>1. IsFiniteSet({}) /\ Cardinality({}) = 0
  BY FS_EmptySet
<1>2. DlTypes
  BY <1>1, GraphqlAssumption DEF DlInit, DlTypes
<1>3. \A k \in LoadedKeys : GivenOK(k)
  BY DEF DlInit, GivenOK
<1>4. Len(dlAsked) = 0 /\ dlFlight = {}
  BY DEF DlInit
<1> QED BY <1>2, <1>3, <1>4 DEF DlIInv

\* Every step of the loaders keeps the answers one.
LEMMA LoadersStep == DlIInv /\ [DlNext]_dlVars => DlIInv'
<1> SUFFICES ASSUME DlIInv, [DlNext]_dlVars PROVE DlIInv'
  OBVIOUS
<1>1. CASE UNCHANGED dlVars
  BY <1>1, LoadersKeep DEF dlVars
<1>2. ASSUME NEW k \in LoadedKeys, RowComesOrGoes(k) PROVE DlIInv'
  BY <1>2, LoadersKeep DEF RowComesOrGoes
<1>3. ASSUME NEW k \in LoadedKeys, LoadKey(k) \/ LoadAgain(k) \/ primeCache(k) \/ clearCache(k) PROVE DlIInv'
  BY <1>3, KeyLoaded, LoadedAgain, KeyPrimed, KeyCleared
<1>4. CASE Dispatch \/ BatchLoaded \/ BatchFailed
  BY <1>4, BatchSent, BatchAnswered, BatchRejected
<1> QED BY <1>1, <1>2, <1>3, <1>4 DEF DlNext

\* What was given of a key is one answer.
LEMMA LoadersAreSafe == DlIInv => OneAnswerEach
<1> SUFFICES ASSUME DlIInv PROVE OneAnswerEach
  OBVIOUS
<1>1. ASSUME NEW k \in LoadedKeys PROVE Cardinality(dlGiven[k]) <= 1
  <2>1. dlGiven[k] \subseteq {dlAnswer[k]}
    BY KeyKnown DEF GivenOK
  <2>2. IsFiniteSet({dlAnswer[k]}) /\ Cardinality({dlAnswer[k]}) = 1
    BY FS_Singleton
  <2>3. Cardinality(dlGiven[k]) <= Cardinality({dlAnswer[k]})
    BY <2>1, <2>2, FS_Subset
  <2> QED BY <2>2, <2>3
<1> QED BY <1>1 DEF OneAnswerEach, DlIInv, DlTypes

(***************************************************************************)
(* The services together.                                                  *)
(***************************************************************************)
AccessIInv ==
    /\ AuIInv /\ PhIInv /\ PmIInv /\ PcIInv /\ PgIInv /\ ListIsWhole /\ GlIInv /\ MbIInv
    /\ VdIInv /\ VlIInv /\ VwIInv

\* Only the part in focus moves.
LEMMA PartsMove ==
    ASSUME [MCNext]_MCVars
    PROVE  /\ [AuNext]_auVars /\ [PhNext]_phVars /\ [PmNext]_pmVars /\ [PcNext]_pcVars /\ [PgNext]_pgVars /\ [PrNext]_prVars
           /\ [GlNext]_glVars /\ [MbNext]_mbVars /\ [WhNext]_whVars /\ [FpNext]_fpVars /\ [PtNext]_ptVars
           /\ [VdNext]_vdVars /\ [VlNext]_vlVars /\ [VwNext]_vwVars
           /\ [RcNext]_rcVars /\ [DlNext]_dlVars
BY DEF MCNext, MCVars, gqVars, OthersStay, WebhooksMove, AuthMoves, HubMoves, FilesMove, ProgressMoves, RoutingMoves,
   LimitsMove, BreakerMoves, PermissionsMove, PermissionClientMoves, PluginsMove, RegistryMoves, MemoryPoolMoves,
   DetectionMoves, LifecycleMoves, WindowsMove, TokensMove, OfflineQueueMoves, OptimisticMoves, RealtimeMoves,
   UsersMove, ResolversMove, LevelsMove, EdgeMoves, ResponsesMove, LoadersMove

\* Every part keeps its own invariant in the steps of all.
LEMMA AccessStep == AccessIInv /\ [MCNext]_MCVars => AccessIInv'
<1> SUFFICES ASSUME AccessIInv, [MCNext]_MCVars PROVE AccessIInv'
  OBVIOUS
<1>1. AuIInv' /\ PhIInv' /\ PmIInv' /\ PcIInv' /\ PgIInv' /\ ListIsWhole' /\ GlIInv' /\ MbIInv'
  BY PartsMove, AuStep, HubStep, PmStep, PcStep, PgStep, ListStays, GlStep, MbStep DEF AccessIInv
<1>2. VdIInv' /\ VlIInv' /\ VwIInv'
  BY PartsMove, VdStep, DatesStep, ScheduleStep, VwStep DEF AccessIInv, VlIInv
<1> QED BY <1>1, <1>2 DEF AccessIInv

\* Sessions, presence, permissions, limits, breaker, plugins and versions stay as the code keeps them, in every state
\* of the services and for every value of their constants.
THEOREM AccessHoldsAlways == MCSpec => []AccessHolds
<1>1. MCInit => AccessIInv
  <2> SUFFICES ASSUME MCInit PROVE AccessIInv
    OBVIOUS
  <2>1. AuIInv /\ PhIInv /\ PmIInv /\ PcIInv /\ PgIInv /\ ListIsWhole /\ GlIInv /\ MbIInv
    BY AuInitially, HubInitially, PmInitially, PcInitially, PgInitially, GlInitially, MbInitially DEF MCInit, PrInit, ListIsWhole
  <2>2. VdIInv /\ VlIInv /\ VwIInv
    BY VdInitially, VlInitially, VwInitially DEF MCInit
  <2> QED BY <2>1, <2>2 DEF AccessIInv
<1>2. AccessIInv => AccessHolds
  <2> SUFFICES ASSUME AccessIInv PROVE AccessHolds
    OBVIOUS
  <2>1. AuthSafety /\ HubSafety /\ PermissionSafety /\ LimitsSafety /\ MiddlewareBreakerSafety /\ PluginSafety
    BY SetsGiveSafety, OneAtATime, LimitsHold, BreakerHasWayOut DEF AccessIInv, PhIInv, PmIInv, PcIInv, PgIInv,
       PermissionSafety, PluginSafety
  <2>2. VersioningSafety
    BY OrderOfVersions, DetectionHolds, LifecycleHolds, WindowsHold DEF AccessIInv, VersioningSafety
  <2> QED BY <2>1, <2>2 DEF AccessHolds
<1> QED BY <1>1, <1>2, AccessStep, PTL DEF MCSpec

\* Webhook deliveries, the tasks of files and the progress of one arrive as the code keeps them, in every
\* state of the services and for every value of their constants.
THEOREM DeliveriesHoldAlways == MCSpec => []DeliveriesHold
<1> DEFINE Inv == WhIInv /\ FpIInv /\ PtIInv
<1>1. MCInit => Inv
  BY WebhookStart, FileStart, TrackerStart, WebhookAssumption, FileAssumption DEF MCInit
<1>2. Inv /\ [MCNext]_MCVars => Inv'
  BY PartsMove, WebhookStep, FileStep, TrackerStep, WebhookAssumption, FileAssumption
<1>3. Inv => DeliveriesHold
  BY FilesAreSafe, TrackerIsSafe, FileAssumption
     DEF WhIInv, RowOK, WebhookSafety, AttemptIsHeld, DeliveredWasSent, AbandonedIsDead, DeliveriesHold
<1> QED BY <1>1, <1>2, <1>3, PTL DEF MCSpec

\* The invariants of the copies, which share no variable but the count of the frontend's faults.
CopiesIInv == UsIInv /\ MlIInv /\ EcIInv /\ FcTIInv /\ FcQIInv /\ FoIInv /\ FrIInv /\ RcIInv /\ DlIInv

\* Only the copies in focus move, and of the frontend's calls and queue only one counts a fault.
LEMMA CopiesMove ==
    ASSUME [MCNext]_MCVars
    PROVE  /\ [UsNext]_usVars /\ [MlNext]_mlVars /\ [EcNext]_ecVars /\ [FoNext]_foVars /\ [FrNext]_frVars
           /\ \/ FcTokensNext /\ UNCHANGED fcQueueVars
              \/ FcQueueNext /\ UNCHANGED fcTokenVars
              \/ UNCHANGED fcTokenVars /\ UNCHANGED fcQueueVars /\ UNCHANGED fcFaults
<1>1. [UsNext]_usVars /\ [MlNext]_mlVars /\ [EcNext]_ecVars /\ [FoNext]_foVars /\ [FrNext]_frVars
  BY DEF MCNext, MCVars, OthersStay, WebhooksMove, AuthMoves, HubMoves, FilesMove, ProgressMoves, RoutingMoves,
     LimitsMove, BreakerMoves, PermissionsMove, PermissionClientMoves, PluginsMove, RegistryMoves, MemoryPoolMoves,
     DetectionMoves, LifecycleMoves, WindowsMove, TokensMove, OfflineQueueMoves, OptimisticMoves, RealtimeMoves,
     UsersMove, ResolversMove, LevelsMove, EdgeMoves, ResponsesMove, LoadersMove
<1>2. CASE TokensMove
  BY <1>1, <1>2 DEF TokensMove, OthersStay
<1>3. CASE OfflineQueueMoves
  BY <1>1, <1>3 DEF OfflineQueueMoves, OthersStay
<1>4. CASE UNCHANGED MCVars
  BY <1>1, <1>4 DEF MCVars, fcVars
<1>5. CASE MCNext /\ ~TokensMove /\ ~OfflineQueueMoves
  <2>1. focus \notin {"tokens", "offline queue"} /\ OthersStay
    BY <1>5 DEF MCNext, WebhooksMove, AuthMoves, HubMoves, FilesMove, ProgressMoves, RoutingMoves,
       LimitsMove, BreakerMoves, PermissionsMove, PermissionClientMoves, PluginsMove, RegistryMoves, MemoryPoolMoves,
       DetectionMoves, LifecycleMoves, WindowsMove, OptimisticMoves, RealtimeMoves,
       UsersMove, ResolversMove, LevelsMove, EdgeMoves, ResponsesMove, LoadersMove
  <2>2. UNCHANGED fcTokenVars /\ UNCHANGED fcQueueVars /\ UNCHANGED fcFaults
    BY <2>1 DEF OthersStay
  <2> QED BY <1>1, <2>2
<1> QED BY <1>2, <1>3, <1>4, <1>5

\* Each copy keeps its own invariant in the steps of all.
LEMMA CopiesStep == CopiesIInv /\ [MCNext]_MCVars => CopiesIInv'
<1> SUFFICES ASSUME CopiesIInv, [MCNext]_MCVars PROVE CopiesIInv'
  OBVIOUS
<1>1. UsIInv' /\ MlIInv' /\ EcIInv'
  BY CopiesMove, UsersStep, UsersStutter, LevelsStep, LevelsStutter, EdgeStep, EdgeStutter DEF CopiesIInv
<1>2. FoIInv' /\ FrIInv'
  BY CopiesMove, UpdatesStep, UpdatesStutter, RealtimeStep, RealtimeStutter DEF CopiesIInv
<1>3. FcTIInv' /\ FcQIInv'
  <2>1. CASE FcTokensNext /\ UNCHANGED fcQueueVars
    BY <2>1, TokensStep, QueueStands DEF CopiesIInv
  <2>2. CASE FcQueueNext /\ UNCHANGED fcTokenVars
    BY <2>2, QueueStep, TokensStand DEF CopiesIInv
  <2>3. CASE UNCHANGED fcTokenVars /\ UNCHANGED fcQueueVars /\ UNCHANGED fcFaults
    <3>1. fcFaults \in Nat
      BY DEF CopiesIInv, FcTIInv
    <3>2. fcFaults' \in Nat /\ fcFaults' >= fcFaults
      BY <2>3, <3>1
    <3> QED BY <2>3, <3>2, TokensStand, QueueStands DEF CopiesIInv
  <2> QED BY CopiesMove, <2>1, <2>2, <2>3
<1>4. RcIInv' /\ DlIInv'
  BY PartsMove, ResponsesStep, LoadersStep DEF CopiesIInv
<1> QED BY <1>1, <1>2, <1>3, <1>4 DEF CopiesIInv

\* Cached rows and lists, the levels of the cache and the edge, the tokens, the offline queue, the optimistic
\* updates, the realtime subscriptions and the GraphQL gateway's responses and rows follow what they are copies of,
\* in every state of the services and for every value of their constants.
THEOREM CopiesHoldAlways == MCSpec => []CopiesHold
<1>1. MCInit => CopiesIInv
  BY UsersStart, LevelsStart, EdgeStart, TokensStart, QueueStart, UpdatesStart, RealtimeStart, ResponsesStart, LoadersStart
     DEF MCInit, GqInit, CopiesIInv
<1>2. CopiesIInv => CopiesHold
  <2> SUFFICES ASSUME CopiesIInv PROVE CopiesHold
    OBVIOUS
  <2>1. UserServiceSafety
    BY UsersAreSafe DEF CopiesIInv
  <2>2. CachingSafety
    BY LevelsAreSafe, EdgeIsSafe DEF CopiesIInv, CachingSafety
  <2>3. FrontendSafety
    BY QueueIsSafe, UpdatesAreSafe, RealtimeIsSafe DEF CopiesIInv, FcTIInv, FrontendSafety
  <2>4. TagFindsEntries /\ OneAnswerEach
    BY ResponsesAreSafe, LoadersAreSafe DEF CopiesIInv
  <2> QED BY <2>1, <2>2, <2>3, <2>4 DEF CopiesHold
<1> QED BY <1>1, <1>2, CopiesStep, PTL DEF MCSpec
=============================================================================
