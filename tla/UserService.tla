----------------------------- MODULE UserService -----------------------------
(***************************************************************************)
(* The user service (user-service/internal): its handlers, the service behind *)
(* them, the users table without a version column, and the Redis copies of      *)
(* users, of first pages and of statistics, dropped after each write.  And the   *)
(* GraphQL resolvers (user-service/graphql) over services of which the           *)
(* repository has only the calls.                                                *)
(***************************************************************************)
EXTENDS Integers, FiniteSets

CONSTANTS
    Accounts,      \* user IDs, in the order a list is sorted by
    AccountTenant, \* [Accounts -> Tenants]
    AccountEmail,  \* [Accounts -> e-mail addresses]
    UserCalls,     \* requests served at once
    PageSizes,     \* page sizes asked for
    MaxUserCalls, MaxUserFaults,  \* bounds: requests served; failed accesses and expiries
    Resolvers, MaxResolved        \* GraphQL requests at once; bound on them

ASSUME UserServiceAssumption ==
    /\ IsFiniteSet(Accounts) /\ Accounts # {} /\ DOMAIN AccountEmail = Accounts
    /\ AccountTenant \in [Accounts -> STRING \ {"everybody"}]
    /\ MaxUserCalls \in Nat /\ MaxUserFaults \in Nat /\ PageSizes \subseteq Nat \ {0}

VARIABLES
    usRow,                    \* the users table
    usUser, usList, usStats,  \* the Redis keys user:*, userlist:tenant:*, stats:*
    usCall, usCalls, usFaults,
    usLate,      \* history: keys whose value no code would drop
    usLast, usUnchecked, \* history: the last value written of each field; rows written past a check
    ugLast, ugActivities, ugResolved

usCaches == <<usUser, usList, usStats, usLate>>
usVars == <<usRow, usUser, usList, usStats, usCall, usCalls, usFaults, usLate, usLast, usUnchecked>>
ugVars == <<ugLast, ugActivities, ugResolved>>

AccountTenants == {AccountTenant[a] : a \in Accounts}
\* A filter without a tenant lists everybody.
ListFilters == AccountTenants \cup {"everybody"}
UserFields == {"profile", "metadata"}
UserRow == [state : {"none", "live", "deleted"}, profile : 0 .. MaxUserCalls, metadata : 0 .. MaxUserCalls]
AbsentUser == [state |-> "none", profile |-> 0, metadata |-> 0]
\* A page: the rows of its users, whose order is that of their identities.
NoList == <<>>
NoStats == [total |-> -1, roles |-> -1]

OfFilter(a, t) == t = "everybody" \/ AccountTenant[a] = t
LiveIn(t) == {a \in Accounts : usRow[a].state = "live" /\ OfFilter(a, t)}
\* The first page of the live users of a filter: the newest come first.
Listed(live, size) == {a \in live : Cardinality({b \in live : b > a}) < size}
FirstPage(t, size) == [a \in Listed(LiveIn(t), size) |-> usRow[a]]
CountUsers(t) == Cardinality(LiveIn(t))

UserKey(a) == <<"user", a>>
ListKeyOf(t) == <<"userlist", t>>
StatsKey(t) == <<"stats", t>>

IdleUserCall == [at |-> "idle", kind |-> "get", of |-> CHOOSE a \in Accounts : TRUE, tenant |-> "everybody",
             row |-> AbsentUser, field |-> "profile", size |-> 1, list |-> NoList, stats |-> NoStats,
             todo |-> {}, overtaken |-> FALSE]
CallAt(r, at) == usCall[r].at = at
UserCallGoes(r, at) == usCall' = [usCall EXCEPT ![r].at = at]
CallEnds(r) == usCall' = [usCall EXCEPT ![r] = IdleUserCall]
UserFault == usFaults < MaxUserFaults /\ usFaults' = usFaults + 1
NoUserFault == UNCHANGED usFaults

----------------------------------------------------------------------------
(***************************************************************************)
(* The handlers.                                                             *)
(***************************************************************************)
\* GetUser, UpdateUser and DeleteUser look the user up first; UpdateCurrentUser does not.
UserHandler(kind) ==
    CASE kind \in {"get", "update", "delete"} -> "cached"
      [] kind = "updateCurrent" -> "read"
      [] kind = "create" -> "email"
      [] kind = "bulk" -> "bulk"
      [] kind = "list" -> "cachedList"
      [] kind = "stats" -> "cachedStats"
\* The tenant of the requester decides, by the tenant of the user that was found.
AccessAllowed(c) == c.tenant = AccountTenant[c.of]
UserKinds == {"get", "update", "updateCurrent", "delete", "create", "bulk", "list", "stats"}
Request(kind, of, tenant, field, size) ==
    [IdleUserCall EXCEPT !.kind = kind, !.at = UserHandler(kind), !.of = of, !.tenant = tenant, !.field = field,
                         !.size = size, !.todo = IF kind = "bulk" THEN Accounts ELSE {}]
UserArrives(r) ==
    /\ CallAt(r, "idle") /\ usCalls < MaxUserCalls /\ usCalls' = usCalls + 1
    /\ \E kind \in UserKinds, of \in Accounts, tenant \in ListFilters, field \in UserFields, size \in PageSizes :
          /\ kind \notin {"update", "updateCurrent"} => field = "profile"
          /\ kind # "list" => size = 1
          /\ kind \in {"list", "stats"} => of = IdleUserCall.of
          /\ kind \in {"get", "updateCurrent", "create", "bulk"} => tenant = "everybody"
          /\ usCall' = [usCall EXCEPT ![r] = Request(kind, of, tenant, field, size)]
    /\ UNCHANGED <<usRow, usLast, usUnchecked, usFaults>> /\ UNCHANGED usCaches

----------------------------------------------------------------------------
(***************************************************************************)
(* GetUser: the copy, else the row, which is copied.                         *)
(***************************************************************************)
AfterLookup(r) ==
    IF usCall[r].kind = "get" \/ ~AccessAllowed(usCall[r]) THEN CallEnds(r) ELSE UserCallGoes(r, "read")
GetCachedUser(r) ==
    /\ CallAt(r, "cached")
    /\ \/ usUser[usCall[r].of] # AbsentUser /\ AfterLookup(r) /\ NoUserFault
       \/ usUser[usCall[r].of] = AbsentUser /\ UserCallGoes(r, "find") /\ NoUserFault
       \/ UserFault /\ UserCallGoes(r, "find")
    /\ UNCHANGED <<usRow, usLast, usUnchecked, usCalls>> /\ UNCHANGED usCaches
FindByID(r, at) ==
    /\ IF usRow[usCall[r].of].state = "live"
       THEN usCall' = [usCall EXCEPT ![r].at = at, ![r].row = usRow[usCall[r].of], ![r].overtaken = FALSE]
       ELSE CallEnds(r)
    /\ NoUserFault
FindUser(r) ==
    /\ CallAt(r, "find") /\ (FindByID(r, "fill") \/ (UserFault /\ CallEnds(r)))
    /\ UNCHANGED <<usRow, usLast, usUnchecked, usCalls>> /\ UNCHANGED usCaches
\* A value stored after it went out of date is one that no later removal is owed for.
Fills(key, current) == usLate' = IF current THEN usLate \ {key} ELSE usLate \cup {key}
SetUser(r) ==
    LET a == usCall[r].of IN
    /\ CallAt(r, "fill") /\ AfterLookup(r)
    /\ \/ /\ usUser' = [usUser EXCEPT ![a] = usCall[r].row]
          /\ Fills(UserKey(a), usCall[r].row = usRow[a]) /\ NoUserFault
       \/ UserFault /\ UNCHANGED <<usUser, usLate>>
    /\ UNCHANGED <<usRow, usLast, usUnchecked, usCalls, usList, usStats>>

----------------------------------------------------------------------------
(***************************************************************************)
(* UpdateUser and DeleteUser read the row again and write; a write that is     *)
(* read past marks the calls it overtakes.                                     *)
(***************************************************************************)
ReadUser(r) ==
    /\ CallAt(r, "read") /\ (FindByID(r, "write") \/ (UserFault /\ CallEnds(r)))
    /\ UNCHANGED <<usRow, usLast, usUnchecked, usCalls>> /\ UNCHANGED usCaches
Overtakes(r, at, becomes) ==
    usCall' = [q \in UserCalls |->
        IF q = r THEN becomes
        ELSE IF usCall[q].of = usCall[r].of /\ usCall[q].at = at THEN [usCall[q] EXCEPT !.overtaken = TRUE]
        ELSE usCall[q]]
\* Every column of the row as it was read, with the requested ones changed: the last writer wins.
UpdateUser(r) ==
    LET c == usCall[r]
        written == [c.row EXCEPT ![c.field] = usCalls] IN
    /\ CallAt(r, "write") /\ c.kind \in {"update", "updateCurrent"}
    /\ \/ /\ usRow[c.of].state = "live" /\ usRow' = [usRow EXCEPT ![c.of] = written]
          /\ usLast' = [usLast EXCEPT ![c.of] = [@ EXCEPT ![c.field] = usCalls]]
          /\ usUnchecked' = IF c.overtaken THEN usUnchecked \cup {c.of} ELSE usUnchecked
          /\ Overtakes(r, "write", [c EXCEPT !.at = "dropUser"]) /\ NoUserFault
       \/ /\ \/ usRow[c.of].state # "live" /\ NoUserFault
             \/ UserFault
          /\ CallEnds(r) /\ UNCHANGED <<usRow, usLast, usUnchecked>>
    /\ UNCHANGED usCalls /\ UNCHANGED usCaches
DeleteUser(r) ==
    LET c == usCall[r] IN
    /\ CallAt(r, "write") /\ c.kind = "delete"
    /\ \/ /\ usRow[c.of].state = "live" /\ usRow' = [usRow EXCEPT ![c.of].state = "deleted"]
          /\ UserCallGoes(r, "dropUser") /\ NoUserFault
       \/ /\ usRow[c.of].state # "live" /\ NoUserFault /\ CallEnds(r) /\ UNCHANGED usRow
       \/ UserFault /\ CallEnds(r) /\ UNCHANGED usRow
    /\ UNCHANGED <<usLast, usUnchecked, usCalls>> /\ UNCHANGED usCaches

----------------------------------------------------------------------------
(***************************************************************************)
(* CreateUser asks for the e-mail first and ignores the error of asking;       *)
(* BulkCreate asks nothing, and its rows do not go through its transaction.     *)
(***************************************************************************)
EmailTaken(a) == \E b \in Accounts : usRow[b].state = "live" /\ AccountEmail[b] = AccountEmail[a]
FindByEmail(r) ==
    /\ CallAt(r, "email")
    /\ \/ EmailTaken(usCall[r].of) /\ CallEnds(r) /\ NoUserFault
       \/ ~EmailTaken(usCall[r].of) /\ UserCallGoes(r, "insert") /\ NoUserFault
       \/ UserFault /\ usCall' = [usCall EXCEPT ![r].at = "insert", ![r].overtaken = TRUE]
    /\ UNCHANGED <<usRow, usLast, usUnchecked, usCalls>> /\ UNCHANGED usCaches
NewUser(n) == [state |-> "live", profile |-> n, metadata |-> n]
CreatesRow(a) ==
    /\ usRow[a].state = "none" /\ usRow' = [usRow EXCEPT ![a] = NewUser(usCalls)]
    /\ usLast' = [usLast EXCEPT ![a] = [profile |-> usCalls, metadata |-> usCalls]]
SameEmail(a, b) == AccountEmail[a] = AccountEmail[b]
CreateUser(r) ==
    LET c == usCall[r] IN
    /\ CallAt(r, "insert")
    /\ \/ /\ CreatesRow(c.of) /\ NoUserFault
          /\ usUnchecked' = IF c.overtaken THEN usUnchecked \cup {c.of} ELSE usUnchecked
          /\ usCall' = [q \in UserCalls |->
                IF q = r THEN [c EXCEPT !.at = "dropLists"]
                ELSE IF usCall[q].at = "insert" /\ SameEmail(usCall[q].of, c.of)
                     THEN [usCall[q] EXCEPT !.overtaken = TRUE] ELSE usCall[q]]
       \/ /\ (usRow[c.of].state # "none" /\ NoUserFault) \/ UserFault
          /\ CallEnds(r) /\ UNCHANGED <<usRow, usLast, usUnchecked>>
    /\ UNCHANGED usCalls /\ UNCHANGED usCaches
\* The keys of a tenant that a change of its members makes wrong.
TenantKeys(t) == {ListKeyOf(t), StatsKey(t)}
\* The request has the users in any order.
BulkCreate(r) ==
    LET c == usCall[r] IN
    /\ CallAt(r, "bulk")
    /\ \/ \E a \in c.todo :
          /\ CreatesRow(a) /\ NoUserFault /\ usUnchecked' = usUnchecked \cup {a}
          /\ usCall' = [usCall EXCEPT ![r] = [c EXCEPT !.todo = c.todo \ {a}, !.of = a,
                                                      !.at = IF c.todo = {a} THEN "dropLists" ELSE "bulk"]]
          /\ UNCHANGED usLate
       \/ \* one row failed: the ones before it stay, and no copy is dropped for them
          /\ ((\E a \in c.todo : usRow[a].state # "none") /\ NoUserFault) \/ UserFault
          /\ CallEnds(r)
          /\ usLate' = usLate \cup UNION {TenantKeys(t) : t \in AccountTenants}
          /\ UNCHANGED <<usRow, usLast, usUnchecked>>
    /\ UNCHANGED <<usCalls, usUser, usList, usStats>>

----------------------------------------------------------------------------
(***************************************************************************)
(* InvalidateUserCache: the user, then every list.  InvalidateTenantCache: the *)
(* lists of the tenant, then its statistics.  Neither error is looked at.       *)
(***************************************************************************)
DropUser(r) ==
    LET a == usCall[r].of IN
    /\ CallAt(r, "dropUser")
    /\ \/ /\ usUser' = [usUser EXCEPT ![a] = AbsentUser] /\ usLate' = usLate \ {UserKey(a)}
          /\ UserCallGoes(r, "dropAllLists") /\ NoUserFault
       \/ /\ UserFault /\ usLate' = usLate \cup {UserKey(a)} \cup {ListKeyOf(t) : t \in AccountTenants}
          /\ IF usCall[r].kind = "delete" THEN UserCallGoes(r, "dropLists") ELSE CallEnds(r)
          /\ UNCHANGED usUser
    /\ UNCHANGED <<usRow, usLast, usUnchecked, usCalls, usList, usStats>>
InvalidateUserCache(r) ==
    /\ CallAt(r, "dropAllLists")
    /\ IF usCall[r].kind = "delete" THEN UserCallGoes(r, "dropLists") ELSE CallEnds(r)
    /\ \/ /\ usList' = [t \in ListFilters |-> NoList]
          /\ usLate' = usLate \ {ListKeyOf(t) : t \in ListFilters} /\ NoUserFault
       \/ UserFault /\ usLate' = usLate \cup {ListKeyOf(t) : t \in AccountTenants} /\ UNCHANGED usList
    /\ UNCHANGED <<usRow, usLast, usUnchecked, usCalls, usUser, usStats>>
\* Mutant: a bulk creation drops no copy.
DroppedTenantsOfOneUser(c) == IF c.kind = "bulk" THEN {} ELSE {AccountTenant[c.of]}
\* The tenants whose copies the call drops.
DroppedTenants(c) == IF c.kind = "bulk" THEN AccountTenants ELSE {AccountTenant[c.of]}
InvalidateTenantCache(r) ==
    LET ts == DroppedTenants(usCall[r]) IN
    /\ UNCHANGED <<usRow, usLast, usUnchecked, usCalls, usUser>>
    /\ \/ /\ CallAt(r, "dropLists") /\ UserCallGoes(r, "dropStats") /\ UNCHANGED usStats
          /\ usList' = [t \in ListFilters |-> IF t \in ts THEN NoList ELSE usList[t]]
          /\ usLate' = usLate \ {ListKeyOf(t) : t \in ts} /\ NoUserFault
       \/ /\ CallAt(r, "dropStats") /\ CallEnds(r) /\ UNCHANGED usList
          /\ usStats' = [t \in ListFilters |-> IF t \in ts THEN NoStats ELSE usStats[t]]
          /\ usLate' = usLate \ {StatsKey(t) : t \in ts} /\ NoUserFault
       \/ /\ usCall[r].at \in {"dropLists", "dropStats"} /\ UserFault /\ CallEnds(r)
          /\ usLate' = usLate \cup UNION {TenantKeys(t) : t \in ts} /\ UNCHANGED <<usList, usStats>>

----------------------------------------------------------------------------
(***************************************************************************)
(* ListUsers keeps the first page of any size under one key, unless it is       *)
(* empty; GetUserStats counts with one query after another.                     *)
(***************************************************************************)
GetUserList(r) ==
    LET t == usCall[r].tenant IN
    /\ CallAt(r, "cachedList")
    /\ \/ usList[t] # NoList /\ CallEnds(r) /\ NoUserFault
       \/ usList[t] = NoList /\ UserCallGoes(r, "list") /\ NoUserFault
       \/ UserFault /\ UserCallGoes(r, "list")
    /\ UNCHANGED <<usRow, usLast, usUnchecked, usCalls>> /\ UNCHANGED usCaches
ListRows(r) ==
    LET page == FirstPage(usCall[r].tenant, usCall[r].size) IN
    /\ CallAt(r, "list")
    /\ \/ /\ NoUserFault
          /\ IF page = NoList THEN CallEnds(r)
             ELSE usCall' = [usCall EXCEPT ![r].at = "fillList", ![r].list = page]
       \/ UserFault /\ CallEnds(r)
    /\ UNCHANGED <<usRow, usLast, usUnchecked, usCalls>> /\ UNCHANGED usCaches
SetUserList(r) ==
    LET c == usCall[r] IN
    /\ CallAt(r, "fillList") /\ CallEnds(r)
    /\ \/ /\ usList' = [usList EXCEPT ![c.tenant] = c.list]
          /\ Fills(ListKeyOf(c.tenant), c.list = FirstPage(c.tenant, c.size)) /\ NoUserFault
       \/ UserFault /\ UNCHANGED <<usList, usLate>>
    /\ UNCHANGED <<usRow, usLast, usUnchecked, usCalls, usUser, usStats>>
GetCachedStats(r) ==
    /\ CallAt(r, "cachedStats")
    /\ \/ usStats[usCall[r].tenant] # NoStats /\ CallEnds(r) /\ NoUserFault
       \/ usStats[usCall[r].tenant] = NoStats /\ UserCallGoes(r, "total") /\ NoUserFault
       \/ UserFault /\ UserCallGoes(r, "total")
    /\ UNCHANGED <<usRow, usLast, usUnchecked, usCalls>> /\ UNCHANGED usCaches
GetStats(r) ==
    LET n == CountUsers(usCall[r].tenant) IN
    /\ \/ /\ CallAt(r, "total") /\ NoUserFault
          /\ usCall' = [usCall EXCEPT ![r].at = "byRole", ![r].stats.total = n]
       \/ /\ CallAt(r, "byRole") /\ NoUserFault
          /\ usCall' = [usCall EXCEPT ![r].at = "fillStats", ![r].stats.roles = n]
       \/ usCall[r].at \in {"total", "byRole"} /\ UserFault /\ CallEnds(r)
    /\ UNCHANGED <<usRow, usLast, usUnchecked, usCalls>> /\ UNCHANGED usCaches
SetStats(r) ==
    LET t == usCall[r].tenant
        s == usCall[r].stats IN
    /\ CallAt(r, "fillStats") /\ CallEnds(r)
    /\ \/ /\ usStats' = [usStats EXCEPT ![t] = s] /\ NoUserFault
          /\ Fills(StatsKey(t), s = [total |-> CountUsers(t), roles |-> CountUsers(t)])
       \/ UserFault /\ UNCHANGED <<usStats, usLate>>
    /\ UNCHANGED <<usRow, usLast, usUnchecked, usCalls, usUser, usList>>
\* Fifteen minutes for a user, five for a list, an hour for statistics.
CopyExpires ==
    /\ UserFault
    /\ \/ /\ \E a \in Accounts : /\ usUser[a] # AbsentUser /\ usUser' = [usUser EXCEPT ![a] = AbsentUser]
                                 /\ usLate' = usLate \ {UserKey(a)}
          /\ UNCHANGED <<usList, usStats>>
       \/ /\ \E t \in ListFilters : /\ usList[t] # NoList /\ usList' = [usList EXCEPT ![t] = NoList]
                                    /\ usLate' = usLate \ {ListKeyOf(t)}
          /\ UNCHANGED <<usUser, usStats>>
    /\ UNCHANGED <<usRow, usLast, usUnchecked, usCalls, usCall>>

----------------------------------------------------------------------------
(***************************************************************************)
(* The GraphQL resolvers.                                                    *)
(***************************************************************************)
ResolverKinds == {"me", "user", "users", "search", "permissions", "notifications", "available",
                  "register", "login", "updateUser", "batch"}
OwnOrAdmin(q) == q.by = q.of \/ q.role = "ADMIN"
ResolverAllows(q) ==
    CASE q.kind \in {"me", "updateUser"} -> q.by # ""
      [] q.kind \in {"user", "permissions"} -> OwnOrAdmin(q)
      [] q.kind = "notifications" -> q.by = q.of
      [] q.kind = "register" -> q.valid
      [] OTHER -> TRUE
\* What the service behind it answers: a list of IDs may miss some; a batch turns an error into an empty entry.
ResolverAnswer(q, answer) ==
    CASE q.kind = "batch" -> "answered"
      [] answer = "error" -> "error"
      [] answer = "nobody" /\ q.kind \in {"me", "updateUser"} -> "panic"
      [] answer = "nobody" -> "empty"
      [] OTHER -> "answered"
LogsActivity(q, answer) ==
    q.kind \in {"register", "updateUser", "login"} /\ answer = "found"
Resolve(g) ==
    /\ ugResolved < MaxResolved /\ ugResolved' = ugResolved + 1
    /\ \E kind \in ResolverKinds, by \in {"", "self"}, of \in {"self", "other"}, role \in {"", "ADMIN"},
          valid \in BOOLEAN, answer \in {"found", "nobody", "error"} :
          LET q == [kind |-> kind, by |-> by, of |-> of, role |-> role, valid |-> valid] IN
          /\ kind = "register" => answer # "nobody"
          /\ IF ~ResolverAllows(q)
             THEN ugLast' = [ugLast EXCEPT ![g] = "refused"] /\ UNCHANGED ugActivities
             ELSE /\ ugLast' = [ugLast EXCEPT ![g] = ResolverAnswer(q, answer)]
                  /\ ugActivities' = IF LogsActivity(q, answer) THEN ugActivities + 1 ELSE ugActivities

----------------------------------------------------------------------------
UsInit ==
    /\ usRow = [a \in Accounts |-> AbsentUser] /\ usUser = [a \in Accounts |-> AbsentUser]
    /\ usList = [t \in ListFilters |-> NoList] /\ usStats = [t \in ListFilters |-> NoStats]
    /\ usCall = [r \in UserCalls |-> IdleUserCall] /\ usCalls = 0 /\ usFaults = 0
    /\ usLate = {} /\ usLast = [a \in Accounts |-> [profile |-> 0, metadata |-> 0]] /\ usUnchecked = {}
UgInit ==
    /\ ugLast = [g \in Resolvers |-> "none"] /\ ugActivities = 0 /\ ugResolved = 0

UserCallStep(r) ==
    \/ GetCachedUser(r) \/ FindUser(r) \/ SetUser(r) \/ ReadUser(r) \/ UpdateUser(r) \/ DeleteUser(r)
    \/ FindByEmail(r) \/ CreateUser(r) \/ BulkCreate(r)
    \/ DropUser(r) \/ InvalidateUserCache(r) \/ InvalidateTenantCache(r)
    \/ GetUserList(r) \/ ListRows(r) \/ SetUserList(r)
    \/ GetCachedStats(r) \/ GetStats(r) \/ SetStats(r)
UsNext == (\E r \in UserCalls : UserArrives(r) \/ UserCallStep(r)) \/ CopyExpires
UgNext == \E g \in Resolvers : Resolve(g)

----------------------------------------------------------------------------
UsTypeOK ==
    /\ usRow \in [Accounts -> UserRow] /\ usUser \in [Accounts -> UserRow]
    /\ \A t \in ListFilters : /\ DOMAIN usList[t] \subseteq Accounts
                              /\ \A a \in DOMAIN usList[t] : usList[t][a] \in UserRow
    /\ usStats \in [ListFilters -> [total : -1 .. Cardinality(Accounts), roles : -1 .. Cardinality(Accounts)]]
    /\ usUnchecked \subseteq Accounts /\ usFaults \in 0 .. MaxUserFaults
    /\ ugActivities \in 0 .. ugResolved

\* The keys a call under way will still drop.
Owes(c) ==
    IF c.at = "bulk" /\ c.todo # {} THEN UNION {TenantKeys(t) : t \in AccountTenants}
    ELSE (IF c.at = "dropUser" THEN {UserKey(c.of)} ELSE {})
         \cup (IF c.at \in {"dropUser", "dropAllLists"} THEN {ListKeyOf(t) : t \in ListFilters} ELSE {})
         \cup (IF c.at \in {"dropUser", "dropAllLists", "dropLists", "dropStats"}
               THEN UNION {TenantKeys(t) : t \in DroppedTenants(c)} ELSE {})
Excused(key) == key \in usLate \/ \E r \in UserCalls : key \in Owes(usCall[r])
\* Once every write has dropped its copies, a copied user is the row, a tenant's copied page is its first
\* page of some size, and its copied statistics count its users: a copy can be out of date only when it
\* was stored by a read that the write overtook, or when Redis or a bulk insert failed.
CopiesAreCurrent ==
    /\ \A a \in Accounts : usUser[a] \in {AbsentUser, usRow[a]} \/ Excused(UserKey(a))
    /\ \A t \in AccountTenants :
          /\ usList[t] = NoList \/ (\E n \in PageSizes : usList[t] = FirstPage(t, n)) \/ Excused(ListKeyOf(t))
          /\ \/ usStats[t] \in {NoStats, [total |-> CountUsers(t), roles |-> CountUsers(t)]}
             \/ Excused(StatsKey(t))
\* An edit is lost only to another edit of the same user that was being made at the same time.
EditsStay ==
    \A a \in Accounts \ usUnchecked : \A f \in UserFields : usRow[a][f] = usLast[a][f]
\* Two live users share an e-mail only when one was inserted past the question whether it is taken.
EmailsApart ==
    \A a, b \in Accounts \ usUnchecked :
       a # b /\ usRow[a].state = "live" /\ usRow[b].state = "live" => ~SameEmail(a, b)

\* The three together: what the table and its copies keep while requests overlap and stores fail.
UserServiceSafety == CopiesAreCurrent /\ EditsStay /\ EmailsApart
=============================================================================
