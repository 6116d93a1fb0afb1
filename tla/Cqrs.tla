-------------------------------- MODULE Cqrs --------------------------------
(***************************************************************************)
(* The CQRS read side (pkg/cqrs): the projection manager with its four        *)
(* strategies, the user and workspace projection handlers over Postgres, and  *)
(* the query service with its cache.  A transaction is READ COMMITTED: it      *)
(* reads committed rows and its own writes, and a written row stays locked     *)
(* until it ends.  Whatever fails in it, a retry included, ends it: the        *)
(* events it had taken are logged and dropped.                                *)
(***************************************************************************)
EXTENDS Naturals, Sequences, FiniteSets, Functions, SequencesExt, TLC

CONSTANTS
    Stories,             \* sequences of the events a publisher hands over, one is chosen
    Strategies,          \* of the projection manager: "sync", "async", "batch", "eventual"
    ProjectionWorkers,   \* WorkerCount goroutines
    EventCap, BatchCap, ProjectionBatch,  \* capacities of the two channels (1000, 100) and of a batch
    RetryLimit,          \* RetryAttempts of the configuration
    QueryReaders,        \* requests that query at once
    KeyOrders,           \* orders in which a map of three parameters may be iterated
    MaxQueries, MaxRefusals   \* bounds on queries, and on statements the database refuses

ASSUME CqrsAssumption ==
    /\ EventCap \in Nat \ {0} /\ BatchCap \in Nat \ {0} /\ ProjectionBatch \in Nat \ {0}
    /\ RetryLimit \in Nat \ {0} /\ MaxQueries \in Nat /\ MaxRefusals \in Nat

VARIABLES
    cqStory, cqStrategy, \* the events not yet handed over; the strategy
    cqLate,              \* events sleeping in goroutines of updateEventually
    cqEvents, cqBatch, cqBatches, \* eventChan; the collector's batch; batchChan
    cqTable,             \* the committed rows of the read schema
    cqWork,              \* each worker: its transaction
    cqPhase,             \* the manager: "up", "cancelled", "closed", "panicked"
    cqCache,             \* Redis: key -> what is stored under it
    cqReaders, cqQueries,
    cqDone, cqTook,      \* history: events committed; those of them that changed a row
    cqRaced, cqFloor,    \* history: two counts overlapped; row versions at an invalidation
    cqRefusals

cqFlow == <<cqStory, cqStrategy, cqLate, cqEvents, cqBatch, cqBatches, cqPhase>>
cqQuery == <<cqCache, cqReaders, cqQueries, cqFloor>>
cqVars == <<cqFlow, cqTable, cqWork, cqQuery, cqDone, cqTook, cqRaced, cqRefusals>>

----------------------------------------------------------------------------
(***************************************************************************)
(* The rows.  A row not there is a row with version 0.                        *)
(***************************************************************************)
StoryEvents == UNION {ToSet(s) : s \in Stories}
CqUsers == {e.who : e \in {f \in StoryEvents : f.kind = "user"}}
UserRow(u) == <<"user", u>>
MemberRow(u) == <<"member", u>>
SpaceRow == <<"workspace", "the">>
TotalsRow == <<"tenant", "the">>
CheckpointRow(p) == <<"checkpoint", p>>
CqMembers == {MemberRow(e.who) : e \in {f \in StoryEvents : f.kind = "space"}}
CqRows == {UserRow(u) : u \in CqUsers} \cup CqMembers
          \cup {SpaceRow, TotalsRow, CheckpointRow("user"), CheckpointRow("space")}
NoReadRow == [status |-> "absent", version |-> 0]
NoTransaction == [at |-> "idle", events |-> <<>>, i |-> 1, rows |-> <<>>, took |-> {}, counted |-> NoReadRow, tries |-> 0]
EmptyTable ==
    [r \in CqRows |-> IF r = TotalsRow THEN [users |-> 0, active |-> 0, spaces |-> 0]
                      ELSE IF r = SpaceRow THEN [status |-> "absent", version |-> 0, members |-> 0]
                      ELSE IF r[1] = "checkpoint" THEN 0 ELSE NoReadRow]

Sees(w, r) == IF r \in DOMAIN cqWork[w].rows THEN cqWork[w].rows[r] ELSE cqTable[r]
Blocked(w, r) == \E v \in ProjectionWorkers \ {w} : r \in DOMAIN cqWork[v].rows
\* Mutant: the UPDATE does not compare versions.
MatchesAnyVersion(w, r, e) == 0 < Sees(w, r).version
Matches(w, r, e) == 0 < Sees(w, r).version /\ Sees(w, r).version < e.version
Event(w) == cqWork[w].events[cqWork[w].i]
StoredKey(u) == <<"user", u, "tenant", "v1">>
PatternKey(u) == <<"user", u>>
ListKey(order) == <<"users_tenant", order>>
ListPattern == <<"users_tenant", "v1">>

CqTypeOK ==
    /\ DOMAIN cqTable = CqRows /\ cqStrategy \in Strategies /\ cqRaced \in BOOLEAN
    /\ Len(cqEvents) <= EventCap /\ Len(cqBatches) <= BatchCap /\ Len(cqBatch) < ProjectionBatch + 1
    /\ cqPhase \in {"up", "cancelled", "closed", "panicked"}
    /\ \A w \in ProjectionWorkers :
          /\ cqWork[w].at \in {"idle", "handle", "count", "totals", "checkpoint", "commit", "invalidate"}
          /\ DOMAIN cqWork[w].rows \subseteq CqRows /\ cqWork[w].tries \in 0 .. RetryLimit - 1
    /\ \A r \in QueryReaders : cqReaders[r].at \in {"idle", "query", "fill"}
    /\ cqRefusals \in 0 .. MaxRefusals /\ cqQueries \in 0 .. MaxQueries

CqInit ==
    /\ cqStory \in Stories /\ cqStrategy \in Strategies
    /\ cqLate = {} /\ cqEvents = <<>> /\ cqBatch = <<>> /\ cqBatches = <<>> /\ cqPhase = "up"
    /\ cqTable = EmptyTable /\ cqWork = [w \in ProjectionWorkers |-> NoTransaction]
    /\ cqCache = <<>> /\ cqReaders = [r \in QueryReaders |-> [at |-> "idle"]] /\ cqQueries = 0
    /\ cqDone = {} /\ cqTook = {} /\ cqRaced = FALSE /\ cqFloor = [u \in CqUsers |-> 0] /\ cqRefusals = 0

----------------------------------------------------------------------------
(***************************************************************************)
(* UpdateProjections: the next event of the story goes where the strategy      *)
(* sends it.  A full channel drops it; a closed one panics.                    *)
(***************************************************************************)
UpdateAsynchronously(e) ==
    /\ cqPhase' = IF cqPhase = "closed" THEN "panicked" ELSE cqPhase
    /\ cqEvents' = IF cqPhase # "closed" /\ Len(cqEvents) < EventCap THEN Append(cqEvents, e) ELSE cqEvents

UpdateProjections ==
    /\ cqStory # <<>> /\ cqPhase # "panicked" /\ cqStrategy # "sync"
    /\ cqStory' = Tail(cqStory)
    /\ \/ /\ cqStrategy \in {"async", "batch"} /\ UpdateAsynchronously(Head(cqStory)) /\ UNCHANGED cqLate
       \/ /\ cqStrategy = "eventual" /\ cqLate' = cqLate \cup {Head(cqStory)}
          /\ UNCHANGED <<cqEvents, cqPhase>>
    /\ UNCHANGED <<cqStrategy, cqBatch, cqBatches, cqTable, cqWork, cqQuery, cqDone, cqTook, cqRaced, cqRefusals>>

UpdateEventually(e) ==
    /\ cqPhase # "panicked" /\ UpdateAsynchronously(e) /\ cqLate' = cqLate \ {e}
    /\ UNCHANGED <<cqStory, cqStrategy, cqBatch, cqBatches, cqTable, cqWork, cqQuery, cqDone, cqTook, cqRaced, cqRefusals>>

(***************************************************************************)
(* The collector is no worker: Shutdown does not wait for it, and the batch    *)
(* it then sends may meet a closed channel.                                   *)
(***************************************************************************)
SendBatch ==
    /\ cqBatch' = <<>>
    /\ cqPhase' = IF cqPhase = "closed" THEN "panicked" ELSE cqPhase
    /\ cqBatches' = IF cqPhase # "closed" /\ Len(cqBatches) < BatchCap
                    THEN Append(cqBatches, cqBatch) ELSE cqBatches

BatchCollector ==
    /\ cqStrategy = "batch" /\ cqPhase # "panicked"
    /\ \/ /\ cqEvents # <<>> /\ Len(cqBatch) < ProjectionBatch /\ cqPhase # "closed"
          /\ cqEvents' = Tail(cqEvents) /\ cqBatch' = Append(cqBatch, Head(cqEvents))
          /\ UNCHANGED <<cqBatches, cqPhase>>
       \/ cqBatch # <<>> /\ SendBatch /\ UNCHANGED cqEvents
    /\ UNCHANGED <<cqStory, cqStrategy, cqLate, cqTable, cqWork, cqQuery, cqDone, cqTook, cqRaced, cqRefusals>>

Shutdown ==
    /\ \/ cqPhase = "up" /\ cqPhase' = "cancelled"
       \/ cqPhase = "cancelled" /\ (\A w \in ProjectionWorkers : cqWork[w].at = "idle") /\ cqPhase' = "closed"
    /\ UNCHANGED <<cqStory, cqStrategy, cqLate, cqEvents, cqBatch, cqBatches, cqTable, cqWork,
                   cqQuery, cqDone, cqTook, cqRaced, cqRefusals>>

----------------------------------------------------------------------------
(***************************************************************************)
(* A worker's transaction: it takes an event or a batch, then for every event  *)
(* handles it, counts, writes the summary and the checkpoint, and commits.     *)
(***************************************************************************)
WorkBecomes(w, work) == cqWork' = [cqWork EXCEPT ![w] = work]
Rests == UNCHANGED <<cqTable, cqDone, cqTook, cqRaced>>
Begin(w, events) == WorkBecomes(w, [NoTransaction EXCEPT !.at = "handle", !.events = events])

TakeWork(w) ==
    /\ cqWork[w].at = "idle" /\ cqPhase = "up"
    /\ \/ /\ cqStrategy \in {"async", "eventual"} /\ cqEvents # <<>>
          /\ Begin(w, <<Head(cqEvents)>>) /\ cqEvents' = Tail(cqEvents) /\ UNCHANGED <<cqBatches, cqStory>>
       \/ /\ cqStrategy = "batch" /\ cqBatches # <<>>
          /\ Begin(w, Head(cqBatches)) /\ cqBatches' = Tail(cqBatches) /\ UNCHANGED <<cqEvents, cqStory>>
       \/ /\ cqStrategy = "sync" /\ cqStory # <<>>
          /\ Begin(w, <<Head(cqStory)>>) /\ cqStory' = Tail(cqStory) /\ UNCHANGED <<cqEvents, cqBatches>>
    /\ UNCHANGED <<cqStrategy, cqLate, cqBatch, cqPhase, cqQuery, cqRefusals>> /\ Rests

Rollback(w) == WorkBecomes(w, NoTransaction) /\ Rests /\ UNCHANGED <<cqFlow, cqQuery>>
Wrote(w, rows, at) ==
    /\ \A r \in DOMAIN rows : ~Blocked(w, r)
    /\ WorkBecomes(w, [cqWork[w] EXCEPT !.rows = rows @@ @, !.at = at, !.tries = 0,
                                        !.took = IF rows = <<>> \/ cqWork[w].at # "handle" THEN @ ELSE @ \cup {Event(w)}])
Row(r, value) == r :> value

(***************************************************************************)
(* The statements of the handlers.  An upsert keeps the status of a row that   *)
(* is there; an update of a row that is not there, or is as new, is no error   *)
(* and changes nothing.  The update of user.updated and workspace.updated      *)
(* names its parameters one place too low, and is refused every time.          *)
(***************************************************************************)
Upsert(w, r, e, new, at) ==
    LET old == Sees(w, r) IN
    /\ ~Blocked(w, r)
    /\ Wrote(w, IF old.version = 0 THEN Row(r, new)
                ELSE IF old.version < e.version THEN Row(r, [old EXCEPT !.version = e.version])
                ELSE <<>>, at)

UpdateRow(w, r, e, status, at) ==
    Wrote(w, IF Matches(w, r, e) THEN Row(r, [Sees(w, r) EXCEPT !.status = status, !.version = e.version])
             ELSE <<>>, at)

ProjectUserRegistered(w, e) ==
    e.type = "registered" /\ Upsert(w, UserRow(e.who), e, [status |-> "pending", version |-> e.version], "count")
HandleUserActivated(w, e) == e.type = "activated" /\ UpdateRow(w, UserRow(e.who), e, "active", "count")
HandleUserDeactivated(w, e) == e.type = "deactivated" /\ UpdateRow(w, UserRow(e.who), e, "deactivated", "count")
HandleUserRoleChanged(w, e) ==
    /\ e.type = "role_changed" /\ Sees(w, UserRow(e.who)).version > 0
    /\ UpdateRow(w, UserRow(e.who), e, Sees(w, UserRow(e.who)).status, "checkpoint")

ProjectUserUpdated(e) == e.kind = "user" /\ e.type = "updated"        \* refused
HandleWorkspaceUpdated(e) == e.kind = "space" /\ e.type = "updated"  \* refused

HandleWorkspaceCreated(w, e) ==
    LET owner == MemberRow(e.who)
        new == [status |-> "active", version |-> e.version, members |-> 1]
        old == Sees(w, SpaceRow)
        was == Sees(w, owner)
    IN /\ e.type = "created" /\ ~Blocked(w, SpaceRow) /\ ~Blocked(w, owner)
       /\ Wrote(w, (IF old.version = 0 THEN Row(SpaceRow, new)
                    ELSE IF old.version < e.version THEN Row(SpaceRow, [old EXCEPT !.version = e.version])
                    ELSE <<>>)
                   @@ (IF was.version < e.version
                       THEN Row(owner, [status |-> "owner", version |-> e.version]) ELSE <<>>), "count")
HandleWorkspaceDeleted(w, e) == e.type = "deleted" /\ UpdateRow(w, SpaceRow, e, "deleted", "count")
HandleWorkspaceMemberAdded(w, e) ==
    LET m == MemberRow(e.who) IN
    /\ e.type = "member_added" /\ ~Blocked(w, m)
    /\ Wrote(w, IF Sees(w, m).version < e.version
                THEN Row(m, [status |-> "member", version |-> e.version]) ELSE <<>>, "count")
HandleWorkspaceMemberRemoved(w, e) ==
    LET m == MemberRow(e.who) IN
    /\ e.type = "member_removed"
    /\ Wrote(w, IF Sees(w, m).version > 0 THEN Row(m, NoReadRow) ELSE <<>>, "count")
HandleWorkspaceMemberRoleChanged(w, e) ==
    e.type = "member_role_changed" /\ UpdateRow(w, MemberRow(e.who), e, "admin", "checkpoint")

Handle(w) ==
    /\ cqWork[w].at = "handle" /\ cqPhase = "up"
    /\ LET e == Event(w) IN
       \/ ProjectUserRegistered(w, e) \/ HandleUserActivated(w, e)
       \/ HandleUserDeactivated(w, e) \/ HandleUserRoleChanged(w, e)
       \/ HandleWorkspaceCreated(w, e) \/ HandleWorkspaceDeleted(w, e)
       \/ HandleWorkspaceMemberAdded(w, e) \/ HandleWorkspaceMemberRemoved(w, e)
       \/ HandleWorkspaceMemberRoleChanged(w, e)
    /\ Rests /\ UNCHANGED <<cqFlow, cqQuery, cqRefusals>>

(***************************************************************************)
(* What the next statement of a transaction writes, and whom it waits for.     *)
(* Of two transactions that wait for each other Postgres ends one.             *)
(***************************************************************************)
Touches(w, e) ==
    LET m == MemberRow(e.who) IN
    CASE e.type = "registered" -> {UserRow(e.who)}
      [] e.type \in {"activated", "deactivated", "role_changed"} -> {r \in {UserRow(e.who)} : Matches(w, r, e)}
      [] e.type = "created" -> {SpaceRow, m}
      [] e.type = "deleted" -> {r \in {SpaceRow} : Matches(w, r, e)}
      [] e.type \in {"member_added", "member_removed", "member_role_changed"} -> {m}
      [] OTHER -> {}
Needs(w) ==
    LET work == cqWork[w] IN
    CASE work.at = "handle" -> Touches(w, Event(w))
      [] work.at = "totals" -> IF Event(w).type \in {"member_added", "member_removed"} THEN {SpaceRow} ELSE {TotalsRow}
      [] work.at = "checkpoint" -> {CheckpointRow(Event(w).kind)}
      [] OTHER -> {}
WaitsFor(w, v) == v # w /\ Needs(w) \cap DOMAIN cqWork[v].rows # {}

\* Mutant: one retry too many.
HandleWithOneMoreRetry(w) ==
    /\ cqWork[w].at = "handle" /\ cqPhase = "up"
    /\ Event(w).type = "role_changed" /\ Sees(w, UserRow(Event(w).who)).version = 0
    /\ \/ /\ cqWork[w].tries < RetryLimit
          /\ WorkBecomes(w, [cqWork[w] EXCEPT !.tries = @ + 1])
          /\ Rests /\ UNCHANGED <<cqFlow, cqQuery>>
       \/ cqWork[w].tries >= RetryLimit /\ Rollback(w)
    /\ UNCHANGED cqRefusals

HandleWithRetry(w) ==
    /\ cqWork[w].at = "handle" /\ cqPhase = "up"
    /\ Event(w).type = "role_changed" /\ Sees(w, UserRow(Event(w).who)).version = 0
    /\ \/ /\ cqWork[w].tries + 1 < RetryLimit
          /\ WorkBecomes(w, [cqWork[w] EXCEPT !.tries = @ + 1])
          /\ Rests /\ UNCHANGED <<cqFlow, cqQuery>>
       \/ cqWork[w].tries + 1 >= RetryLimit /\ Rollback(w)
    /\ UNCHANGED cqRefusals

TransactionFails(w) ==
    /\ cqWork[w].at \notin {"idle", "invalidate"}
    /\ \/ cqPhase # "up" /\ UNCHANGED cqRefusals
       \/ /\ cqWork[w].at = "handle" /\ (ProjectUserUpdated(Event(w)) \/ HandleWorkspaceUpdated(Event(w)))
          /\ UNCHANGED cqRefusals
       \/ /\ \E v \in ProjectionWorkers : WaitsFor(w, v) /\ WaitsFor(v, w)
          /\ UNCHANGED cqRefusals
       \/ cqRefusals < MaxRefusals /\ cqRefusals' = cqRefusals + 1
    /\ Rollback(w)

(***************************************************************************)
(* updateTenantUserCounts, updateTenantWorkspaceCounts and                     *)
(* updateWorkspaceMemberCount: count what is visible, then write the count.    *)
(* A transaction that counted before another one's commit writes a stale one.  *)
(***************************************************************************)
UsersSeen(w, statuses) == Cardinality({u \in CqUsers : Sees(w, UserRow(u)).status \in statuses})
Users == {"pending", "active", "deactivated"}
Counted(w) ==
    [users |-> UsersSeen(w, Users), active |-> UsersSeen(w, {"active"}),
     spaces |-> IF Sees(w, SpaceRow).status = "active" THEN 1 ELSE 0,
     members |-> Cardinality({m \in CqMembers : Sees(w, m).version > 0})]
CountRows(w) ==
    /\ cqWork[w].at = "count" /\ cqPhase = "up"
    /\ IF \/ Event(w).type \in {"activated", "deactivated"} /\ Sees(w, UserRow(Event(w).who)).version = 0
          \/ Event(w).type = "deleted" /\ Sees(w, SpaceRow).version = 0
       THEN WorkBecomes(w, [cqWork[w] EXCEPT !.at = "checkpoint"])
       ELSE WorkBecomes(w, [cqWork[w] EXCEPT !.at = "totals", !.counted = Counted(w)])
    /\ Rests /\ UNCHANGED <<cqFlow, cqQuery, cqRefusals>>

UpdateCounts(w) ==
    LET c == cqWork[w].counted e == Event(w) totals == Sees(w, TotalsRow) space == Sees(w, SpaceRow) IN
    /\ cqWork[w].at = "totals" /\ cqPhase = "up"
    /\ IF e.type \in {"member_added", "member_removed"}
       THEN Wrote(w, IF space.version = 0 THEN <<>> ELSE Row(SpaceRow, [space EXCEPT !.members = c.members]), "checkpoint")
       ELSE ~Blocked(w, TotalsRow)
            /\ Wrote(w, Row(TotalsRow, IF e.kind = "user" THEN [totals EXCEPT !.users = c.users, !.active = c.active]
                                      ELSE [totals EXCEPT !.spaces = c.spaces]), "checkpoint")
    /\ Rests /\ UNCHANGED <<cqFlow, cqQuery, cqRefusals>>

UpdateCheckpoint(w) ==
    LET p == CheckpointRow(Event(w).kind)
        more == cqWork[w].i < Len(cqWork[w].events)
    IN /\ cqWork[w].at = "checkpoint" /\ cqPhase = "up" /\ ~Blocked(w, p)
       /\ WorkBecomes(w, [cqWork[w] EXCEPT !.rows = Row(p, Sees(w, p) + 1) @@ @,
                                           !.at = IF more THEN "handle" ELSE "commit",
                                           !.i = IF more THEN @ + 1 ELSE @])
       /\ Rests /\ UNCHANGED <<cqFlow, cqQuery, cqRefusals>>

(***************************************************************************)
(* Commit, then invalidateCache: the keys it deletes are not those the query   *)
(* service stores under.  A batch invalidates nothing.                         *)
(***************************************************************************)
HasCounted(v) == cqWork[v].at \in {"totals", "checkpoint", "commit"} /\ cqWork[v].counted # NoReadRow
Commit(w) ==
    /\ cqWork[w].at = "commit" /\ cqPhase = "up"
    /\ cqTable' = [r \in CqRows |-> Sees(w, r)]
    /\ cqDone' = cqDone \cup ToSet(cqWork[w].events)
    /\ cqTook' = cqTook \cup cqWork[w].took
    /\ cqRaced' = (cqRaced \/ \E v \in ProjectionWorkers \ {w} : HasCounted(v))
    /\ WorkBecomes(w, IF cqStrategy = "batch" THEN NoTransaction ELSE [cqWork[w] EXCEPT !.at = "invalidate", !.rows = <<>>])
    /\ UNCHANGED <<cqFlow, cqQuery, cqRefusals>>

Without(keys) == Restrict(cqCache, DOMAIN cqCache \ keys)
InvalidateCache(w) ==
    /\ cqWork[w].at = "invalidate"
    /\ cqCache' = IF Event(w).type \in {"registered", "updated"}
                  THEN Without({PatternKey(Event(w).who), <<"users", "tenant">>}) ELSE cqCache
    /\ WorkBecomes(w, NoTransaction)
    /\ Rests /\ UNCHANGED <<cqFlow, cqReaders, cqQueries, cqFloor, cqRefusals>>

----------------------------------------------------------------------------
(***************************************************************************)
(* The query service: look in the cache, query the read schema, store what    *)
(* was found.  A list's key names its parameters in the order the map happens  *)
(* to be iterated in, once for the look-up and once for the store.  An error    *)
(* of the cache is logged and counts as a miss.                               *)
(***************************************************************************)
UserQuery(u) == [for |-> UserRow(u), keys |-> {StoredKey(u)}]
UsersQuery == [for |-> <<"list", "users">>, keys |-> {ListKey(o) : o \in KeyOrders}]
WorkspaceQuery == [for |-> SpaceRow, keys |-> {<<"workspace", "the", "tenant", "v1">>}]
WorkspacesQuery == [for |-> <<"list", "workspaces">>, keys |-> {<<"workspaces_tenant", o>> : o \in KeyOrders}]
MembersQuery == [for |-> <<"list", "members">>, keys |-> {<<"workspace_members", o>> : o \in KeyOrders}]
SummaryQuery == [for |-> TotalsRow, keys |-> {<<"tenant_summary", "v1">>}]
RowsOf(q) ==
    CASE q.for[2] = "users" -> {UserRow(u) : u \in CqUsers}
      [] q.for[2] = "workspaces" -> {SpaceRow}
      [] q.for[2] = "members" -> CqMembers
      [] OTHER -> {q.for}
Found(q) == {<<r, IF r = TotalsRow THEN 0 ELSE cqTable[r].version>> :
                r \in {x \in RowsOf(q) : /\ x # TotalsRow => cqTable[x].version > 0
                                        /\ x = SpaceRow => cqTable[x].status # "deleted"}}
Queries == {UserQuery(u) : u \in CqUsers}
           \cup {UsersQuery, WorkspaceQuery, WorkspacesQuery, MembersQuery, SummaryQuery}
ReaderBecomes(r, reader) == cqReaders' = [cqReaders EXCEPT ![r] = reader]
QueryRests == UNCHANGED <<cqFlow, cqTable, cqWork, cqDone, cqTook, cqRaced, cqRefusals>>

GetProjection(r, q) ==
    /\ cqReaders[r].at = "idle" /\ cqQueries < MaxQueries /\ cqQueries' = cqQueries + 1
    /\ \E key \in q.keys : key \notin DOMAIN cqCache
    /\ ReaderBecomes(r, [at |-> "query", q |-> q])
    /\ UNCHANGED <<cqCache, cqFloor>> /\ QueryRests

QueryReadSchema(r) ==
    LET q == cqReaders[r].q IN
    /\ cqReaders[r].at = "query"
    /\ ReaderBecomes(r, IF q.for[1] # "list" /\ Found(q) = {} THEN [at |-> "idle"]
                        ELSE [at |-> "fill", q |-> q, late |-> FALSE, found |-> Found(q)])
    /\ UNCHANGED <<cqCache, cqQueries, cqFloor>> /\ QueryRests

SetProjection(r) ==
    /\ cqReaders[r].at = "fill"
    /\ \E key \in cqReaders[r].q.keys :
          cqCache' = (key :> [found |-> cqReaders[r].found, late |-> cqReaders[r].late]) @@ cqCache
    /\ ReaderBecomes(r, [at |-> "idle"])
    /\ UNCHANGED <<cqQueries, cqFloor>> /\ QueryRests

ExpireKey(key) ==
    cqCache' = Without({key}) /\ UNCHANGED <<cqReaders, cqQueries, cqFloor>> /\ QueryRests

(***************************************************************************)
(* InvalidateUserCache: the user's key, and a key without parameters that no   *)
(* list is stored under.  A reader that has queried and not yet stored is late. *)
(***************************************************************************)
InvalidateUserCache(u) ==
    /\ cqQueries < MaxQueries /\ cqQueries' = cqQueries + 1
    /\ cqCache' = Without({StoredKey(u), ListPattern})
    /\ cqReaders' = [r \in QueryReaders |-> IF cqReaders[r].at = "fill" THEN [cqReaders[r] EXCEPT !.late = TRUE]
                                             ELSE cqReaders[r]]
    /\ cqFloor' = [cqFloor EXCEPT ![u] = cqTable[UserRow(u)].version]
    /\ QueryRests

CqNext ==
    \/ UpdateProjections \/ BatchCollector \/ Shutdown
    \/ \E e \in cqLate : UpdateEventually(e)
    \/ \E w \in ProjectionWorkers :
          \/ TakeWork(w) \/ Handle(w) \/ HandleWithRetry(w) \/ TransactionFails(w) \/ CountRows(w)
          \/ UpdateCounts(w) \/ UpdateCheckpoint(w) \/ Commit(w) \/ InvalidateCache(w)
    \/ \E r \in QueryReaders :
          \/ \E q \in Queries : GetProjection(r, q)
          \/ QueryReadSchema(r) \/ SetProjection(r)
    \/ \E key \in DOMAIN cqCache : ExpireKey(key)
    \/ \E u \in CqUsers : InvalidateUserCache(u)

----------------------------------------------------------------------------
(***************************************************************************)
(* What a set of workers that share tables, and no order, still keeps.         *)
(***************************************************************************)
StatusOf(e) == CASE e.type = "activated" -> "active" [] e.type = "deactivated" -> "deactivated" [] OTHER -> "pending"

\* Workers may take a user's events in any order, and one that comes late may be
\* dropped for good: but a row never goes back, its status is the one set by the
\* newest of the status events that changed it.
NewestWins ==
    \A e \in cqTook : e.kind = "user" /\ e.type \in {"activated", "deactivated"} =>
       \/ cqTable[UserRow(e.who)].status = StatusOf(e)
       \/ \E f \in cqTook : f.who = e.who /\ f.version > e.version /\ StatusOf(f) = cqTable[UserRow(e.who)].status

\* The checkpoint's counter is written in the events' own transactions: after
\* any failure, deadlock or drop it counts exactly the events that took effect.
CheckpointCounts ==
    \A p \in {"user", "space"} : cqTable[CheckpointRow(p)] = Cardinality({e \in cqDone : e.kind = p})

\* A tenant's totals and a workspace's count of members are those of the rows,
\* unless two transactions that count have overlapped.
CountsMatch ==
    ~cqRaced =>
       /\ cqTable[TotalsRow].users = Cardinality({u \in CqUsers : cqTable[UserRow(u)].version > 0})
       /\ cqTable[TotalsRow].active = Cardinality({u \in CqUsers : cqTable[UserRow(u)].status = "active"})
       /\ cqTable[SpaceRow].version > 0 /\ (\E e \in cqDone : e.type = "created") =>
             cqTable[SpaceRow].members >= 1

\* After InvalidateUserCache a cached user is no older than the row was then,
\* unless a reader that had queried before stored it afterwards.
InvalidationHolds ==
    \A u \in CqUsers : StoredKey(u) \in DOMAIN cqCache =>
       LET entry == cqCache[StoredKey(u)] IN
       entry.late \/ \A x \in entry.found : x[2] >= cqFloor[u]

CqrsSafety == NewestWins /\ CheckpointCounts /\ CountsMatch /\ InvalidationHolds
=============================================================================
