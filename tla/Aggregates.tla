----------------------------- MODULE Aggregates -----------------------------
(***************************************************************************)
(* The three event-sourced aggregates: what each command checks, changes and *)
(* raises, and what LoadFromHistory makes of the events.  One aggregate of   *)
(* any of the three types is in memory; its repository saves the events it   *)
(* has raised and builds it again from all that were saved.  Clocks, ids and *)
(* texts other than a name are left out.                                     *)
(***************************************************************************)
EXTENDS Naturals, SequencesExt

CONSTANTS
    People,         \* user ids that act in a workspace; the owner is one of them
    Owner,
    MaxMembers,     \* WorkspaceSettings.MaxMembers (100)
    MaxSessions,    \* bound on the sessions of a user
    MaxAggregateEvents       \* bound on the events of an aggregate

ASSUME AggregateAssumption == Owner \in People /\ MaxMembers \in Nat \ {0} /\ MaxAggregateEvents \in Nat

VARIABLES
    agKind,     \* the type of the aggregate
    agMem,      \* the aggregate in memory
    agFresh,    \* its uncommitted events
    agLog       \* the events that were saved

agVars == <<agKind, agMem, agFresh, agLog>>

Names == {"first", "second"}
Roles == {"user", "admin", "super_admin"}
MemberRoles == {"owner", "admin", "member", "viewer", "guest"}
Plans == {"free", "starter", "enterprise"}

\* What a member's role allows: of all permissions, those the commands ask for.
GetDefaultPermissions(role) ==
    CASE role = "owner" -> {"manage workspace", "manage members"}
      [] role = "admin" -> {"manage members"}
      [] role = "member" -> {"create projects"}
      [] OTHER -> {}

\* Users and workspaces a plan allows.
GetPlanLimits(plan) ==
    CASE plan = "free" -> [users |-> 5, workspaces |-> 3]
      [] plan = "starter" -> [users |-> 25, workspaces |-> 10]
      [] plan = "enterprise" -> [users |-> 1000, workspaces |-> 500]

NewUserAggregate(name) ==
    [name |-> name, status |-> "pending", roles |-> <<[role |-> "user", expires |-> FALSE]>>,
     sessions |-> <<>>, verified |-> FALSE]
NewWorkspaceAggregate(name, owner) ==
    [name |-> name, owner |-> owner, status |-> "active",
     members |-> [p \in {owner} |-> "owner"], projects |-> 0]
NewTenantAggregate(name) ==
    [name |-> name, status |-> "active", plan |-> "free", sub |-> "trial", quotas |-> GetPlanLimits("free"),
     usage |-> [users |-> 0, workspaces |-> 0], payments |-> 0]

----------------------------------------------------------------------------
(***************************************************************************)
(* LoadFromHistory                                                          *)
(***************************************************************************)
ApplyUserRoleChanged(u, e) ==
    IF e.action = "added" THEN [u EXCEPT !.roles = Append(@, [role |-> e.role, expires |-> FALSE])]
    ELSE [u EXCEPT !.roles = LET i == SelectInSeq(@, LAMBDA r : r.role = e.role)
                             IN  IF i = 0 THEN @ ELSE RemoveAt(@, i)]
ApplyToUser(u, e) ==
    CASE e.type = "registered" -> [u EXCEPT !.name = e.name, !.status = "pending"]
      [] e.type = "activated" -> [u EXCEPT !.status = "active"]
      [] e.type = "deactivated" -> [u EXCEPT !.status = "deactivated"]
      [] e.type = "updated" -> [u EXCEPT !.name = e.name]
      [] e.type = "role changed" -> ApplyUserRoleChanged(u, e)

WithMember(w, p, role) == [w EXCEPT !.members = [q \in DOMAIN @ \cup {p} |-> IF q = p THEN role ELSE @[q]]]
ApplyMemberRemoved(w, e) == [w EXCEPT !.members = [q \in DOMAIN @ \ {e.who} |-> @[q]]]
ApplyMemberRoleChanged(w, e) == IF e.who \in DOMAIN w.members THEN WithMember(w, e.who, e.role) ELSE w
ApplyToWorkspace(w, e) ==
    CASE e.type = "created" -> [w EXCEPT !.name = e.name, !.owner = e.who, !.status = "active"]
      [] e.type = "updated" -> [w EXCEPT !.name = e.name]
      [] e.type = "member added" -> WithMember(w, e.who, e.role)
      [] e.type = "member removed" -> ApplyMemberRemoved(w, e)
      [] e.type = "member role changed" -> ApplyMemberRoleChanged(w, e)
      [] e.type = "deactivated" -> [w EXCEPT !.status = e.status]

ApplyTenantPlanChanged(t, e) == [t EXCEPT !.plan = e.plan, !.quotas = GetPlanLimits(e.plan)]
ApplyToTenant(t, e) ==
    CASE e.type = "created" -> ApplyTenantPlanChanged([t EXCEPT !.name = e.name, !.status = "active"], e)
      [] e.type = "updated" -> [t EXCEPT !.name = e.name]
      [] e.type = "plan changed" -> ApplyTenantPlanChanged(t, e)
      [] e.type = "deactivated" -> [t EXCEPT !.status = e.status]

\* GetByID: the constructor on the data of the first event, and then every event, the first too.
GetByID(kind, events) ==
    CASE kind = "user" -> FoldLeft(ApplyToUser, NewUserAggregate(events[1].name), events)
      [] kind = "workspace" ->
            FoldLeft(ApplyToWorkspace, NewWorkspaceAggregate(events[1].name, events[1].who), events)
      [] kind = "tenant" -> FoldLeft(ApplyToTenant, NewTenantAggregate(events[1].name), events)

----------------------------------------------------------------------------
(***************************************************************************)
(* The commands.  A command that is refused changes nothing.                *)
(***************************************************************************)
Raise(events) ==
    /\ Len(agLog) + Len(agFresh) + Len(events) <= MaxAggregateEvents
    /\ agFresh' = agFresh \o events
    /\ UNCHANGED <<agKind, agLog>>
Of(kind) == agKind = kind

Activate ==
    /\ Of("user") /\ agMem.status # "active"
    /\ agMem' = [agMem EXCEPT !.status = "active"]
    /\ Raise(<<[type |-> "activated"]>>)
Deactivate ==
    /\ Of("user") /\ agMem.status # "deactivated"
    /\ agMem' = [agMem EXCEPT !.status = "deactivated", !.sessions = [i \in DOMAIN @ |-> FALSE]]
    /\ Raise(<<[type |-> "deactivated"]>>)
UpdateProfile(name) ==
    /\ Of("user") /\ agMem.status = "active" /\ name # agMem.name
    /\ agMem' = [agMem EXCEPT !.name = name]
    /\ Raise(<<[type |-> "updated", name |-> name]>>)
HasRoleNamed(role) == \E i \in DOMAIN agMem.roles : agMem.roles[i].role = role
AddRole(role, expires) ==
    /\ Of("user") /\ agMem.status = "active" /\ ~HasRoleNamed(role)
    /\ agMem' = [agMem EXCEPT !.roles = Append(@, [role |-> role, expires |-> expires])]
    /\ Raise(<<[type |-> "role changed", role |-> role, action |-> "added"]>>)
RemoveRole(role) ==
    /\ Of("user") /\ agMem.status = "active" /\ role # "user" /\ HasRoleNamed(role)
    /\ agMem' = [agMem EXCEPT !.roles = RemoveAt(@, SelectInSeq(@, LAMBDA r : r.role = role))]
    /\ Raise(<<[type |-> "role changed", role |-> role, action |-> "removed"]>>)
\* Sessions and the verification of the e-mail raise no event.
CreateSession ==
    /\ Of("user") /\ agMem.status = "active" /\ Len(agMem.sessions) < MaxSessions
    /\ agMem' = [agMem EXCEPT !.sessions = Append(@, TRUE)] /\ Raise(<<>>)
InvalidateSession ==
    /\ Of("user") /\ Raise(<<>>)
    /\ \E i \in DOMAIN agMem.sessions : agMem' = [agMem EXCEPT !.sessions[i] = FALSE]
InvalidateAllSessions ==
    Of("user") /\ agMem' = [agMem EXCEPT !.sessions = [i \in DOMAIN @ |-> FALSE]] /\ Raise(<<>>)
VerifyEmail ==
    Of("user") /\ ~agMem.verified /\ agMem' = [agMem EXCEPT !.verified = TRUE] /\ Raise(<<>>)

Allows(who, permission) == who \in DOMAIN agMem.members /\ permission \in GetDefaultPermissions(agMem.members[who])
CanManageWorkspace(who) ==
    who \in DOMAIN agMem.members /\ (agMem.members[who] = "admin" \/ Allows(who, "manage workspace"))
CanManageMembers(who) == Allows(who, "manage members")
UpdateWorkspace(by, name) ==
    /\ Of("workspace") /\ CanManageWorkspace(by) /\ agMem.status = "active" /\ name # agMem.name
    /\ agMem' = [agMem EXCEPT !.name = name]
    /\ Raise(<<[type |-> "updated", name |-> name]>>)
AddMember(by, who, role) ==
    /\ Of("workspace") /\ CanManageMembers(by) /\ agMem.status = "active"
    /\ who \notin DOMAIN agMem.members
    /\ Cardinality(DOMAIN agMem.members) < MaxMembers /\ role # "owner"
    /\ agMem' = WithMember(agMem, who, role)
    /\ Raise(<<[type |-> "member added", who |-> who, role |-> role]>>)
\* Members may leave, and change their roles, in an archived workspace too.
RemoveMember(by, who) ==
    /\ Of("workspace") /\ CanManageMembers(by)
    /\ who \in DOMAIN agMem.members /\ agMem.members[who] # "owner"
    /\ LET e == [type |-> "member removed", who |-> who]
       IN  agMem' = ApplyMemberRemoved(agMem, e) /\ Raise(<<e>>)
ChangeMemberRole(by, who, role) ==
    /\ Of("workspace") /\ CanManageMembers(by)
    /\ who \in DOMAIN agMem.members /\ "owner" \notin {agMem.members[who], role} /\ agMem.members[who] # role
    /\ agMem' = WithMember(agMem, who, role)
    /\ Raise(<<[type |-> "member role changed", who |-> who, role |-> role]>>)
\* A project raises no event.
CreateProject(by) ==
    /\ Of("workspace") /\ Allows(by, "create projects") /\ agMem.status = "active" /\ agMem.projects < 1
    /\ agMem' = [agMem EXCEPT !.projects = @ + 1] /\ Raise(<<>>)
Archive(by) ==
    /\ Of("workspace") /\ CanManageWorkspace(by) /\ agMem.status # "archived"
    /\ agMem' = [agMem EXCEPT !.status = "archived"]
    /\ Raise(<<[type |-> "deactivated", status |-> "archived"]>>)

UpdateTenant(name) ==
    /\ Of("tenant") /\ agMem.status = "active" /\ name # agMem.name
    /\ agMem' = [agMem EXCEPT !.name = name]
    /\ Raise(<<[type |-> "updated", name |-> name]>>)
ChangePlan(plan, payment) ==
    /\ Of("tenant") /\ agMem.status = "active" /\ agMem.plan # plan /\ (plan # "free" => payment)
    /\ agMem' = [agMem EXCEPT !.plan = plan, !.sub = "active", !.quotas = GetPlanLimits(plan)]
    /\ Raise(<<[type |-> "plan changed", plan |-> plan]>>)
UpdateUsage(usage) ==
    /\ Of("tenant") /\ usage.users <= agMem.quotas.users /\ usage.workspaces <= agMem.quotas.workspaces
    /\ agMem' = [agMem EXCEPT !.usage = usage] /\ Raise(<<>>)
AddPaymentMethod ==
    /\ Of("tenant") /\ agMem.status = "active" /\ agMem.payments < 1
    /\ agMem' = [agMem EXCEPT !.payments = @ + 1] /\ Raise(<<>>)
Suspend ==
    /\ Of("tenant") /\ agMem.status # "suspended"
    /\ agMem' = [agMem EXCEPT !.status = "suspended"]
    /\ Raise(<<[type |-> "deactivated", status |-> "suspended"]>>)
\* A reactivation raises no event: the next load finds the tenant suspended again.
Reactivate ==
    /\ Of("tenant") /\ agMem.status \notin {"active", "deleted"}
    /\ agMem' = [agMem EXCEPT !.status = "active"] /\ Raise(<<>>)

\* SaveAggregate writes the uncommitted events; with none there is nothing to save.
SaveAggregate ==
    /\ agFresh # <<>> /\ agLog' = agLog \o agFresh /\ agFresh' = <<>>
    /\ UNCHANGED <<agKind, agMem>>
\* Another request loads it; what was not saved is gone with the copy that held it.
Load ==
    /\ agLog # <<>> /\ agMem' = GetByID(agKind, agLog) /\ agFresh' = <<>>
    /\ UNCHANGED <<agKind, agLog>>

AgInit ==
    /\ agKind \in {"user", "workspace", "tenant"} /\ agLog = <<>>
    /\ agMem = CASE agKind = "user" -> NewUserAggregate("first")
                 [] agKind = "workspace" -> NewWorkspaceAggregate("first", Owner)
                 [] agKind = "tenant" -> NewTenantAggregate("first")
    /\ agFresh = CASE agKind = "user" -> <<[type |-> "registered", name |-> "first"]>>
                   [] agKind = "workspace" -> <<[type |-> "created", name |-> "first", who |-> Owner]>>
                   [] agKind = "tenant" -> <<[type |-> "created", name |-> "first", plan |-> "free"]>>

AgNext ==
    \/ Activate \/ Deactivate \/ CreateSession \/ InvalidateSession \/ InvalidateAllSessions \/ VerifyEmail
    \/ \E n \in Names : UpdateProfile(n) \/ UpdateTenant(n) \/ \E p \in People : UpdateWorkspace(p, n)
    \/ \E r \in Roles : RemoveRole(r) \/ \E x \in BOOLEAN : AddRole(r, x)
    \/ \E p, q \in People :
          RemoveMember(p, q) \/ \E r \in MemberRoles : AddMember(p, q, r) \/ ChangeMemberRole(p, q, r)
    \/ \E p \in People : CreateProject(p) \/ Archive(p)
    \/ \E plan \in Plans, payment \in BOOLEAN : ChangePlan(plan, payment)
    \/ \E n \in {4, 11} : UpdateUsage([users |-> 1, workspaces |-> n])
    \/ AddPaymentMethod \/ Suspend \/ Reactivate
    \/ SaveAggregate \/ Load

AgSpec == AgInit /\ [][AgNext]_agVars

----------------------------------------------------------------------------

AgTypeOK ==
    /\ agKind \in {"user", "workspace", "tenant"} /\ Len(agLog) + Len(agFresh) <= MaxAggregateEvents
    /\ agMem.name \in Names
    /\ agKind = "user" => agMem.status \in {"pending", "active", "deactivated"}
    /\ agKind = "workspace" => /\ agMem.status \in {"active", "archived"}
                               /\ DOMAIN agMem.members \subseteq People
    /\ agKind = "tenant" => agMem.status \in {"active", "suspended"} /\ agMem.plan \in Plans

RoleNames(u) == [i \in DOMAIN u.roles |-> u.roles[i].role]
Rebuilt == GetByID(agKind, agLog \o agFresh)
\* The events tell what happened: building a user from them gives its name, its status and its
\* roles in their order.  (Its sessions, and that a role expires, they do not tell.)
UserReplays ==
    agKind = "user" =>
        Rebuilt.name = agMem.name /\ Rebuilt.status = agMem.status /\ RoleNames(Rebuilt) = RoleNames(agMem)
\* A workspace is rebuilt with all its members, the owner, for whom there is no event, included.
WorkspaceReplays ==
    agKind = "workspace" =>
        /\ Rebuilt.name = agMem.name /\ Rebuilt.status = agMem.status
        /\ Rebuilt.owner = agMem.owner /\ Rebuilt.members = agMem.members
\* A tenant is rebuilt with its name, plan and quotas; its status only if it was never reactivated,
\* and never as active when it is suspended.
TenantReplays ==
    agKind = "tenant" =>
        /\ Rebuilt.name = agMem.name /\ Rebuilt.plan = agMem.plan /\ Rebuilt.quotas = agMem.quotas
        /\ agMem.status = "suspended" => Rebuilt.status = "suspended"
\* A workspace has its owner, and no other, whatever its members do to each other.
OneOwner ==
    agKind = "workspace" =>
        {p \in DOMAIN agMem.members : agMem.members[p] = "owner"} = {agMem.owner}
\* Nobody is signed in with a deactivated account, and no account loses or doubles a role.
SessionsEnd ==
    agKind = "user" =>
        /\ agMem.status = "deactivated" => \A i \in DOMAIN agMem.sessions : ~agMem.sessions[i]
        /\ IsInjective(RoleNames(agMem)) /\ RoleNames(agMem)[1] = "user"

\* The events of an aggregate and the aggregate agree, and its own rules survive any commands.
AggregateSafety == UserReplays /\ WorkspaceReplays /\ TenantReplays /\ OneOwner /\ SessionsEnd
=============================================================================
