---------------------------- MODULE Registration ----------------------------
(***************************************************************************)
(* The two domain services over the aggregates' repositories: registration   *)
(* and activation of users, invitations, and the life of a tenant.  The      *)
(* event log is the only store; a request is a sequence of queries and of    *)
(* saves, each its own transaction, and any of them may fail, MaxRegistrationFaults      *)
(* times in all.  A save is refused when another one came between load and   *)
(* save.  Save leaves no uncommitted event, so the loops that publish what   *)
(* was raised, which run after it, publish nothing.                          *)
(***************************************************************************)
EXTENDS Naturals, FiniteSets

CONSTANTS
    Registrants,    \* registration requests, each made once
    EmailOf,        \* [Registrants -> e-mail addresses]
    SlugOf,         \* [Registrants -> base slugs]
    Managers,       \* requests to activate a user or manage a tenant, one at a time each
    MaxSlugs,       \* numbers tried before ensureUniqueSlug gives up (100)
    MaxVersions,    \* bound on the version of an aggregate
    MaxRegistrationFaults       \* bound on failed statements

ASSUME RegistrationAssumption == MaxSlugs \in Nat \ {0} /\ MaxVersions \in Nat /\ MaxRegistrationFaults \in Nat

VARIABLES
    rgUsers,    \* saved users: who registered them, their status and version
    rgTenants,  \* saved tenants: who created them, slug, status, plan and version
    rgSpaces,   \* registrants whose workspace is saved
    rgReq,      \* each registration: what it does next, and its slug
    rgMgr,      \* each manager: what it does next, with which loaded copy
    rgBlind,    \* history: pairs of registrants whose checks did not see each other's save
    rgHeld,     \* history: tenants whose suspension returned nil
    rgFaults

rgVars == <<rgUsers, rgTenants, rgSpaces, rgReq, rgMgr, rgBlind, rgHeld, rgFaults>>

Emails == {EmailOf[r] : r \in Registrants}
IdleManager == [at |-> "idle"]
Slugs == {SlugOf[r] : r \in Registrants} \X (0 .. MaxSlugs)
UserRows == [by : Registrants, status : {"pending", "active"}, version : 1 .. MaxVersions]
TenantRows == [by : Registrants, slug : Slugs, status : {"active", "suspended"},
               plan : {"free", "paid"}, version : 1 .. MaxVersions]

RgTypeOK ==
    /\ rgUsers \subseteq UserRows /\ rgTenants \subseteq TenantRows /\ rgSpaces \subseteq Registrants
    /\ \A r \in Registrants :
          rgReq[r].at \in {"email", "slug", "tenant", "user", "workspace", "done", "refused"}
    /\ \A g \in Managers : rgMgr[g].at \in {"idle", "save user", "save tenant"}
    /\ rgFaults \in 0 .. MaxRegistrationFaults

RgInit ==
    /\ rgUsers = {} /\ rgTenants = {} /\ rgSpaces = {}
    /\ rgReq = [r \in Registrants |-> [at |-> "email", slug |-> <<SlugOf[r], 0>>]]
    /\ rgMgr = [g \in Managers |-> IdleManager]
    /\ rgBlind = {} /\ rgHeld = {} /\ rgFaults = 0

RgFault == rgFaults < MaxRegistrationFaults /\ rgFaults' = rgFaults + 1
RgWell == UNCHANGED rgFaults
Then(r, at) == rgReq' = [rgReq EXCEPT ![r].at = at]
RegistrationRefused(r) == Then(r, "refused")
SavedAs(email) == {u \in rgUsers : EmailOf[u.by] = email}

----------------------------------------------------------------------------
\* RegisterUser.  What the request itself says wrong is refused before the first query.

ExistsByEmail(r) ==
    /\ rgReq[r].at = "email"
    /\ \/ /\ SavedAs(EmailOf[r]) = {} /\ Then(r, "slug") /\ RgWell
          /\ rgBlind' = rgBlind \cup {<<r, o>> : o \in {o \in Registrants \ {r} : EmailOf[o] = EmailOf[r]}}
       \/ SavedAs(EmailOf[r]) # {} /\ RegistrationRefused(r) /\ RgWell /\ UNCHANGED rgBlind
       \/ RgFault /\ RegistrationRefused(r) /\ UNCHANGED rgBlind
    /\ UNCHANGED <<rgUsers, rgTenants, rgSpaces, rgMgr, rgHeld>>

\* resolveTenant: findTenantByDomain never finds one, so every registration makes a tenant, with
\* the first slug that the log does not hold.
EnsureUniqueSlug(r) ==
    LET slug == rgReq[r].slug
        taken == \E t \in rgTenants : t.slug = slug
    IN  /\ rgReq[r].at = "slug"
        /\ \/ ~taken /\ Then(r, "tenant") /\ RgWell
           \/ /\ taken /\ RgWell
              /\ IF slug[2] = MaxSlugs THEN RegistrationRefused(r)
                 ELSE rgReq' = [rgReq EXCEPT ![r].slug = <<slug[1], slug[2] + 1>>]
           \/ RgFault /\ RegistrationRefused(r)
        /\ UNCHANGED <<rgUsers, rgTenants, rgSpaces, rgMgr, rgBlind, rgHeld>>

\* saveAggregates: three transactions; what is saved stays when a later one fails.
SaveTenant(r) ==
    /\ rgReq[r].at = "tenant"
    /\ \/ /\ Then(r, "user") /\ RgWell
          /\ rgTenants' = rgTenants \cup
                {[by |-> r, slug |-> rgReq[r].slug, status |-> "active", plan |-> "free", version |-> 1]}
       \/ RegistrationRefused(r) /\ RgFault /\ UNCHANGED rgTenants
    /\ UNCHANGED <<rgUsers, rgSpaces, rgMgr, rgBlind, rgHeld>>
SaveUser(r) ==
    /\ rgReq[r].at = "user"
    /\ \/ /\ Then(r, "workspace") /\ RgWell
          /\ rgUsers' = rgUsers \cup {[by |-> r, status |-> "pending", version |-> 1]}
       \/ RegistrationRefused(r) /\ RgFault /\ UNCHANGED rgUsers
    /\ UNCHANGED <<rgTenants, rgSpaces, rgMgr, rgBlind, rgHeld>>
SaveWorkspace(r) ==
    /\ rgReq[r].at = "workspace"
    /\ \/ Then(r, "done") /\ RgWell /\ rgSpaces' = rgSpaces \cup {r}
       \/ RegistrationRefused(r) /\ RgFault /\ UNCHANGED rgSpaces
    /\ UNCHANGED <<rgUsers, rgTenants, rgMgr, rgBlind, rgHeld>>

----------------------------------------------------------------------------
\* One aggregate is loaded, changed in memory, and saved.

Work(g, from, to) == rgMgr[g].at = from /\ rgMgr' = [rgMgr EXCEPT ![g] = to]
Loads(g, copy) == Work(g, "idle", copy) /\ UNCHANGED <<rgUsers, rgTenants, rgHeld, rgFaults>>

\* ActivateUser: Activate refuses an active user; VerifyEmail raises nothing.
ActivateUser(g) ==
    \E u \in rgUsers :
        u.status = "pending" /\ Loads(g, [at |-> "save user", of |-> u.by, version |-> u.version])
\* ChangeSubscription.  The usage it compares with the new plan's limits is that of a tenant built
\* from its events, which is nothing.
ChangeSubscription(g) ==
    \E t \in rgTenants, plan \in {"free", "paid"} :
        /\ t.status = "active" /\ t.plan # plan
        /\ Loads(g, [at |-> "save tenant", of |-> t.by, version |-> t.version, status |-> "active", plan |-> plan])
\* SuspendTenant, which the end of a trial never reaches: a tenant that was just loaded has a trial
\* that ends in 30 days.
SuspendTenant(g) ==
    \E t \in rgTenants :
        /\ t.status # "suspended"
        /\ Loads(g, [at |-> "save tenant", of |-> t.by, version |-> t.version, status |-> "suspended", plan |-> t.plan])
\* ReactivateTenant saves an aggregate without events: nothing changes, and the answer is nil.
\* A tenant built from its events has no payment method, so one on a paid plan is refused.
ReactivateTenant(g) ==
    /\ rgMgr[g].at = "idle" /\ \E t \in rgTenants : t.status = "suspended" /\ t.plan = "free"
    /\ UNCHANGED <<rgMgr, rgUsers, rgTenants, rgHeld, rgFaults>>

SaveChanges(g) ==
    LET c == rgMgr[g]
    IN  /\ \/ /\ Work(g, "save user", IdleManager) /\ UNCHANGED <<rgTenants, rgHeld>>
              /\ \/ /\ \E u \in rgUsers :
                          /\ u.by = c.of /\ u.version = c.version
                          /\ rgUsers' = (rgUsers \ {u}) \cup {[u EXCEPT !.status = "active", !.version = @ + 1]}
                    /\ RgWell
                 \/ (\A u \in rgUsers : u.by = c.of => u.version # c.version) /\ RgWell /\ UNCHANGED rgUsers
                 \/ RgFault /\ UNCHANGED rgUsers
           \/ /\ Work(g, "save tenant", IdleManager) /\ UNCHANGED rgUsers
              /\ \/ /\ \E t \in rgTenants :
                          /\ t.by = c.of /\ t.version = c.version /\ t.version < MaxVersions
                          /\ rgTenants' = (rgTenants \ {t}) \cup
                                {[t EXCEPT !.status = c.status, !.plan = c.plan, !.version = @ + 1]}
                          /\ rgHeld' = IF c.status = "suspended" THEN rgHeld \cup {t.by} ELSE rgHeld
                    /\ RgWell
                 \/ /\ \A t \in rgTenants : t.by = c.of => t.version # c.version
                    /\ RgWell /\ UNCHANGED <<rgTenants, rgHeld>>
                 \/ RgFault /\ UNCHANGED <<rgTenants, rgHeld>>

RgNext ==
    \/ \E r \in Registrants :
          ExistsByEmail(r) \/ EnsureUniqueSlug(r) \/ SaveTenant(r) \/ SaveUser(r) \/ SaveWorkspace(r)
    \/ /\ \E g \in Managers :
             \/ ActivateUser(g) \/ ChangeSubscription(g) \/ SuspendTenant(g) \/ ReactivateTenant(g)
             \/ SaveChanges(g)
       /\ UNCHANGED <<rgSpaces, rgReq, rgBlind>>

RgSpec == RgInit /\ [][RgNext]_rgVars

----------------------------------------------------------------------------

\* Nothing saved refers to something that is not: a user's tenant is there before the user, and a
\* workspace's owner before the workspace, whichever save failed.
NothingDangles ==
    /\ \A u \in rgUsers : \E t \in rgTenants : t.by = u.by
    /\ \A r \in rgSpaces : \E u \in rgUsers : u.by = r
\* A registration that was answered with success has left all three.
DoneIsWhole ==
    \A r \in Registrants : rgReq[r].at = "done" => r \in rgSpaces /\ \E u \in rgUsers : u.by = r
\* Two users have one e-mail address only if each looked before the other was saved: a check that
\* comes after a save always sees it.
DuplicatesAreBlind ==
    \A u, v \in rgUsers : u.by # v.by /\ EmailOf[u.by] = EmailOf[v.by] =>
        {<<u.by, v.by>>, <<v.by, u.by>>} \subseteq rgBlind
\* A tenant whose suspension was answered with success is found suspended by every later load,
\* however requests that had loaded it before go on.
SuspensionHolds == \A t \in rgTenants : t.by \in rgHeld => t.status = "suspended"

\* Registration and tenant management keep the log consistent across their separate transactions.
RegistrationSafety == NothingDangles /\ DoneIsWhole /\ DuplicatesAreBlind /\ SuspensionHolds
=============================================================================
