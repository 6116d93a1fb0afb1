------------------------------- MODULE Plugins -------------------------------
(***************************************************************************)
(* The plugin service (plugin-service/internal): installing and deleting      *)
(* plugins, the WASM runtime that holds their instances and runs them under    *)
(* a deadline, the lists cached from the registries, and the memory pool.      *)
(***************************************************************************)
EXTENDS Integers, FiniteSets, FiniteSetsExt

CONSTANTS
    Installs,      \* calls of InstallPlugin for one plugin in one workspace; each makes one installation
    PluginExecutions,    \* calls of ExecutePlugin that may be under way at once
    MaxInstances,  \* of the runtime
    MaxRuns,       \* bound on the calls of ExecutePlugin
    Catalogue, Featured,  \* what a registry offers, and the part of it that a filtered search asks for
    Searches,      \* searches and syncs of the registry at once
    PoolBytes, BlockSizes, Blocks, \* the memory pool: its size, the sizes asked for, the buffers
    MaxPluginFaults, MaxSearches   \* bounds

ASSUME PluginsAssumption ==
    /\ MaxInstances \in Nat \ {0} /\ MaxRuns \in Nat /\ MaxPluginFaults \in Nat /\ MaxSearches \in Nat
    /\ Featured \subseteq Catalogue /\ PoolBytes \in Nat /\ BlockSizes \subseteq Nat \ {0}

VARIABLES
    pgPlugin, pgQuarantined,     \* the plugin's row: "none", "stored" or "deleted"; is it in quarantine
    pgAt, pgStatus,              \* what each install does next; the status of its installation
    pgDelete,                    \* the deletion under way
    pgLoaded, pgJammed,          \* the runtime's instances; its mutex is held by a call that waits for it
    pgRun, pgOwner, pgRunaway,   \* per execution; who holds an instance's mutex; calls left running in it
    pgRuns, pgFaults,
    prList, prAsk, prNarrowed, prAsked,   \* cached list, searches under way, history: a filtered one stored it
    mpBlocks                     \* the rounded size of each buffer handed out; 0 is none

pgTables == <<pgPlugin, pgQuarantined, pgStatus>>
pgRuntime == <<pgLoaded, pgJammed, pgOwner, pgRunaway>>
pgVars == <<pgPlugin, pgQuarantined, pgStatus, pgAt, pgDelete, pgLoaded, pgJammed, pgRun, pgOwner, pgRunaway, pgRuns, pgFaults>>
prVars == <<prList, prAsk, prNarrowed, prAsked>>
PluginFault == pgFaults < MaxPluginFaults /\ pgFaults' = pgFaults + 1

----------------------------------------------------------------------------
(***************************************************************************)
(* Installations.                                                            *)
(***************************************************************************)
PluginStatus == {"none", "installed", "active", "error"}
InstallGoes(i, at) == pgAt' = [pgAt EXCEPT ![i] = at]
StatusBecomes(i, status) == pgStatus' = [pgStatus EXCEPT ![i] = status]

\* A quarantined plugin is refused; any other by its size, signature or permissions, or not.
ValidatePlugin == IF pgQuarantined THEN {FALSE} ELSE BOOLEAN
CreatePlugin ==
    /\ pgPlugin = "none" /\ TRUE \in ValidatePlugin /\ pgPlugin' = "stored"
    /\ UNCHANGED <<pgQuarantined, pgStatus, pgAt, pgDelete, pgRun, pgRuns, pgFaults>> /\ UNCHANGED pgRuntime
\* The plugin is read, an installation looked for and the plugin validated, long before the row.
StartInstall(i) ==
    /\ pgAt[i] = "idle" /\ pgPlugin = "stored" /\ \A j \in Installs : pgStatus[j] = "none"
    /\ \E passed \in ValidatePlugin : InstallGoes(i, IF passed THEN "create" ELSE "refused")
    /\ UNCHANGED <<pgDelete, pgRun, pgRuns, pgFaults>> /\ UNCHANGED pgTables /\ UNCHANGED pgRuntime
CreateInstallation(i) ==
    /\ pgAt[i] = "create"
    /\ \/ InstallGoes(i, "load") /\ StatusBecomes(i, "installed") /\ UNCHANGED pgFaults
       \/ PluginFault /\ InstallGoes(i, "refused") /\ UNCHANGED pgStatus
    /\ UNCHANGED <<pgPlugin, pgQuarantined, pgDelete, pgRun, pgRuns>> /\ UNCHANGED pgRuntime
\* cleanupLRUInstance calls UnloadPlugin, which locks the mutex LoadPlugin holds.
LoadPlugin(i) ==
    /\ pgAt[i] = "load" /\ ~pgJammed
    /\ \/ /\ Cardinality(pgLoaded) >= MaxInstances
          /\ pgJammed' = TRUE /\ InstallGoes(i, "stuck") /\ UNCHANGED <<pgLoaded, pgStatus, pgFaults>>
       \/ /\ Cardinality(pgLoaded) < MaxInstances
          /\ pgLoaded' = pgLoaded \cup {i} /\ InstallGoes(i, "activate")
          /\ UNCHANGED <<pgJammed, pgStatus, pgFaults>>
       \/ /\ Cardinality(pgLoaded) < MaxInstances /\ PluginFault
          /\ StatusBecomes(i, "error") /\ InstallGoes(i, "refused") /\ UNCHANGED <<pgLoaded, pgJammed>>
    /\ UNCHANGED <<pgPlugin, pgQuarantined, pgDelete, pgRun, pgOwner, pgRunaway, pgRuns>>
\* A failed update is logged, and the installation stays "installed", which a deletion does not count.
InstallPlugin(i) ==
    /\ pgAt[i] = "activate" /\ InstallGoes(i, "installed")
    /\ \/ StatusBecomes(i, "active") /\ UNCHANGED pgFaults
       \/ PluginFault /\ UNCHANGED pgStatus
    /\ UNCHANGED <<pgPlugin, pgQuarantined, pgDelete, pgRun, pgRuns>> /\ UNCHANGED pgRuntime

ActiveInstalls == {i \in Installs : pgStatus[i] = "active"}
DeletePlugin ==
    /\ \/ pgDelete = "idle" /\ pgPlugin = "stored" /\ ActiveInstalls = {} /\ pgDelete' = "delete" /\ UNCHANGED pgPlugin
       \/ pgDelete = "delete" /\ pgDelete' = "done" /\ pgPlugin' \in {"deleted", pgPlugin}
    /\ UNCHANGED <<pgQuarantined, pgAt, pgStatus, pgRun, pgRuns, pgFaults>> /\ UNCHANGED pgRuntime
\* Quarantine is looked at when a plugin is validated, and not when it is run.
QuarantinePlugin ==
    /\ pgFaults < MaxPluginFaults /\ pgFaults' = pgFaults + 1 /\ pgQuarantined' = ~pgQuarantined
    /\ UNCHANGED <<pgPlugin, pgAt, pgStatus, pgDelete, pgRun, pgRuns>> /\ UNCHANGED pgRuntime

----------------------------------------------------------------------------
(***************************************************************************)
(* PluginExecutions.  An instance runs one at a time, under its mutex.             *)
(***************************************************************************)
NoExecution == [at |-> "idle", of |-> {}]
ExecutePlugin(e) ==
    /\ pgRun[e].at = "idle" /\ pgRuns < MaxRuns /\ pgRuns' = pgRuns + 1 /\ ~pgJammed
    /\ \E i \in pgLoaded : pgRun' = [pgRun EXCEPT ![e] = [at |-> "lock", of |-> {i}]]
    /\ UNCHANGED <<pgAt, pgDelete, pgFaults>> /\ UNCHANGED pgTables /\ UNCHANGED pgRuntime
RunInstance(e) ==
    \E i \in pgRun[e].of :
        /\ pgRun[e].at = "lock" /\ pgOwner[i] = {}
        /\ pgOwner' = [pgOwner EXCEPT ![i] = {e}] /\ pgRun' = [pgRun EXCEPT ![e].at = "run"]
        /\ UNCHANGED <<pgAt, pgDelete, pgLoaded, pgJammed, pgRunaway, pgRuns, pgFaults>> /\ UNCHANGED pgTables
\* At the deadline, or at a limit, the call returns and the function it called goes on.
ExecuteWithResourceLimits(e) ==
    \E i \in pgRun[e].of :
        /\ pgRun[e].at = "run" /\ pgRun' = [pgRun EXCEPT ![e] = NoExecution]
        /\ pgOwner' = [pgOwner EXCEPT ![i] = {}]
        /\ pgRunaway' \in {pgRunaway, [pgRunaway EXCEPT ![i] = @ + 1]}
        /\ UNCHANGED <<pgAt, pgDelete, pgLoaded, pgJammed, pgRuns, pgFaults>> /\ UNCHANGED pgTables
RunawayEnds(i) ==
    /\ pgRunaway[i] > 0 /\ pgRunaway' = [pgRunaway EXCEPT ![i] = @ - 1]
    /\ UNCHANGED <<pgAt, pgDelete, pgLoaded, pgJammed, pgOwner, pgRun, pgRuns, pgFaults>> /\ UNCHANGED pgTables
\* Shutdown holds the mutex and calls UnloadPlugin.
ShutdownRuntime ==
    /\ ~pgJammed /\ pgLoaded # {} /\ pgRuns = MaxRuns /\ pgJammed' = TRUE
    /\ UNCHANGED <<pgAt, pgDelete, pgLoaded, pgOwner, pgRunaway, pgRun, pgRuns, pgFaults>> /\ UNCHANGED pgTables

PgInit ==
    /\ pgPlugin = "none" /\ pgQuarantined = FALSE /\ pgAt = [i \in Installs |-> "idle"]
    /\ pgStatus = [i \in Installs |-> "none"] /\ pgDelete = "idle"
    /\ pgLoaded = {} /\ pgJammed = FALSE /\ pgRun = [e \in PluginExecutions |-> NoExecution]
    /\ pgOwner = [i \in Installs |-> {}] /\ pgRunaway = [i \in Installs |-> 0] /\ pgRuns = 0 /\ pgFaults = 0
PgNext ==
    \/ \E i \in Installs : StartInstall(i) \/ CreateInstallation(i) \/ LoadPlugin(i) \/ InstallPlugin(i) \/ RunawayEnds(i)
    \/ \E e \in PluginExecutions : ExecutePlugin(e) \/ RunInstance(e) \/ ExecuteWithResourceLimits(e)
    \/ CreatePlugin \/ DeletePlugin \/ QuarantinePlugin \/ ShutdownRuntime

----------------------------------------------------------------------------
(***************************************************************************)
(* The registry.  A search asks the cached list first, filters it here, and   *)
(* on a miss stores what the registry returned for its own filter.            *)
(***************************************************************************)
NoPluginList == {"no list"}
SearchPlugins(s) ==
    /\ prAsk[s] = "idle" /\ prAsked < MaxSearches /\ prAsked' = prAsked + 1
    /\ \/ prList # NoPluginList /\ UNCHANGED prAsk
       \/ prList = NoPluginList /\ \E how \in {"fetch all", "fetch featured"} : prAsk' = [prAsk EXCEPT ![s] = how]
    /\ UNCHANGED <<prList, prNarrowed>>
\* The old list is dropped before the new one is fetched.
SyncRegistry(s) ==
    /\ prAsk[s] = "idle" /\ prAsked < MaxSearches /\ prAsked' = prAsked + 1
    /\ \A t \in Searches : prAsk[t] # "sync"
    /\ prList' = NoPluginList /\ prAsk' = [prAsk EXCEPT ![s] = "sync"] /\ prNarrowed' = FALSE
FetchPluginsFromAPI(s) ==
    /\ prAsk[s] # "idle" /\ prAsk' = [prAsk EXCEPT ![s] = "idle"]
    /\ \/ /\ prList' = (IF prAsk[s] = "fetch featured" THEN Featured ELSE Catalogue)
          /\ prNarrowed' = (prAsk[s] = "fetch featured")
       \/ UNCHANGED <<prList, prNarrowed>>
    /\ UNCHANGED prAsked
ListExpires ==
    /\ prList # NoPluginList /\ prList' = NoPluginList /\ prNarrowed' = FALSE /\ UNCHANGED <<prAsk, prAsked>>
PrInit == prList = NoPluginList /\ prAsk = [s \in Searches |-> "idle"] /\ prNarrowed = FALSE /\ prAsked = 0
PrNext == ListExpires \/ \E s \in Searches : SearchPlugins(s) \/ SyncRegistry(s) \/ FetchPluginsFromAPI(s)

----------------------------------------------------------------------------
(***************************************************************************)
(* The memory pool asks for room for the size and takes room for the next    *)
(* power of two.                                                             *)
(***************************************************************************)
Rounded(size) == CHOOSE p \in {2 ^ k : k \in 0 .. size} :
                    p >= size /\ \A q \in {2 ^ k : k \in 0 .. size} : q >= size => p <= q
UsedBytes == FoldSet(LAMBDA b, n : n + mpBlocks[b], 0, Blocks)
AllocateBlock(b, size) == mpBlocks[b] = 0 /\ UsedBytes + size <= PoolBytes /\ mpBlocks' = [mpBlocks EXCEPT ![b] = Rounded(size)]
FreeBlock(b) == mpBlocks[b] # 0 /\ mpBlocks' = [mpBlocks EXCEPT ![b] = 0]
MpInit == mpBlocks = [b \in Blocks |-> 0]
MpNext == \E b \in Blocks : FreeBlock(b) \/ \E size \in BlockSizes : AllocateBlock(b, size)

----------------------------------------------------------------------------

PgTypeOK ==
    /\ pgPlugin \in {"none", "stored", "deleted"} /\ pgStatus \in [Installs -> PluginStatus]
    /\ pgAt \in [Installs -> {"idle", "refused", "create", "load", "activate", "installed", "stuck"}]
    /\ pgLoaded \subseteq Installs /\ pgOwner \in [Installs -> SUBSET PluginExecutions]
    /\ prList = NoPluginList \/ prList \subseteq Catalogue

\* An active installation has an instance, the instances keep their number, and the mutex is lost to a
\* call that waits for itself only with instances there.
RoomKept ==
    /\ ActiveInstalls \subseteq pgLoaded /\ Cardinality(pgLoaded) <= MaxInstances
    /\ (\E i \in Installs : pgAt[i] = "stuck") => pgJammed /\ Cardinality(pgLoaded) = MaxInstances
\* The mutex of an instance has one holder, who is at work in it; what runs besides has run out of time.
OneCallEach ==
    \A i \in Installs : pgOwner[i] = {e \in PluginExecutions : pgRun[e].at = "run" /\ pgRun[e].of = {i}}
                        /\ Cardinality(pgOwner[i]) <= 1
\* A cached list leaves out what the registry offers only if a filtered search stored it: neither a
\* failed fetch nor a sync does.
ListIsWhole == prList = NoPluginList \/ prNarrowed \/ prList = Catalogue
\* Rounding may take the pool above its size, and never to twice its size.
PoolOvershoot == UsedBytes < 2 * PoolBytes

\* Instances, executions and cached lists are kept within these bounds.
PluginSafety == RoomKept /\ OneCallEach /\ ListIsWhole
=============================================================================
