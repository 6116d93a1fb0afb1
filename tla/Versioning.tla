----------------------------- MODULE Versioning ------------------------------
(***************************************************************************)
(* API versioning (pkg/versioning): detecting the version of a request with  *)
(* a strategy kept in a shared configuration, transforming bodies, the        *)
(* lifecycle of a version beside the readers of its dates, and the windows of *)
(* the usage analytics.  Three machines that share nothing, prefixes vd, vl    *)
(* and vw.  A version's name is the sequence of its numbers.                   *)
(***************************************************************************)
EXTENDS Integers, Sequences, FiniteSets, FiniteSetsExt, SequencesExt

CONSTANTS
    VersionRequests,   \* requests being detected at once
    NameAt,            \* NameAt[r][place]: the version a request names at a place, or NoName
    RegisteredVersions,        \* the names in the registry
    DefaultName,       \* the registry's default
    Configured,        \* the strategies a detector may be configured with
    TransformRules,    \* the sequences of rules that may be registered for the pair of versions
    Payload,           \* the body sent with a request
    HeaderReaders,     \* requests that are writing the response headers of the version
    DeprecationPeriod, MaxDays, MaxSchedules,    \* days; bounds on the clock and on the schedules made
    RetentionCount, LastWindow, MaxWindowEvents  \* of the aggregator; bounds

ASSUME VersioningAssumption ==
    /\ DeprecationPeriod \in Nat /\ MaxDays \in Nat /\ MaxSchedules \in Nat
    /\ RetentionCount \in Nat \ {0} /\ LastWindow \in Nat /\ MaxWindowEvents \in Nat

VARIABLES
    vdStrategy, vdSet, vdRequests, vdClashed,     \* shared strategy; as configured; requests; history: two overlapped
    vlVersion, vlSchedule, vlDay, vlWriter, vlReaders, vlScheduled, vlRejectedAs,
    vwWindows, vwNewest, vwEvents

vdVars == <<vdStrategy, vdSet, vdRequests, vdClashed>>
vlVars == <<vlVersion, vlSchedule, vlDay, vlWriter, vlReaders, vlScheduled, vlRejectedAs>>
vwVars == <<vwWindows, vwNewest, vwEvents>>

----------------------------------------------------------------------------
(***************************************************************************)
(* Versions compared.                                                        *)
(***************************************************************************)
NoName == <<>>
IsCompatibleWith(v, w) == v[1] = w[1]
IsNewerThan(v, w) ==
    \E i \in 1..3 : v[i] > w[i] /\ \A j \in 1..(i - 1) : v[j] = w[j]
\* The smallest stable version that is newer, or no name.
GetSuccessorVersion(v, stable) ==
    LET candidates == {w \in stable : IsNewerThan(w, v)} IN
    IF candidates = {} THEN NoName
    ELSE CHOOSE w \in candidates : \A u \in candidates : ~IsNewerThan(w, u)
\* All the versions between two of them: their breaking changes are the answer's.
GetBreakingChangesBetween(v, w, all) ==
    IF IsNewerThan(w, v) THEN {u \in all : IsNewerThan(u, v) /\ ~IsNewerThan(u, w)} ELSE {}
\* The developer tools list those of the target alone, whatever lies between.
AnalyzeCompatibility(v, w) == IF IsNewerThan(w, v) THEN {w} ELSE {}

----------------------------------------------------------------------------
(***************************************************************************)
(* Detection.  Places a name is looked for; a path or a media type yields at  *)
(* most two numbers of it, the registry's names have three.                   *)
(***************************************************************************)
Places == {"path", "header", "query", "content_type", "accept_header"}
\* The names of a registry have three numbers: Version.String writes them all.
ASSUME VersionNamesAssumption ==
    /\ Configured \subseteq Places \cup {"combined"} /\ NameAt \in [VersionRequests -> [Places -> Seq(Nat)]]
    /\ DefaultName \in Seq(Nat) /\ \A v \in RegisteredVersions : v \in Seq(Nat) /\ Len(v) = 3
CombinedOrder == <<"path", "header", "accept_header", "content_type", "query">>
FallbackStrategies == <<"header", "query">>

DetectFromPath(name) == SubSeq(name, 1, Min({2, Len(name)}))
NameBy(r, place) ==
    IF place \in {"header", "query"} THEN NameAt[r][place] ELSE DetectFromPath(NameAt[r][place])
DetectCombined(r) ==
    LET named == {i \in 1..Len(CombinedOrder) : NameBy(r, CombinedOrder[i]) # NoName} IN
    IF named = {} THEN NoName ELSE NameBy(r, CombinedOrder[Min(named)])
DetectVersion(r, strategy) ==
    LET name == IF strategy = "combined" THEN DetectCombined(r) ELSE NameBy(r, strategy)
        wanted == IF name = NoName THEN DefaultName ELSE name
    IN  IF wanted \in RegisteredVersions THEN wanted
        ELSE IF DefaultName \in RegisteredVersions THEN DefaultName ELSE NoName

IdleDetection == [at |-> "idle", walk |-> "none", saved |-> "none", turn |-> 0, found |-> NoName,
                  body |-> Payload, response |-> "none"]
Detection(r, next) == vdRequests' = [vdRequests EXCEPT ![r] = next]
Swapping == {r \in VersionRequests : vdRequests[r].at \in {"swap", "read", "restore"}}
Walked(r) == IF vdRequests[r].walk = "combined" THEN CombinedOrder ELSE FallbackStrategies
WalkFrom(d, walk) == [d EXCEPT !.at = "save", !.walk = walk, !.turn = 1]
\* What a detection that ended with a name, or with none, does next.
Detected(d, found) == IF found # NoName THEN [d EXCEPT !.at = "found", !.found = found] ELSE WalkFrom(d, "fallback")

\* The configured strategy first; a combined one walks the places, swapping the shared strategy at each.
ArriveVersioned(r) ==
    /\ vdRequests[r].at = "idle"
    /\ Detection(r, IF vdStrategy = "combined" THEN WalkFrom(vdRequests[r], "combined")
                    ELSE Detected(vdRequests[r], DetectVersion(r, vdStrategy)))
    /\ vdClashed' = (vdClashed \/ Swapping # {})
    /\ UNCHANGED <<vdStrategy, vdSet>>
SaveStrategy(r) ==
    /\ vdRequests[r].at = "save"
    /\ Detection(r, [vdRequests[r] EXCEPT !.at = "swap", !.saved = vdStrategy])
    /\ vdClashed' = (vdClashed \/ Swapping # {})
    /\ UNCHANGED <<vdStrategy, vdSet>>
SwapStrategy(r) ==
    /\ vdRequests[r].at = "swap"
    /\ vdStrategy' = Walked(r)[vdRequests[r].turn]
    /\ Detection(r, [vdRequests[r] EXCEPT !.at = "read"])
    /\ UNCHANGED <<vdSet, vdClashed>>
\* A fallback detects by whatever the shared strategy is by now, and saves it only once.
ReadStrategy(r) ==
    /\ vdRequests[r].at = "read"
    /\ LET found == IF vdRequests[r].walk = "combined" THEN NoName ELSE DetectVersion(r, vdStrategy)
           ends == vdRequests[r].walk = "combined" \/ found # NoName \/ vdRequests[r].turn = Len(Walked(r))
       IN  Detection(r, IF ends THEN [vdRequests[r] EXCEPT !.at = "restore", !.found = found]
                        ELSE [vdRequests[r] EXCEPT !.at = "swap", !.turn = @ + 1])
    /\ UNCHANGED <<vdStrategy, vdSet, vdClashed>>
RestoreStrategy(r) ==
    /\ vdRequests[r].at = "restore"
    /\ vdStrategy' = vdRequests[r].saved
    /\ LET turn == vdRequests[r].turn
           ends == NameBy(r, Walked(r)[turn]) # NoName \/ turn = Len(Walked(r))
       IN  Detection(r, IF vdRequests[r].walk = "fallback" THEN [vdRequests[r] EXCEPT !.at = "found"]
                        ELSE IF ends THEN Detected(vdRequests[r], DetectVersion(r, "combined"))
                        ELSE [vdRequests[r] EXCEPT !.at = "save", !.turn = turn + 1])
    /\ UNCHANGED <<vdSet, vdClashed>>

----------------------------------------------------------------------------
(***************************************************************************)
(* Bodies: a document is a function from its fields to values.                *)
(***************************************************************************)
NoDocument == [error |-> "failed"]
SetField(doc, field, value) == [f \in DOMAIN doc \cup {field} |-> IF f = field THEN value ELSE doc[f]]
RemoveField(doc, field) == [f \in DOMAIN doc \ {field} |-> doc[f]]
CopyField(doc, mapping) ==
    IF mapping.source \in DOMAIN doc THEN SetField(doc, mapping.target, doc[mapping.source]) ELSE doc
\* With one path for both ends the field is set and then deleted.
RenameField(doc, mapping) ==
    IF mapping.source \in DOMAIN doc THEN RemoveField(CopyField(doc, mapping), mapping.source) ELSE doc
TransformField(doc, mapping) ==
    IF mapping.source \in DOMAIN doc THEN SetField(doc, mapping.target, "converted") ELSE doc
SplitField(doc, mapping) ==
    IF mapping.source \in DOMAIN doc THEN SetField(doc, mapping.target, "part") ELSE doc
ApplyFieldMapping(doc, mapping) ==
    IF doc = NoDocument THEN NoDocument
    ELSE CASE mapping.op = "copy" -> CopyField(doc, mapping)
           [] mapping.op = "rename" -> RenameField(doc, mapping)
           [] mapping.op = "transform" -> TransformField(doc, mapping)
           [] mapping.op = "remove" -> RemoveField(doc, mapping.source)
           [] mapping.op = "add" -> SetField(doc, mapping.target, "default")
           [] mapping.op = "split" -> SplitField(doc, mapping)
           [] mapping.op \in {"merge", "validate"} -> doc
           [] OTHER -> NoDocument
ApplyFieldMappings(doc, mappings) == FoldLeft(ApplyFieldMapping, doc, mappings)
RuleApplies(rule, path) == rule.paths = {} \/ path \in rule.paths
TransformRequest(doc, rules, path) ==
    FoldLeft(LAMBDA d, rule : IF rule.request /\ RuleApplies(rule, path) THEN ApplyFieldMappings(d, rule.mappings) ELSE d,
             doc, rules)

\* Nobody but a handler that flushes sends the buffered response; an unknown version is an error.
TransformMiddleware(r) ==
    /\ vdRequests[r].at = "found"
    /\ \/ /\ vdRequests[r].found = NoName
          /\ Detection(r, [vdRequests[r] EXCEPT !.at = "done", !.response = "bad request"])
       \/ /\ vdRequests[r].found # NoName
          /\ \E rules \in TransformRules, flushes \in BOOLEAN :
                LET doc == TransformRequest(Payload, rules, "/users/") IN
                Detection(r, [vdRequests[r] EXCEPT !.at = "done", !.body = doc,
                                                   !.response = IF flushes THEN "sent" ELSE "buffered"])
    /\ UNCHANGED <<vdStrategy, vdSet, vdClashed>>
NextVersionedRequest(r) ==
    /\ vdRequests[r].at = "done"
    /\ Detection(r, IdleDetection)
    /\ UNCHANGED <<vdStrategy, vdSet, vdClashed>>

VdInit ==
    /\ vdSet \in Configured /\ vdStrategy = vdSet
    /\ vdRequests = [r \in VersionRequests |-> IdleDetection] /\ vdClashed = FALSE
VdNext == \E r \in VersionRequests :
    \/ ArriveVersioned(r) \/ SaveStrategy(r) \/ SwapStrategy(r) \/ ReadStrategy(r) \/ RestoreStrategy(r)
    \/ TransformMiddleware(r) \/ NextVersionedRequest(r)

----------------------------------------------------------------------------
(***************************************************************************)
(* The lifecycle of one version.  Its fields are written one after another by *)
(* the processor of schedules or by an administrator, who hold two different   *)
(* mutexes, and read by the requests, who hold none.  A day of 0 is no date.   *)
(***************************************************************************)
VersionStatuses == {"stable", "deprecated", "sunset"}
TransitionStatuses == {"pending", "rejected", "completed"}
NoSchedule == [transitions |-> <<>>, approval |-> "none"]
NoWriter == [at |-> "idle", turn |-> 0]

PlanTransition(to, day) == [to |-> to, day |-> day, status |-> "pending"]
ProcessorIdle == vlWriter["processor"].at = "idle"
WriterAt(w, next) == vlWriter' = [vlWriter EXCEPT ![w] = next]

ScheduleDeprecation(day) ==
    /\ ProcessorIdle /\ vlScheduled < MaxSchedules /\ vlVersion.status = "stable"
    /\ vlSchedule' = [transitions |-> <<PlanTransition("deprecated", day),
                                        PlanTransition("sunset", day + DeprecationPeriod)>>,
                      approval |-> "pending"]
    /\ vlScheduled' = vlScheduled + 1 /\ vlRejectedAs' = "none"
    /\ UNCHANGED <<vlVersion, vlDay, vlWriter, vlReaders>>
ApproveTransition ==
    /\ ProcessorIdle /\ vlSchedule # NoSchedule
    /\ vlSchedule' = [vlSchedule EXCEPT !.approval = "approved"]
    /\ UNCHANGED <<vlVersion, vlDay, vlWriter, vlReaders, vlScheduled, vlRejectedAs>>
RejectTransition ==
    /\ ProcessorIdle /\ vlSchedule # NoSchedule
    /\ vlSchedule' = [transitions |-> [i \in 1..2 |->
                         IF vlSchedule.transitions[i].status = "pending"
                         THEN [vlSchedule.transitions[i] EXCEPT !.status = "rejected"]
                         ELSE vlSchedule.transitions[i]],
                      approval |-> "rejected"]
    /\ vlRejectedAs' = IF \E i \in 1..2 : vlSchedule.transitions[i].status = "pending"
                       THEN vlVersion.status ELSE vlRejectedAs
    /\ UNCHANGED <<vlVersion, vlDay, vlWriter, vlReaders, vlScheduled>>

\* Both transitions can run in one pass; the second needs only its own day to be over.
DueTransitions ==
    {i \in DOMAIN vlSchedule.transitions :
        /\ vlSchedule.transitions[i].status = "pending" /\ vlSchedule.transitions[i].day < vlDay
        /\ vlSchedule.approval = "approved"}
ProcessScheduledTransitions ==
    /\ ProcessorIdle /\ DueTransitions # {}
    /\ WriterAt("processor", [at |-> "status", turn |-> Min(DueTransitions)])
    /\ UNCHANGED <<vlVersion, vlSchedule, vlDay, vlReaders, vlScheduled, vlRejectedAs>>
\* The administrator deprecates or sunsets the version at once, whatever its status.
DeprecateOrSunsetVersion ==
    /\ vlWriter["admin"].at = "idle"
    /\ \E turn \in 1..2 : WriterAt("admin", [at |-> "status", turn |-> turn])
    /\ UNCHANGED <<vlVersion, vlSchedule, vlDay, vlReaders, vlScheduled, vlRejectedAs>>

\* The last write of a transition, which also records it; the days of it are now and now plus a period.
Finished(w) ==
    /\ WriterAt(w, NoWriter)
    /\ vlSchedule' = IF w = "admin" THEN vlSchedule
                     ELSE [vlSchedule EXCEPT !.transitions[vlWriter[w].turn].status = "completed"]
WriteStatus(w) ==
    /\ vlWriter[w].at = "status"
    /\ vlVersion' = [vlVersion EXCEPT !.status = IF vlWriter[w].turn = 1 THEN "deprecated" ELSE "sunset"]
    /\ IF vlWriter[w].turn = 1 THEN WriterAt(w, [vlWriter[w] EXCEPT !.at = "deprecated"]) /\ UNCHANGED vlSchedule ELSE Finished(w)
    /\ UNCHANGED <<vlDay, vlReaders, vlScheduled, vlRejectedAs>>
WriteDeprecatedDate(w) ==
    /\ vlWriter[w].at = "deprecated"
    /\ vlVersion' = [vlVersion EXCEPT !.deprecated = vlDay] /\ WriterAt(w, [vlWriter[w] EXCEPT !.at = "sunset"])
    /\ UNCHANGED <<vlSchedule, vlDay, vlReaders, vlScheduled, vlRejectedAs>>
WriteSunsetDate(w) ==
    /\ vlWriter[w].at = "sunset"
    /\ vlVersion' = [vlVersion EXCEPT !.sunset = vlDay + DeprecationPeriod] /\ Finished(w)
    /\ UNCHANGED <<vlDay, vlReaders, vlScheduled, vlRejectedAs>>

\* A deprecated version with a sunset date has its deprecation date dereferenced.
Reader(r, at) == vlReaders' = [vlReaders EXCEPT ![r] = at]
AddResponseHeaders(r) ==
    /\ \/ vlReaders[r] = "idle" /\ Reader(r, IF vlVersion.status = "deprecated" THEN "sunset" ELSE "idle")
       \/ vlReaders[r] = "sunset" /\ Reader(r, IF vlVersion.sunset # 0 THEN "deprecated" ELSE "idle")
       \/ vlReaders[r] = "deprecated" /\ Reader(r, IF vlVersion.deprecated # 0 THEN "idle" ELSE "panicked")
    /\ UNCHANGED <<vlVersion, vlSchedule, vlDay, vlWriter, vlScheduled, vlRejectedAs>>
DayPasses ==
    /\ vlDay < MaxDays /\ vlDay' = vlDay + 1
    /\ UNCHANGED <<vlVersion, vlSchedule, vlWriter, vlReaders, vlScheduled, vlRejectedAs>>

VlInit ==
    /\ vlVersion = [status |-> "stable", deprecated |-> 0, sunset |-> 0]
    /\ vlSchedule = NoSchedule /\ vlDay = 1 /\ vlScheduled = 0 /\ vlRejectedAs = "none"
    /\ vlWriter = [w \in {"processor", "admin"} |-> NoWriter]
    /\ vlReaders = [r \in HeaderReaders |-> "idle"]
VlNext ==
    \/ \E day \in 1..MaxDays : ScheduleDeprecation(day)
    \/ ApproveTransition \/ RejectTransition \/ ProcessScheduledTransitions \/ DeprecateOrSunsetVersion \/ DayPasses
    \/ \E w \in {"processor", "admin"} : WriteStatus(w) \/ WriteDeprecatedDate(w) \/ WriteSunsetDate(w)
    \/ \E r \in HeaderReaders : AddResponseHeaders(r)

----------------------------------------------------------------------------
(***************************************************************************)
(* The aggregator's windows: an event opens the window of its own timestamp,  *)
(* and the oldest of too many are evicted, be it the one just opened.         *)
(***************************************************************************)
CleanupOldWindows(windows) ==
    LET excess == Cardinality(DOMAIN windows) - RetentionCount
        rank(w) == Cardinality({v \in DOMAIN windows : v < w})
    IN  IF excess <= 0 THEN windows
        ELSE [w \in {v \in DOMAIN windows : rank(v) >= excess} |-> windows[w]]
GetOrCreateWindow(window) ==
    IF window \in DOMAIN vwWindows THEN vwWindows ELSE CleanupOldWindows(SetField(vwWindows, window, 0))
\* The count of an evicted window is added to a record nobody holds any more.
ProcessAnalyticsEvent(window) ==
    /\ vwEvents < MaxWindowEvents /\ vwEvents' = vwEvents + 1
    /\ LET kept == GetOrCreateWindow(window) IN
       vwWindows' = IF window \in DOMAIN kept THEN [kept EXCEPT ![window] = @ + 1] ELSE kept
    /\ vwNewest' = Max({vwNewest, window})
VwInit == vwWindows = <<>> /\ vwNewest = 0 /\ vwEvents = 0
VwNext == \E window \in 1..LastWindow : ProcessAnalyticsEvent(window)

----------------------------------------------------------------------------
VersioningTypeOK ==
    /\ vdStrategy \in Places \cup {"combined"} /\ vdSet \in Configured /\ vdClashed \in BOOLEAN
    /\ \A r \in VersionRequests :
          /\ vdRequests[r].at \in {"idle", "save", "swap", "read", "restore", "found", "done"}
          /\ vdRequests[r].found \in RegisteredVersions \cup {NoName}
    /\ vlVersion.status \in VersionStatuses /\ vlDay \in 1..MaxDays
    /\ \A i \in DOMAIN vlSchedule.transitions : vlSchedule.transitions[i].status \in TransitionStatuses
    /\ \A r \in HeaderReaders : vlReaders[r] \in {"idle", "sunset", "deprecated", "panicked"}
    /\ DOMAIN vwWindows \subseteq 1..LastWindow /\ vwEvents \in 0..MaxWindowEvents

\* Unless two detections overlapped while one had the strategy swapped, the shared strategy is the
\* configured one whenever no detection is under way.
StrategyRestored == ~vdClashed /\ Swapping = {} => vdStrategy = vdSet
\* Whatever the others did to the strategy, a request is served a version it named itself or the default.
OwnVersion == \A r \in VersionRequests :
    vdRequests[r].found \in {NameAt[r][p] : p \in Places} \cup {DefaultName, NoName}
\* A request that names a registered version in its header is never refused, as long as no two overlapped.
NamedIsServed == \A r \in VersionRequests :
    ~vdClashed /\ vdRequests[r].response = "bad request" =>
        \A i \in 1..Len(FallbackStrategies) : NameAt[r][FallbackStrategies[i]] \notin RegisteredVersions
\* The handler reads what was sent but for the fields the mappings name, or, after a failing rule, nothing.
BodyArrives == \A r \in VersionRequests :
    vdRequests[r].at = "done" /\ vdRequests[r].body # NoDocument =>
        \A f \in DOMAIN Payload :
            \/ \E rules \in TransformRules : \E i \in DOMAIN rules : \E j \in DOMAIN rules[i].mappings :
                  f \in {rules[i].mappings[j].source, rules[i].mappings[j].target}
            \/ f \in DOMAIN vdRequests[r].body /\ vdRequests[r].body[f] = Payload[f]
\* No reader of the headers finds a sunset date without a deprecation date: the writers set them in that
\* order, and whoever is between the two has found the status first.
HeadersSafe == \A r \in HeaderReaders : vlReaders[r] # "panicked"
\* What was rejected stays so, even if approved later: the status only moves on by an administrator.
RejectedRests ==
    vlRejectedAs # "none" => \A i \in DOMAIN vlSchedule.transitions : vlSchedule.transitions[i].status # "pending"
\* A scheduled sunset is never carried out before the scheduled deprecation.
OrderKept ==
    \A i \in DOMAIN vlSchedule.transitions : \A j \in 1..(i - 1) :
        vlSchedule.transitions[i].status = "completed" => vlSchedule.transitions[j].status = "completed"
\* The aggregator keeps at most its number of windows, and always the newest.
NewestKept ==
    /\ Cardinality(DOMAIN vwWindows) <= RetentionCount
    /\ vwNewest # 0 => vwNewest \in DOMAIN vwWindows

\* The order of versions is total, a successor is newer with none between, and what the developer tools list as
\* breaking is part of what the middleware lists for the same pair.
VersionsAreOrdered ==
    \A v, w \in RegisteredVersions :
        /\ v # w => (IsNewerThan(v, w) <=> ~IsNewerThan(w, v))
        /\ LET next == GetSuccessorVersion(v, RegisteredVersions) IN
           next # NoName => IsNewerThan(next, v) /\ ~(IsNewerThan(w, v) /\ IsNewerThan(next, w))
        /\ IsCompatibleWith(v, w) <=> IsCompatibleWith(w, v)
        /\ AnalyzeCompatibility(v, w) \subseteq GetBreakingChangesBetween(v, w, RegisteredVersions)

\* All of the above but for the bodies.
VersioningSafety ==
    /\ VersionsAreOrdered /\ StrategyRestored /\ OwnVersion /\ NamedIsServed
    /\ HeadersSafe /\ RejectedRests /\ OrderKept /\ NewestKept
=============================================================================
