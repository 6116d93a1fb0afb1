---------------------- MODULE InfrastructurePartsProofs ----------------------
(***************************************************************************)
(* Proofs about parts of the infrastructure that stand on their own, for any *)
(* number of callers, events, tasks, targets and attempts: the publishers of *)
(* the outbox and its tracked processing (OutboxPublishers), the three ways  *)
(* through Kafka (KafkaBus) and the watchers (Monitoring).                   *)
(***************************************************************************)
EXTENDS OutboxPublishers, KafkaBus, Monitoring, FiniteSetTheorems, SequenceTheorems, TLAPS

(***************************************************************************)
(* The publishers.                                                         *)
(***************************************************************************)
Places == {"idle", "publish", "reopen", "send", "record"}
CallType == [at : Places, entry : PublishedEntries \cup {0}, target : DOMAIN Targets, attempt : 1 .. TargetTries,
             failed : BOOLEAN, ok : BOOLEAN, seen : Nat]

PbTypes ==
    /\ pbStrategy \in PublishStrategies /\ pbCall \in [PublishCallers -> CallType]
    /\ pbState \in [Guarded -> {"closed", "open", "half-open"}] /\ pbCount \in [Guarded -> Nat]
    /\ pbCalls \in [PublishedEntries -> Nat] /\ pbAcked \subseteq PublishedEntries
    /\ pbReceived \in [PublishedEntries -> [TargetSet -> Nat]]
    /\ pbTrips \in [Guarded -> Nat] /\ pbSwallows \in [Guarded -> Nat] /\ pbOverlap \in BOOLEAN

HasIt(e, t) == pbReceived[e][t] > 0 \/ <<e, t>> \in pbSwallowed
\* A call that failed nowhere so far has reached every target before its own.
CallFits(c) ==
    /\ c.at # "idle" => c.entry \in PublishedEntries
    /\ c.at \in {"reopen", "record"} => Target(c) \in Guarded
    /\ c.at = "record" /\ c.ok => HasIt(c.entry, Target(c))
    /\ Target(c) \notin Guarded => c.attempt = 1
    /\ c.at # "idle" /\ pbStrategy = "all" /\ ~c.failed =>
          \A i \in DOMAIN Targets : i < c.target => HasIt(c.entry, Targets[i])

\* The attempts a call may still make to send e to t.
Tries(t) == IF t \in Guarded THEN TargetTries ELSE 1
AttemptsLeft(c, e, t) ==
    {a \in 1 .. TargetTries :
        /\ c.at # "idle" /\ c.entry = e /\ a <= Tries(t)
        /\ \E i \in DOMAIN Targets :
              Targets[i] = t /\ (i > c.target \/ (i = c.target /\ (a > c.attempt \/ (a = c.attempt /\ c.at # "record"))))}
ToCome(e, t) == {x \in PublishCallers \X (1 .. TargetTries) : x[2] \in AttemptsLeft(pbCall[x[1]], e, t)}
BudgetKept ==
    \A e \in PublishedEntries, t \in TargetSet :
        pbReceived[e][t] + Cardinality(ToCome(e, t)) <= pbCalls[e] * Tries(t)

\* While calls never met, the one inside a breaker has read what is still there.
Inside(c) == c.at \in {"send", "reopen", "record"} /\ Target(c) \in Guarded
InsideFits(c) ==
    LET t == Target(c)
    IN  IF c.at = "reopen" THEN pbState[t] = "open"
        ELSE pbState[t] # "open" /\ (c.at = "record" => c.seen = pbCount[t])
Alone ==
    ~pbOverlap =>
        /\ \A v, w \in PublishCallers : Inside(pbCall[v]) /\ Inside(pbCall[w]) => v = w
        /\ \A w \in PublishCallers : Inside(pbCall[w]) => InsideFits(pbCall[w])
        /\ \A t \in Guarded : pbState[t] = "open" => pbSwallows[t] < pbTrips[t]

PbIInv ==
    /\ PbTypes /\ \A w \in PublishCallers : CallFits(pbCall[w])
    /\ AckedIsReceived /\ BudgetKept /\ Alone /\ BreakerKeepsCount

LEMMA CallsAreFine ==
    ASSUME PbTypes, NEW w \in PublishCallers
    PROVE  pbCall[w] \in CallType /\ Target(pbCall[w]) \in TargetSet
BY DEF PbTypes, CallType, Target, TargetSet

LEMMA NothingCalled == NoCall \in CallType /\ NoCall.at = "idle" /\ NoCall.target = 1 /\ NoCall.attempt = 1 /\ CallFits(NoCall)
<1>1. 1 \in DOMAIN Targets /\ 1 \in 1 .. TargetTries /\ 0 \in Nat
  BY PublishersAssumption
<1> QED BY <1>1 DEF NoCall, CallType, Places, CallFits

\* What a caller has after a target answered: another attempt, the next target, or the end of the call.
LEMMA AfterAnAnswer ==
    ASSUME PbTypes, NEW w \in PublishCallers, NEW c, pbCall[w] = c, NEW ok \in BOOLEAN, c.at # "idle", CallFits(c),
           pbStrategy' = pbStrategy, AckedIsReceived,
           \A e \in PublishedEntries, t \in TargetSet : HasIt(e, t) => HasIt(e, t)',
           ok => HasIt(c.entry, Target(c))',
           Returns(w, ok)
    PROVE  /\ \E d \in CallType :
                 /\ pbCall' = [pbCall EXCEPT ![w] = d] /\ d.at \in {"idle", "publish"} /\ CallFits(d)'
                 /\ \A e \in PublishedEntries, t \in TargetSet :
                       /\ AttemptsLeft(d, e, t) \subseteq AttemptsLeft(c, e, t)
                       /\ t = Target(c) => c.attempt \notin AttemptsLeft(d, e, t)
           /\ AckedIsReceived' /\ pbAcked' \subseteq PublishedEntries
<1>1. c \in CallType /\ c.entry \in PublishedEntries /\ Target(c) \in TargetSet
  BY CallsAreFine DEF CallFits
<1>4. \A i \in DOMAIN Targets : HasIt(c.entry, Targets[i]) => HasIt(c.entry, Targets[i])'
  BY <1>1 DEF TargetSet
<1>5. c.at # "idle" /\ pbStrategy = "all" /\ ~c.failed =>
          \A i \in DOMAIN Targets : i < c.target => HasIt(c.entry, Targets[i])'
  BY <1>4 DEF CallFits
<1>6. ok => HasIt(c.entry, Targets[c.target])'
  BY DEF Target
<1>2. CASE ~ok /\ Target(c) \in Guarded /\ c.attempt < TargetTries
           /\ CallGoes(w, [c EXCEPT !.at = "publish", !.attempt = @ + 1]) /\ UNCHANGED pbAcked
  <2> DEFINE d == [c EXCEPT !.at = "publish", !.attempt = @ + 1]
  <2>1. d \in CallType /\ d.at = "publish" /\ d.attempt = c.attempt + 1 /\ d.target = c.target /\ d.entry = c.entry
        /\ d.failed = c.failed
    <3>1. c.attempt + 1 \in 1 .. TargetTries /\ "publish" \in Places
      BY <1>1, <1>2, PublishersAssumption DEF CallType, Places
    <3>2. \A a \in 1 .. TargetTries : [c EXCEPT !.at = "publish", !.attempt = a] \in CallType
      BY <1>1, <3>1 DEF CallType
    <3>3. d = [c EXCEPT !.at = "publish", !.attempt = c.attempt + 1]
      OBVIOUS
    <3>4. d.at = "publish" /\ d.attempt = c.attempt + 1 /\ d.target = c.target /\ d.entry = c.entry /\ d.failed = c.failed
      BY <1>1, <3>3 DEF CallType
    <3> QED BY <3>1, <3>2, <3>3, <3>4
  <2>2. pbCall' = [pbCall EXCEPT ![w] = d]
    BY <1>2 DEF CallGoes
  <2> HIDE DEF d
  <2>3. Target(d) = Target(c)
    BY <2>1 DEF Target
  <2>4. CallFits(d)'
    BY <1>1, <1>2, <1>5, <2>1, <2>3 DEF CallFits, Target
  <2>5. \A e \in PublishedEntries, t \in TargetSet :
           /\ AttemptsLeft(d, e, t) \subseteq AttemptsLeft(c, e, t)
           /\ t = Target(c) => c.attempt \notin AttemptsLeft(d, e, t)
    BY <1>1, <2>1, PublishersAssumption DEF AttemptsLeft, CallType, Target
  <2>6. AckedIsReceived' /\ pbAcked' \subseteq PublishedEntries
    <3> SUFFICES ASSUME NEW e \in pbAcked
                 PROVE  IF pbStrategy = "all" THEN \A t \in TargetSet : HasIt(e, t)' ELSE \E t \in TargetSet : HasIt(e, t)'
      BY <1>2 DEF AckedIsReceived, HasIt, PbTypes
    <3>1. e \in PublishedEntries
      BY DEF PbTypes
    <3>2. IF pbStrategy = "all" THEN \A t \in TargetSet : HasIt(e, t) ELSE \E t \in TargetSet : HasIt(e, t)
      BY DEF AckedIsReceived, HasIt
    <3> QED BY <3>1, <3>2
  <2> QED BY <2>1, <2>2, <2>4, <2>5, <2>6
<1>3. CASE AfterTarget(w, ok)
  <2> DEFINE last == c.target = Len(Targets) \/ (ok /\ pbStrategy # "all")
             success == IF pbStrategy = "all" THEN ok /\ ~c.failed ELSE ok
             next == [NoCall EXCEPT !.at = "publish", !.entry = c.entry, !.target = c.target + 1, !.failed = c.failed \/ ~ok]
  <2>1. CASE last
    <3>1. pbCall' = [pbCall EXCEPT ![w] = NoCall] /\ pbAcked' = IF success THEN pbAcked \cup {c.entry} ELSE pbAcked
      BY <1>3, <2>1 DEF AfterTarget, CallGoes
    <3>2. NoCall \in CallType /\ NoCall.at = "idle" /\ CallFits(NoCall)'
      <4>1. NoCall.target = 1 /\ NoCall.attempt = 1
        BY DEF NoCall
      <4> QED BY NothingCalled, <4>1 DEF CallFits
    <3>3. \A e \in PublishedEntries, t \in TargetSet : AttemptsLeft(NoCall, e, t) = {}
      BY <3>2 DEF AttemptsLeft
    <3>4. pbAcked' \subseteq PublishedEntries
      BY <1>1, <3>1 DEF PbTypes
    <3>5. ASSUME success
          PROVE  IF pbStrategy = "all" THEN \A t \in TargetSet : HasIt(c.entry, t)' ELSE \E t \in TargetSet : HasIt(c.entry, t)'
      <4>1. ASSUME pbStrategy # "all" PROVE \E t \in TargetSet : HasIt(c.entry, t)'
        BY <1>1, <3>5, <4>1
      <4>2. ASSUME pbStrategy = "all", NEW t \in TargetSet PROVE HasIt(c.entry, t)'
        <5>1. c.target = Len(Targets) /\ ok /\ ~c.failed
          BY <2>1, <3>5, <4>2
        <5>2. PICK i \in DOMAIN Targets : Targets[i] = t
          BY DEF TargetSet
        <5>3. i = c.target \/ i < c.target
          BY <5>1, PublishersAssumption
        <5> QED BY <1>5, <1>6, <4>2, <5>1, <5>2, <5>3
      <4> QED BY <4>1, <4>2
    <3>6. AckedIsReceived'
      <4> SUFFICES ASSUME NEW e \in pbAcked'
                   PROVE  IF pbStrategy = "all" THEN \A t \in TargetSet : HasIt(e, t)' ELSE \E t \in TargetSet : HasIt(e, t)'
        BY DEF AckedIsReceived, HasIt
      <4>1. CASE e \in pbAcked
        <5>1. e \in PublishedEntries
          BY <4>1 DEF PbTypes
        <5>2. IF pbStrategy = "all" THEN \A t \in TargetSet : HasIt(e, t) ELSE \E t \in TargetSet : HasIt(e, t)
          BY <4>1 DEF AckedIsReceived, HasIt
        <5> QED BY <5>1, <5>2
      <4>2. CASE e \notin pbAcked
        BY <3>1, <3>5, <4>2
      <4> QED BY <4>1, <4>2
    <3> QED BY <3>1, <3>2, <3>3, <3>4, <3>6
  <2>2. CASE ~last
    <3>1. pbCall' = [pbCall EXCEPT ![w] = next] /\ pbAcked' = pbAcked
      BY <1>3, <2>2 DEF AfterTarget, CallGoes
    <3>2. c.target + 1 \in DOMAIN Targets
      BY <1>1, <2>2, PublishersAssumption DEF CallType
    <3>3. next \in CallType /\ next.at = "publish" /\ next.entry = c.entry /\ next.target = c.target + 1 /\ next.attempt = 1
          /\ (next.failed <=> c.failed \/ ~ok)
      <4>1. PICK f \in BOOLEAN : f = (c.failed \/ ~ok)
        OBVIOUS
      <4>2. f <=> (c.failed \/ ~ok)
        BY <4>1, Zenon
      <4>3. next = [NoCall EXCEPT !.at = "publish", !.entry = c.entry, !.target = c.target + 1, !.failed = f]
        BY <4>1
      <4>4. next \in CallType /\ next.at = "publish" /\ next.entry = c.entry /\ next.target = c.target + 1 /\ next.attempt = 1
            /\ next.failed = f
        BY <1>1, <3>2, <4>3, NothingCalled DEF CallType, Places, NoCall
      <4> QED BY <4>2, <4>4
    <3> HIDE DEF next
    <3>4. \A e \in PublishedEntries, t \in TargetSet :
             /\ AttemptsLeft(next, e, t) \subseteq AttemptsLeft(c, e, t)
             /\ t = Target(c) => c.attempt \notin AttemptsLeft(next, e, t)
      BY <1>1, <3>2, <3>3, PublishersAssumption DEF AttemptsLeft, CallType, Target
    <3>5. CallFits(next)'
      <4>1. ASSUME pbStrategy = "all", ~next.failed, NEW i \in DOMAIN Targets, i < next.target PROVE HasIt(c.entry, Targets[i])'
        <5>1. ~c.failed /\ ok
          BY <3>3, <4>1
        <5>2. i = c.target \/ i < c.target
          BY <1>1, <3>3, <4>1, PublishersAssumption DEF CallType
        <5> QED BY <1>5, <1>6, <4>1, <5>1, <5>2
      <4> QED BY <1>1, <3>3, <4>1 DEF CallFits
    <3>6. AckedIsReceived'
      <4> SUFFICES ASSUME NEW e \in pbAcked
                   PROVE  IF pbStrategy = "all" THEN \A t \in TargetSet : HasIt(e, t)' ELSE \E t \in TargetSet : HasIt(e, t)'
        BY <3>1 DEF AckedIsReceived, HasIt
      <4>1. e \in PublishedEntries
        BY DEF PbTypes
      <4>2. IF pbStrategy = "all" THEN \A t \in TargetSet : HasIt(e, t) ELSE \E t \in TargetSet : HasIt(e, t)
        BY DEF AckedIsReceived, HasIt
      <4> QED BY <4>1, <4>2
    <3> QED BY <3>1, <3>3, <3>4, <3>5, <3>6 DEF PbTypes
  <2> QED BY <2>1, <2>2
<1> QED BY <1>2, <1>3 DEF Returns

LEMMA ToComeIsFinite ==
    ASSUME NEW e, NEW t PROVE IsFiniteSet(ToCome(e, t)) /\ Cardinality(ToCome(e, t)) \in Nat
<1>1. IsFiniteSet(1 .. TargetTries)
  BY FS_Interval, PublishersAssumption
<1>2. IsFiniteSet(PublishCallers \X (1 .. TargetTries))
  BY <1>1, FS_Product, PublishersAssumption
<1>3. IsFiniteSet(ToCome(e, t))
  BY <1>2, FS_Subset DEF ToCome
<1> QED BY <1>3, FS_CardinalityType

LEMMA SumsBound ==
    ASSUME NEW r \in Nat, NEW a \in Nat, NEW b \in Nat, NEW u \in Nat, NEW k \in Nat, NEW m \in Nat,
           r + a <= m, b <= u, u <= a + k
    PROVE  r + b <= m + k
OBVIOUS

LEMMA Distributes == ASSUME NEW n \in Nat, NEW k \in Nat PROVE n * k \in Nat /\ (n + 1) * k = n * k + k
OBVIOUS

\* Sending takes an attempt from what is to come; nothing else adds to it.
LEMMA OneBudgetStays ==
    ASSUME PbTypes, BudgetKept, NEW w \in PublishCallers, NEW c, pbCall[w] = c, NEW d, pbCall' = [pbCall EXCEPT ![w] = d],
           NEW e \in PublishedEntries, NEW t \in TargetSet, AttemptsLeft(d, e, t) \subseteq AttemptsLeft(c, e, t),
           pbReceived'[e][t] # pbReceived[e][t] =>
              /\ pbReceived'[e][t] = pbReceived[e][t] + 1
              /\ c.attempt \in AttemptsLeft(c, e, t) /\ c.attempt \notin AttemptsLeft(d, e, t)
    PROVE  pbReceived'[e][t] + Cardinality(ToCome(e, t)') <= pbCalls[e] * Tries(t)
<1>1. pbReceived[e][t] + Cardinality(ToCome(e, t)) <= pbCalls[e] * Tries(t)
  BY DEF BudgetKept
<1>2. ToCome(e, t)' = {x \in PublishCallers \X (1 .. TargetTries) : x[2] \in AttemptsLeft(pbCall'[x[1]], e, t)}
  BY DEF ToCome, AttemptsLeft
<1>3. ToCome(e, t)' \subseteq ToCome(e, t)
  BY <1>2 DEF ToCome, PbTypes
<1>4. IsFiniteSet(ToCome(e, t)) /\ Cardinality(ToCome(e, t)) \in Nat
  BY ToComeIsFinite
<1>5. Cardinality(ToCome(e, t)') \in Nat /\ Cardinality(ToCome(e, t)') <= Cardinality(ToCome(e, t))
  BY <1>3, <1>4, FS_Subset, FS_CardinalityType
<1>6. pbReceived[e][t] \in Nat /\ pbCalls[e] * Tries(t) \in Nat
  BY PublishersAssumption, Distributes DEF PbTypes, Tries
<1>7. CASE pbReceived'[e][t] = pbReceived[e][t]
  BY <1>1, <1>4, <1>5, <1>6, <1>7
<1>8. CASE pbReceived'[e][t] # pbReceived[e][t]
  <2>1. <<w, c.attempt>> \in ToCome(e, t) /\ <<w, c.attempt>> \notin ToCome(e, t)'
    BY <1>2, <1>8 DEF ToCome, PbTypes, AttemptsLeft
  <2>2. ToCome(e, t)' # ToCome(e, t)
    BY <2>1
  <2>3. Cardinality(ToCome(e, t)') # Cardinality(ToCome(e, t))
    BY <1>3, <1>4, <2>2, FS_Subset
  <2> QED BY <1>1, <1>4, <1>5, <1>6, <1>8, <2>3
<1> QED BY <1>7, <1>8

LEMMA BudgetStays ==
    ASSUME PbTypes, BudgetKept, NEW w \in PublishCallers, NEW c, pbCall[w] = c, NEW d, pbCall' = [pbCall EXCEPT ![w] = d],
           pbCalls' = pbCalls, pbReceived' = pbReceived,
           \A e \in PublishedEntries, t \in TargetSet : AttemptsLeft(d, e, t) \subseteq AttemptsLeft(c, e, t)
    PROVE  BudgetKept'
BY OneBudgetStays DEF BudgetKept, Tries

\* A new call may make as many attempts at each target as one call may.
LEMMA BudgetGrows ==
    ASSUME PbTypes, BudgetKept, NEW w \in PublishCallers, pbCall[w].at = "idle", NEW d, NEW f \in PublishedEntries,
           d.entry = f, pbCall' = [pbCall EXCEPT ![w] = d], pbReceived' = pbReceived, pbCalls' = [pbCalls EXCEPT ![f] = @ + 1]
    PROVE  BudgetKept'
<1> SUFFICES ASSUME NEW e \in PublishedEntries, NEW t \in TargetSet
             PROVE  pbReceived[e][t] + Cardinality(ToCome(e, t)') <= pbCalls'[e] * Tries(t)
  BY DEF BudgetKept, Tries
<1>1. pbReceived[e][t] + Cardinality(ToCome(e, t)) <= pbCalls[e] * Tries(t)
  BY DEF BudgetKept
<1>2. ToCome(e, t)' = {x \in PublishCallers \X (1 .. TargetTries) : x[2] \in AttemptsLeft(pbCall'[x[1]], e, t)}
  BY DEF ToCome, AttemptsLeft
<1>3. Tries(t) \in Nat /\ pbCalls[e] \in Nat /\ pbReceived[e][t] \in Nat
  BY PublishersAssumption DEF PbTypes, Tries
<1>4. IsFiniteSet(ToCome(e, t)) /\ Cardinality(ToCome(e, t)) \in Nat
  BY ToComeIsFinite
<1>5. CASE e # f
  <2>1. ToCome(e, t)' \subseteq ToCome(e, t)
    BY <1>2, <1>5 DEF ToCome, AttemptsLeft, PbTypes
  <2>2. Cardinality(ToCome(e, t)') \in Nat /\ Cardinality(ToCome(e, t)') <= Cardinality(ToCome(e, t))
    BY <1>4, <2>1, FS_Subset, FS_CardinalityType
  <2>3. pbCalls'[e] = pbCalls[e]
    BY <1>5 DEF PbTypes
  <2> QED BY <1>1, <1>3, <1>4, <2>2, <2>3, Distributes
<1>6. CASE e = f
  <2> DEFINE new == {w} \X (1 .. Tries(t))
  <2>1. IsFiniteSet(new) /\ Cardinality(new) = Tries(t)
    <3>1. IsFiniteSet(1 .. Tries(t)) /\ Cardinality(1 .. Tries(t)) = Tries(t)
      BY <1>3, FS_Interval
    <3>2. IsFiniteSet({w}) /\ Cardinality({w}) = 1
      BY FS_Singleton
    <3>3. IsFiniteSet(new) /\ Cardinality(new) = 1 * Tries(t)
      BY <3>1, <3>2, FS_Product
    <3> QED BY <1>3, <3>3
  <2> HIDE DEF new
  <2>2. ToCome(e, t)' \subseteq ToCome(e, t) \cup new
    <3> SUFFICES ASSUME NEW x \in ToCome(e, t)' PROVE x \in ToCome(e, t) \cup new
      OBVIOUS
    <3>1. x \in PublishCallers \X (1 .. TargetTries) /\ x[2] \in AttemptsLeft(pbCall'[x[1]], e, t)
      BY <1>2
    <3>2. CASE x[1] # w
      BY <3>1, <3>2 DEF ToCome, PbTypes
    <3>3. CASE x[1] = w
      <4>1. x[2] \in 1 .. Tries(t)
        BY <1>3, <3>1 DEF AttemptsLeft
      <4> QED BY <3>1, <3>3, <4>1 DEF new
    <3> QED BY <3>2, <3>3
  <2>3. IsFiniteSet(ToCome(e, t) \cup new) /\ Cardinality(ToCome(e, t) \cup new) <= Cardinality(ToCome(e, t)) + Tries(t)
    <3>1. Cardinality(ToCome(e, t) \cap new) \in Nat
      BY <2>1, FS_Subset, FS_CardinalityType
    <3>2. IsFiniteSet(ToCome(e, t) \cup new)
          /\ Cardinality(ToCome(e, t) \cup new) = Cardinality(ToCome(e, t)) + Tries(t) - Cardinality(ToCome(e, t) \cap new)
      BY <1>4, <2>1, FS_Union
    <3> QED BY <1>3, <1>4, <3>1, <3>2
  <2>4. Cardinality(ToCome(e, t)') \in Nat /\ Cardinality(ToCome(e, t)') <= Cardinality(ToCome(e, t) \cup new)
    BY <2>2, <2>3, FS_Subset, FS_CardinalityType
  <2>5. Cardinality(ToCome(e, t) \cup new) \in Nat
    BY <2>3, FS_CardinalityType
  <2>6. pbCalls'[e] = pbCalls[e] + 1
    BY <1>6 DEF PbTypes
  <2>7. pbCalls'[e] * Tries(t) = pbCalls[e] * Tries(t) + Tries(t) /\ pbCalls[e] * Tries(t) \in Nat
    BY <1>3, <2>6, Distributes
  <2>8. pbReceived[e][t] + Cardinality(ToCome(e, t)') <= pbCalls[e] * Tries(t) + Tries(t)
    BY <1>1, <1>3, <1>4, <2>3, <2>4, <2>5, <2>7, SumsBound
  <2> QED BY <2>7, <2>8
<1> QED BY <1>5, <1>6

LEMMA PbInitially == PbInit => PbIInv
<1> SUFFICES ASSUME PbInit PROVE PbIInv
  OBVIOUS
<1>1. NoCall \in CallType /\ NoCall.at = "idle" /\ CallFits(NoCall)
  BY NothingCalled
<1>2. PbTypes
  BY <1>1 DEF PbInit, PbTypes
<1>3. \A w \in PublishCallers : CallFits(pbCall[w])
  BY <1>1 DEF PbInit
<1>4. BudgetKept
  <2> SUFFICES ASSUME NEW e \in PublishedEntries, NEW t \in TargetSet
               PROVE  pbReceived[e][t] + Cardinality(ToCome(e, t)) <= pbCalls[e] * Tries(t)
    BY DEF BudgetKept
  <2>1. ToCome(e, t) = {}
    BY <1>1 DEF ToCome, AttemptsLeft, PbInit
  <2>2. Cardinality(ToCome(e, t)) = 0
    BY <2>1, FS_EmptySet
  <2>3. pbCalls[e] * Tries(t) \in Nat /\ pbReceived[e][t] = 0
    BY PublishersAssumption, Distributes DEF PbInit, Tries
  <2> QED BY <2>2, <2>3
<1>5. AckedIsReceived
  BY DEF PbInit, AckedIsReceived
<1>6. Alone
  BY <1>1 DEF PbInit, Alone, Inside
<1>7. BreakerKeepsCount
  BY PublishersAssumption DEF PbInit, BreakerKeepsCount
<1> QED BY <1>2, <1>3, <1>4, <1>5, <1>6, <1>7 DEF PbIInv

\* What the others' calls say stays true: entries are not taken from a target.
LEMMA OthersFit ==
    ASSUME PbTypes, NEW w \in PublishCallers, NEW d \in CallType, pbCall' = [pbCall EXCEPT ![w] = d], CallFits(d)',
           pbStrategy' = pbStrategy, \A v \in PublishCallers : CallFits(pbCall[v]),
           \A e \in PublishedEntries, t \in TargetSet : HasIt(e, t) => HasIt(e, t)'
    PROVE  \A v \in PublishCallers : CallFits(pbCall[v])'
<1> SUFFICES ASSUME NEW v \in PublishCallers PROVE CallFits(pbCall[v])'
  OBVIOUS
<1>1. PICK c : c = pbCall'[v]
  OBVIOUS
<1>2. CASE v = w
  <2>1. c = d
    BY <1>1, <1>2 DEF PbTypes
  <2> QED BY <1>1, <2>1 DEF CallFits, Target
<1>3. CASE v # w
  <2>1. c = pbCall[v] /\ c \in CallType
    BY <1>1, <1>3 DEF PbTypes
  <2>2. CallFits(c)
    BY <2>1
  <2>3. c.at # "idle" => \A i \in DOMAIN Targets : HasIt(c.entry, Targets[i]) => HasIt(c.entry, Targets[i])'
    BY <2>2 DEF CallFits, TargetSet
  <2>4. c.target \in DOMAIN Targets
    BY <2>1 DEF CallType
  <2>5. CallFits(c)'
    BY <2>2, <2>3, <2>4 DEF CallFits, Target
  <2> QED BY <1>1, <2>5 DEF CallFits, Target
<1> QED BY <1>2, <1>3

LEMMA PublishCallStep ==
    ASSUME PbIInv, NEW w \in PublishCallers, NEW e \in PublishedEntries, PublishCall(w, e)
    PROVE  PbIInv'
<1> DEFINE d == [NoCall EXCEPT !.at = "publish", !.entry = e]
<1>1. d \in CallType /\ d.at = "publish" /\ d.entry = e /\ d.target = 1 /\ d.attempt = 1
  BY NothingCalled DEF CallType, Places, NoCall
<1>2. pbCall' = [pbCall EXCEPT ![w] = d] /\ pbCall[w].at = "idle" /\ pbCalls' = [pbCalls EXCEPT ![e] = @ + 1]
      /\ UNCHANGED <<pbStrategy, pbState, pbCount, pbDue, pbAcked, pbReceived, pbSwallowed, pbTrips, pbSwallows, pbOverlap>>
  BY DEF PublishCall, CallGoes
<1> HIDE DEF d
<1>3. PbTypes'
  BY <1>1, <1>2 DEF PbIInv, PbTypes
<1>4. CallFits(d)'
  BY <1>1, PublishersAssumption DEF CallFits
<1>5. \A v \in PublishCallers : CallFits(pbCall[v])'
  BY <1>1, <1>2, <1>4, OthersFit DEF PbIInv, HasIt
<1>6. BudgetKept'
  BY <1>1, <1>2, BudgetGrows DEF PbIInv
<1>7. AckedIsReceived' /\ BreakerKeepsCount'
  BY <1>2 DEF PbIInv, AckedIsReceived, BreakerKeepsCount
<1>8. ~Inside(d)
  BY <1>1 DEF Inside
<1>9. Alone'
  BY <1>2, <1>8 DEF PbIInv, PbTypes, Alone, Inside, InsideFits, Target
<1> QED BY <1>3, <1>5, <1>6, <1>7, <1>9 DEF PbIInv

LEMMA ResetStep ==
    ASSUME PbIInv, NEW t \in Guarded, ResetTimeoutPasses(t)
    PROVE  PbIInv'
<1>1. UNCHANGED <<pbStrategy, pbCall, pbState, pbCount, pbCalls, pbAcked, pbReceived, pbSwallowed, pbTrips, pbSwallows, pbOverlap>>
  BY DEF ResetTimeoutPasses
<1>2. PbTypes'
  BY <1>1 DEF PbIInv, PbTypes
<1>3. \A v \in PublishCallers : CallFits(pbCall[v])'
  BY <1>1 DEF PbIInv, CallFits, HasIt, Target
<1>4. BudgetKept'
  BY <1>1 DEF PbIInv, BudgetKept, ToCome, AttemptsLeft, Tries
<1>5. AckedIsReceived' /\ BreakerKeepsCount'
  BY <1>1 DEF PbIInv, AckedIsReceived, BreakerKeepsCount
<1>6. Alone'
  BY <1>1 DEF PbIInv, Alone, Inside, InsideFits, Target
<1> QED BY <1>2, <1>3, <1>4, <1>5, <1>6 DEF PbIInv

LEMMA AttemptStep ==
    ASSUME PbIInv, NEW w \in PublishCallers, Attempt(w)
    PROVE  PbIInv'
<1>1. PICK c \in CallType : c = pbCall[w]
  BY CallsAreFine DEF PbIInv
<1>2. PICK open \in BOOLEAN : open <=> Target(c) \in Guarded /\ pbState[Target(c)] = "open"
  OBVIOUS
<1>3. /\ c.at = "publish" /\ CallFits(c) /\ (pbOverlap' <=> (pbOverlap \/ (Target(c) \in Guarded /\ InBreaker # {})))
      /\ pbOverlap' \in BOOLEAN
      /\ UNCHANGED <<pbStrategy, pbState, pbCount, pbDue, pbCalls, pbReceived, pbSwallowed, pbTrips, pbSwallows>>
  BY <1>1 DEF Attempt, PbIInv
<1>4. \A e \in PublishedEntries, t \in TargetSet : HasIt(e, t) => HasIt(e, t)'
  BY <1>3 DEF HasIt
<1>5. BreakerKeepsCount'
  BY <1>3 DEF PbIInv, BreakerKeepsCount
<1>6. CASE Returns(w, FALSE)
  <2>0. PbTypes /\ pbCall[w] = c /\ c.at # "idle" /\ CallFits(c) /\ pbStrategy' = pbStrategy /\ AckedIsReceived
    BY <1>1, <1>3 DEF PbIInv
  <2>1. PICK d \in CallType :
           /\ pbCall' = [pbCall EXCEPT ![w] = d] /\ d.at \in {"idle", "publish"} /\ CallFits(d)'
           /\ \A e \in PublishedEntries, t \in TargetSet :
                 /\ AttemptsLeft(d, e, t) \subseteq AttemptsLeft(c, e, t)
                 /\ t = Target(c) => c.attempt \notin AttemptsLeft(d, e, t)
    BY <2>0, <1>1, <1>4, <1>6, AfterAnAnswer
  <2>2. AckedIsReceived' /\ pbAcked' \subseteq PublishedEntries
    BY <2>0, <1>1, <1>4, <1>6, AfterAnAnswer
  <2>3. PbTypes'
    BY <1>3, <2>1, <2>2 DEF PbIInv, PbTypes
  <2>4. \A v \in PublishCallers : CallFits(pbCall[v])'
    BY <1>3, <1>4, <2>1, OthersFit DEF PbIInv
  <2>5. BudgetKept'
    BY <1>1, <1>3, <2>1, BudgetStays DEF PbIInv
  <2>6. ~Inside(d)
    BY <2>1 DEF Inside
  <2>7. Alone'
    BY <1>3, <2>1, <2>6 DEF PbIInv, PbTypes, Alone, Inside, InsideFits, Target
  <2> QED BY <1>5, <2>2, <2>3, <2>4, <2>5, <2>7 DEF PbIInv
<1>7. CASE pbCall' = [pbCall EXCEPT ![w] = [c EXCEPT !.at = IF open THEN "reopen" ELSE "send"]] /\ UNCHANGED pbAcked
  <2> DEFINE d == [c EXCEPT !.at = IF open THEN "reopen" ELSE "send"]
  <2>1. /\ d \in CallType /\ d.at = (IF open THEN "reopen" ELSE "send") /\ d.entry = c.entry /\ d.target = c.target
        /\ d.attempt = c.attempt /\ d.failed = c.failed
    BY <1>1 DEF CallType, Places
  <2>2. pbCall' = [pbCall EXCEPT ![w] = d]
    BY <1>7
  <2> HIDE DEF d
  <2>3. PbTypes' /\ AckedIsReceived'
    BY <1>3, <1>7, <2>1, <2>2 DEF PbIInv, PbTypes, AckedIsReceived
  <2>4. Target(d) = Target(c)
    BY <2>1 DEF Target
  <2>5. CallFits(d)
    BY <1>2, <1>3, <2>1, <2>4 DEF CallFits
  <2>6. CallFits(d)'
    BY <1>3, <2>5 DEF CallFits, HasIt, Target
  <2>7. \A v \in PublishCallers : CallFits(pbCall[v])'
    BY <1>3, <1>4, <2>1, <2>2, <2>6, OthersFit DEF PbIInv
  <2>8. \A e \in PublishedEntries, t \in TargetSet : AttemptsLeft(d, e, t) \subseteq AttemptsLeft(c, e, t)
    BY <1>3, <2>1 DEF AttemptsLeft
  <2>9. BudgetKept'
    BY <1>1, <1>3, <2>2, <2>8, BudgetStays DEF PbIInv
  <2>10. Inside(d) => Target(d) \in Guarded /\ InsideFits(d)
    BY <1>2, <2>1, <2>4 DEF Inside, InsideFits
  <2>11. Alone'
    <3> SUFFICES ASSUME ~pbOverlap' PROVE Alone'
      BY DEF Alone
    <3>1. ~pbOverlap
      BY <1>3
    <3>2. Inside(d) => \A v \in PublishCallers : ~Inside(pbCall[v])
      BY <1>3, <2>4, <2>10 DEF InBreaker, Inside
    <3>3. \A v, u \in PublishCallers : Inside(pbCall'[v]) /\ Inside(pbCall'[u]) => v = u
      BY <2>2, <3>1, <3>2 DEF PbIInv, PbTypes, Alone
    <3>4. \A v \in PublishCallers : Inside(pbCall'[v]) => InsideFits(pbCall'[v])
      BY <2>2, <2>10, <3>1 DEF PbIInv, PbTypes, Alone
    <3>5. \A v \in PublishCallers : Inside(pbCall[v])' => InsideFits(pbCall[v])'
      BY <1>3, <3>4 DEF Inside, InsideFits, Target
    <3>6. \A t \in Guarded : (pbState[t] = "open")' => (pbSwallows[t] < pbTrips[t])'
      BY <1>3, <3>1 DEF PbIInv, Alone
    <3> QED BY <3>3, <3>5, <3>6 DEF Alone, Inside, Target
  <2> QED BY <1>5, <2>3, <2>7, <2>9, <2>11 DEF PbIInv
<1> QED BY <1>1, <1>2, <1>6, <1>7 DEF Attempt, CallGoes

LEMMA ReopenStep ==
    ASSUME PbIInv, NEW w \in PublishCallers, Reopen(w)
    PROVE  PbIInv'
<1>1. PICK c \in CallType : c = pbCall[w]
  BY CallsAreFine DEF PbIInv
<1>2. PICK t \in Guarded : t = Target(c) /\ c.at = "reopen" /\ CallFits(c) /\ t \in TargetSet /\ c.entry \in PublishedEntries
  BY <1>1, CallsAreFine DEF Reopen, PbIInv, CallFits
<1>3. /\ pbState' = [pbState EXCEPT ![t] = "half-open"] /\ pbSwallowed' = pbSwallowed \cup {<<c.entry, t>>}
      /\ pbSwallows' = [pbSwallows EXCEPT ![t] = @ + 1] /\ Returns(w, TRUE)
      /\ UNCHANGED <<pbStrategy, pbCount, pbDue, pbCalls, pbReceived, pbTrips, pbOverlap>>
  BY <1>1, <1>2 DEF Reopen
<1>4. \A e \in PublishedEntries, u \in TargetSet : HasIt(e, u) => HasIt(e, u)'
  BY <1>3 DEF HasIt
<1>5. HasIt(c.entry, Target(c))'
  BY <1>2, <1>3 DEF HasIt, Target
<1>5a. PbTypes /\ pbCall[w] = c /\ c.at # "idle" /\ CallFits(c) /\ pbStrategy' = pbStrategy /\ AckedIsReceived
  BY <1>1, <1>2, <1>3 DEF PbIInv
<1>5b. Returns(w, TRUE)
  BY <1>3
<1>6. PICK d \in CallType :
         /\ pbCall' = [pbCall EXCEPT ![w] = d] /\ d.at \in {"idle", "publish"} /\ CallFits(d)'
         /\ \A e \in PublishedEntries, u \in TargetSet :
               /\ AttemptsLeft(d, e, u) \subseteq AttemptsLeft(c, e, u)
               /\ u = Target(c) => c.attempt \notin AttemptsLeft(d, e, u)
  BY <1>1, <1>5a, <1>5b, <1>4, <1>5, AfterAnAnswer
<1>7. AckedIsReceived' /\ pbAcked' \subseteq PublishedEntries
  BY <1>1, <1>5a, <1>5b, <1>4, <1>5, AfterAnAnswer
<1>8. PbTypes'
  BY <1>3, <1>6, <1>7 DEF PbIInv, PbTypes
<1>9. \A v \in PublishCallers : CallFits(pbCall[v])'
  BY <1>3, <1>4, <1>6, OthersFit DEF PbIInv
<1>10. BudgetKept'
  BY <1>1, <1>3, <1>6, BudgetStays DEF PbIInv
<1>11. ~Inside(d)
  BY <1>6 DEF Inside
<1>12. Alone' /\ BreakerKeepsCount'
  <2> SUFFICES ASSUME ~pbOverlap PROVE Alone' /\ BreakerKeepsCount'
    BY <1>3 DEF Alone, BreakerKeepsCount
  <2>1. Inside(c) /\ \A v \in PublishCallers : Inside(pbCall[v]) => v = w
    BY <1>1, <1>2 DEF PbIInv, Alone, Inside
  <2>2. \A v \in PublishCallers : ~Inside(pbCall'[v])
    BY <1>6, <1>11, <2>1 DEF PbIInv, PbTypes
  <2>3. pbState[t] = "open" /\ pbSwallows[t] < pbTrips[t] /\ ~(pbCount[t] < TargetFailures)
    BY <1>1, <1>2, <2>1 DEF PbIInv, Alone, InsideFits, BreakerKeepsCount
  <2>4. ASSUME NEW u \in Guarded
        PROVE  /\ pbState'[u] = "closed" <=> pbCount[u] < TargetFailures
               /\ pbSwallows'[u] <= pbTrips[u] /\ (pbState'[u] = "open" => pbSwallows'[u] < pbTrips[u])
    <3>1. /\ pbState[u] = "closed" <=> pbCount[u] < TargetFailures
          /\ pbSwallows[u] <= pbTrips[u] /\ (pbState[u] = "open" => pbSwallows[u] < pbTrips[u])
          /\ pbSwallows[u] \in Nat /\ pbTrips[u] \in Nat
      BY DEF PbIInv, PbTypes, Alone, BreakerKeepsCount
    <3>2. CASE u = t
      <4>1. pbState'[u] = "half-open" /\ pbSwallows'[u] = pbSwallows[u] + 1
        BY <1>3, <3>2 DEF PbIInv, PbTypes
      <4> QED BY <2>3, <3>1, <3>2, <4>1
    <3>3. CASE u # t
      <4>1. pbState'[u] = pbState[u] /\ pbSwallows'[u] = pbSwallows[u]
        BY <1>3, <3>3 DEF PbIInv, PbTypes
      <4> QED BY <3>1, <4>1
    <3> QED BY <3>2, <3>3
  <2>5. Alone'
    BY <1>3, <2>2, <2>4 DEF Alone, Inside, Target
  <2>6. BreakerKeepsCount'
    BY <1>3, <2>4 DEF BreakerKeepsCount
  <2> QED BY <2>5, <2>6
<1> QED BY <1>7, <1>8, <1>9, <1>10, <1>12 DEF PbIInv

LEMMA SendStep ==
    ASSUME PbIInv, NEW w \in PublishCallers, Send(w)
    PROVE  PbIInv'
<1>1. PICK c \in CallType : c = pbCall[w]
  BY CallsAreFine DEF PbIInv
<1>2. PICK t \in TargetSet : t = Target(c)
  BY <1>1, CallsAreFine DEF PbIInv
<1>3. c.at = "send" /\ CallFits(c) /\ c.entry \in PublishedEntries
  BY <1>1 DEF Send, PbIInv, CallFits
<1>4. PICK ok \in BOOLEAN, n \in {0, 1} :
         /\ ok => n = 1
         /\ pbReceived' = [pbReceived EXCEPT ![c.entry][t] = @ + n]
         /\ IF t \in Guarded
            THEN pbCall' = [pbCall EXCEPT ![w] = [c EXCEPT !.at = "record", !.ok = ok, !.seen = pbCount[t]]] /\ UNCHANGED pbAcked
            ELSE Returns(w, ok)
  BY <1>1, <1>2 DEF Send, CallGoes
<1>5. UNCHANGED <<pbStrategy, pbState, pbCount, pbDue, pbCalls, pbSwallowed, pbTrips, pbSwallows, pbOverlap>>
  BY DEF Send
<1>6. pbReceived' \in [PublishedEntries -> [TargetSet -> Nat]]
      /\ \A e \in PublishedEntries, u \in TargetSet :
            pbReceived'[e][u] = IF e = c.entry /\ u = t THEN pbReceived[e][u] + n ELSE pbReceived[e][u]
  BY <1>3, <1>4 DEF PbIInv, PbTypes
<1>7. \A e \in PublishedEntries, u \in TargetSet : HasIt(e, u) => HasIt(e, u)'
  <2> SUFFICES ASSUME NEW e \in PublishedEntries, NEW u \in TargetSet, HasIt(e, u) PROVE HasIt(e, u)'
    OBVIOUS
  <2>1. pbReceived[e][u] \in Nat
    BY DEF PbIInv, PbTypes
  <2> QED BY <1>5, <1>6, <2>1 DEF HasIt
<1>8. ok => HasIt(c.entry, Target(c))'
  <2>1. pbReceived[c.entry][t] \in Nat
    BY <1>3 DEF PbIInv, PbTypes
  <2>2. ok => pbReceived'[c.entry][t] > 0
    BY <1>3, <1>4, <1>6, <2>1
  <2> QED BY <1>2, <2>2 DEF HasIt, Target
<1>9. c.attempt \in AttemptsLeft(c, c.entry, t)
  <2>1. c.attempt \in 1 .. TargetTries /\ c.target \in DOMAIN Targets /\ Targets[c.target] = t
    BY <1>2 DEF CallType, Target
  <2>2. c.attempt <= Tries(t)
    BY <1>2, <1>3, <2>1, PublishersAssumption DEF Tries, CallFits
  <2> QED BY <1>3, <2>1, <2>2 DEF AttemptsLeft
<1>10. BreakerKeepsCount'
  BY <1>5 DEF PbIInv, BreakerKeepsCount
<1>11. PICK d \in CallType :
          /\ pbCall' = [pbCall EXCEPT ![w] = d] /\ CallFits(d)'
          /\ \A e \in PublishedEntries, u \in TargetSet :
                /\ AttemptsLeft(d, e, u) \subseteq AttemptsLeft(c, e, u)
                /\ u = Target(c) => c.attempt \notin AttemptsLeft(d, e, u)
          /\ AckedIsReceived' /\ pbAcked' \subseteq PublishedEntries
          /\ Inside(d) => t \in Guarded /\ Target(d) = t /\ d.at = "record" /\ d.seen = pbCount[t]
  <2>1. CASE t \notin Guarded
    <3>1. PICK d \in CallType :
             /\ pbCall' = [pbCall EXCEPT ![w] = d] /\ d.at \in {"idle", "publish"} /\ CallFits(d)'
             /\ \A e \in PublishedEntries, u \in TargetSet :
                   /\ AttemptsLeft(d, e, u) \subseteq AttemptsLeft(c, e, u)
                   /\ u = Target(c) => c.attempt \notin AttemptsLeft(d, e, u)
      BY <1>1, <1>3, <1>4, <1>5, <1>7, <1>8, <2>1, AfterAnAnswer DEF PbIInv
    <3>2. AckedIsReceived' /\ pbAcked' \subseteq PublishedEntries
      BY <1>1, <1>3, <1>4, <1>5, <1>7, <1>8, <2>1, AfterAnAnswer DEF PbIInv
    <3>3. ~Inside(d)
      BY <3>1 DEF Inside
    <3> QED BY <3>1, <3>2, <3>3
  <2>2. CASE t \in Guarded
    <3> DEFINE d == [c EXCEPT !.at = "record", !.ok = ok, !.seen = pbCount[t]]
    <3>1. PICK k \in Nat : k = pbCount[t]
      BY <2>2 DEF PbIInv, PbTypes
    <3>2. PICK e \in CallType : /\ e = d /\ e.at = "record" /\ e.ok = ok /\ e.seen = k /\ e.target = c.target
                                /\ e.attempt = c.attempt /\ e.failed = c.failed /\ e.entry = c.entry
      <4>1. [c EXCEPT !.at = "record", !.ok = ok, !.seen = k] \in CallType
        BY DEF CallType, Places
      <4>2. d = [c EXCEPT !.at = "record", !.ok = ok, !.seen = k]
        BY <3>1
      <4>3. d.at = "record" /\ d.ok = ok /\ d.seen = k /\ d.target = c.target /\ d.attempt = c.attempt
            /\ d.failed = c.failed /\ d.entry = c.entry
        BY <4>2 DEF CallType
      <4> QED BY <4>1, <4>2, <4>3
    <3>3. pbCall' = [pbCall EXCEPT ![w] = e] /\ pbAcked' = pbAcked
      BY <1>4, <2>2, <3>2
    <3>4. Target(e) = Target(c)
      BY <3>2 DEF Target
    <3>5. CallFits(e)'
      <4>1. c.at # "idle" /\ pbStrategy = "all" /\ ~c.failed =>
               \A i \in DOMAIN Targets : i < c.target => HasIt(c.entry, Targets[i])'
        BY <1>3, <1>7 DEF CallFits, TargetSet
      <4>2. Target(c) \notin Guarded => c.attempt = 1
        BY <1>3 DEF CallFits
      <4> QED BY <1>2, <1>3, <1>5, <1>8, <2>2, <3>2, <3>4, <4>1, <4>2 DEF CallFits, Target
    <3>6. \A f \in PublishedEntries, u \in TargetSet :
             /\ AttemptsLeft(e, f, u) \subseteq AttemptsLeft(c, f, u)
             /\ u = Target(c) => c.attempt \notin AttemptsLeft(e, f, u)
      <4>1. \A i \in DOMAIN Targets : Targets[i] = Target(c) => ~(i > c.target)
        <5>1. c.target \in DOMAIN Targets
          BY DEF CallType
        <5> QED BY <5>1, PublishersAssumption DEF Target
      <4>2. c.attempt \in Nat
        BY PublishersAssumption DEF CallType
      <4> QED BY <1>3, <3>2, <4>1, <4>2 DEF AttemptsLeft
    <3>7. AckedIsReceived' /\ pbAcked' \subseteq PublishedEntries
      <4> SUFFICES ASSUME NEW f \in pbAcked
                   PROVE  IF pbStrategy = "all" THEN \A u \in TargetSet : HasIt(f, u)' ELSE \E u \in TargetSet : HasIt(f, u)'
        BY <1>5, <3>3 DEF AckedIsReceived, HasIt, PbIInv, PbTypes
      <4>1. f \in PublishedEntries
        BY DEF PbIInv, PbTypes
      <4>2. IF pbStrategy = "all" THEN \A u \in TargetSet : HasIt(f, u) ELSE \E u \in TargetSet : HasIt(f, u)
        BY DEF PbIInv, AckedIsReceived, HasIt
      <4> QED BY <1>7, <4>1, <4>2
    <3>8. Inside(e) => t \in Guarded /\ Target(e) = t /\ e.at = "record" /\ e.seen = pbCount[t]
      BY <1>2, <2>2, <3>1, <3>2, <3>4
    <3> QED BY <3>3, <3>5, <3>6, <3>7, <3>8
  <2> QED BY <2>1, <2>2
<1>12. PbTypes'
  BY <1>5, <1>6, <1>11 DEF PbIInv, PbTypes
<1>13. \A v \in PublishCallers : CallFits(pbCall[v])'
  BY <1>5, <1>7, <1>11, OthersFit DEF PbIInv
<1>14. BudgetKept'
  <2> SUFFICES ASSUME NEW e \in PublishedEntries, NEW u \in TargetSet
               PROVE  pbReceived'[e][u] + Cardinality(ToCome(e, u)') <= pbCalls[e] * Tries(u)
    BY <1>5 DEF BudgetKept, Tries
  <2>1. ASSUME pbReceived'[e][u] # pbReceived[e][u]
        PROVE  /\ pbReceived'[e][u] = pbReceived[e][u] + 1
               /\ c.attempt \in AttemptsLeft(c, e, u) /\ c.attempt \notin AttemptsLeft(d, e, u)
    <3>1. pbReceived[e][u] \in Nat
      BY DEF PbIInv, PbTypes
    <3>2. e = c.entry /\ u = t /\ n = 1
      BY <1>4, <1>6, <2>1, <3>1
    <3> QED BY <1>2, <1>3, <1>6, <1>9, <1>11, <3>2
  <2> QED BY <1>1, <1>11, <2>1, OneBudgetStays DEF PbIInv
<1>15. Alone'
  <2> SUFFICES ASSUME ~pbOverlap PROVE Alone'
    BY <1>5 DEF Alone
  <2>1. Inside(d) => Inside(c) /\ InsideFits(c)
    BY <1>1, <1>2, <1>3, <1>11 DEF Inside, PbIInv, Alone
  <2>2. \A v, u \in PublishCallers : Inside(pbCall'[v]) /\ Inside(pbCall'[u]) => v = u
    BY <1>1, <1>11, <2>1 DEF PbIInv, PbTypes, Alone
  <2>3. Inside(d) => InsideFits(d)
    BY <1>2, <1>3, <1>11, <2>1 DEF InsideFits
  <2>4. \A v \in PublishCallers : Inside(pbCall'[v]) => InsideFits(pbCall'[v])
    BY <1>11, <2>3 DEF PbIInv, PbTypes, Alone
  <2>5. \A v \in PublishCallers : Inside(pbCall[v])' => InsideFits(pbCall[v])'
    BY <1>5, <2>4 DEF Inside, InsideFits, Target
  <2>6. \A u \in Guarded : (pbState[u] = "open")' => (pbSwallows[u] < pbTrips[u])'
    BY <1>5 DEF PbIInv, Alone
  <2> QED BY <2>2, <2>5, <2>6 DEF Alone, Inside, Target
<1> QED BY <1>10, <1>11, <1>12, <1>13, <1>14, <1>15 DEF PbIInv

LEMMA RecordStep ==
    ASSUME PbIInv, NEW w \in PublishCallers, Record(w)
    PROVE  PbIInv'
<1>1. PICK c \in CallType : c = pbCall[w]
  BY CallsAreFine DEF PbIInv
<1>2. PICK t \in Guarded : t = Target(c) /\ c.at = "record" /\ CallFits(c) /\ t \in TargetSet /\ c.entry \in PublishedEntries
  BY <1>1, CallsAreFine DEF Record, PbIInv, CallFits
<1>3. PICK trips \in BOOLEAN : trips <=> ~c.ok /\ c.seen + 1 >= TargetFailures
  OBVIOUS
<1>4. /\ pbCount' = [pbCount EXCEPT ![t] = IF c.ok THEN 0 ELSE c.seen + 1]
      /\ pbState' = [pbState EXCEPT ![t] = IF c.ok /\ @ = "half-open" THEN "closed" ELSE IF trips THEN "open" ELSE @]
      /\ pbTrips' = IF trips THEN [pbTrips EXCEPT ![t] = @ + 1] ELSE pbTrips
      /\ Returns(w, c.ok)
      /\ UNCHANGED <<pbStrategy, pbCalls, pbReceived, pbSwallowed, pbSwallows, pbOverlap>>
  BY <1>1, <1>2, <1>3 DEF Record
<1>5. \A e \in PublishedEntries, u \in TargetSet : HasIt(e, u) => HasIt(e, u)'
  BY <1>4 DEF HasIt
<1>6. c.ok \in BOOLEAN /\ c.seen \in Nat
  BY DEF CallType
<1>15. PICK ok \in BOOLEAN : ok = c.ok /\ Returns(w, ok)
  BY <1>4, <1>6
<1>7. c.ok => HasIt(c.entry, Target(c))'
  <2>1. c.ok => HasIt(c.entry, t)
    BY <1>2 DEF CallFits
  <2> QED BY <1>2, <1>5, <2>1 DEF Target
<1>8. PICK d \in CallType :
         /\ pbCall' = [pbCall EXCEPT ![w] = d] /\ d.at \in {"idle", "publish"} /\ CallFits(d)'
         /\ \A e \in PublishedEntries, u \in TargetSet :
               /\ AttemptsLeft(d, e, u) \subseteq AttemptsLeft(c, e, u)
               /\ u = Target(c) => c.attempt \notin AttemptsLeft(d, e, u)
  BY <1>1, <1>2, <1>4, <1>5, <1>7, <1>15, AfterAnAnswer DEF PbIInv
<1>9. AckedIsReceived' /\ pbAcked' \subseteq PublishedEntries
  BY <1>1, <1>2, <1>4, <1>5, <1>6, <1>7, AfterAnAnswer DEF PbIInv
<1>10. PbTypes'
  <2>1. pbCount' \in [Guarded -> Nat]
    BY <1>4, <1>6 DEF PbIInv, PbTypes
  <2>2. pbState' \in [Guarded -> {"closed", "open", "half-open"}]
    BY <1>4, <1>6 DEF PbIInv, PbTypes
  <2>3. pbTrips' \in [Guarded -> Nat]
    BY <1>4 DEF PbIInv, PbTypes
  <2> QED BY <1>4, <1>8, <1>9, <2>1, <2>2, <2>3 DEF PbIInv, PbTypes
<1>11. \A v \in PublishCallers : CallFits(pbCall[v])'
  BY <1>4, <1>5, <1>8, OthersFit DEF PbIInv
<1>12. BudgetKept'
  BY <1>1, <1>4, <1>8, BudgetStays DEF PbIInv
<1>13. ~Inside(d)
  BY <1>8 DEF Inside
<1>14. Alone' /\ BreakerKeepsCount'
  <2> SUFFICES ASSUME ~pbOverlap PROVE Alone' /\ BreakerKeepsCount'
    BY <1>4 DEF Alone, BreakerKeepsCount
  <2>1. Inside(c) /\ \A v \in PublishCallers : Inside(pbCall[v]) => v = w
    BY <1>1, <1>2 DEF PbIInv, Alone, Inside
  <2>2. \A v \in PublishCallers : ~Inside(pbCall'[v])
    BY <1>8, <1>13, <2>1 DEF PbIInv, PbTypes
  <2>3. pbState[t] # "open" /\ c.seen = pbCount[t]
    BY <1>1, <1>2, <2>1 DEF PbIInv, Alone, InsideFits
  <2>4. ASSUME NEW u \in Guarded
        PROVE  /\ pbState'[u] = "closed" <=> pbCount'[u] < TargetFailures
               /\ pbSwallows[u] <= pbTrips'[u] /\ (pbState'[u] = "open" => pbSwallows[u] < pbTrips'[u])
    <3>1. /\ pbState[u] = "closed" <=> pbCount[u] < TargetFailures
          /\ pbSwallows[u] <= pbTrips[u] /\ (pbState[u] = "open" => pbSwallows[u] < pbTrips[u])
          /\ pbSwallows[u] \in Nat /\ pbTrips[u] \in Nat /\ pbCount[u] \in Nat
          /\ pbState[u] \in {"closed", "open", "half-open"}
      BY DEF PbIInv, PbTypes, Alone, BreakerKeepsCount
    <3>2. CASE u = t
      <4>1. /\ pbCount'[u] = IF c.ok THEN 0 ELSE c.seen + 1
            /\ pbState'[u] = IF c.ok /\ pbState[u] = "half-open" THEN "closed" ELSE IF trips THEN "open" ELSE pbState[u]
            /\ pbTrips'[u] = IF trips THEN pbTrips[u] + 1 ELSE pbTrips[u]
        BY <1>4, <3>2 DEF PbIInv, PbTypes
      <4>2. CASE c.ok
        BY <1>3, <2>3, <3>1, <3>2, <4>1, <4>2, PublishersAssumption
      <4>3. CASE ~c.ok
        BY <1>3, <2>3, <3>1, <3>2, <4>1, <4>3, PublishersAssumption
      <4> QED BY <4>2, <4>3
    <3>3. CASE u # t
      <4>1. pbState'[u] = pbState[u] /\ pbCount'[u] = pbCount[u] /\ pbTrips'[u] = pbTrips[u]
        BY <1>4, <3>3 DEF PbIInv, PbTypes
      <4> QED BY <3>1, <4>1
    <3> QED BY <3>2, <3>3
  <2>5. Alone'
    BY <1>4, <2>2, <2>4 DEF Alone, Inside, Target
  <2>6. BreakerKeepsCount'
    BY <1>4, <2>4 DEF BreakerKeepsCount
  <2> QED BY <2>5, <2>6
<1> QED BY <1>9, <1>10, <1>11, <1>12, <1>14 DEF PbIInv

LEMMA PbStep == PbIInv /\ [PbNext]_pbVars => PbIInv'
<1> SUFFICES ASSUME PbIInv, [PbNext]_pbVars PROVE PbIInv'
  OBVIOUS
<1>1. CASE UNCHANGED pbVars
  BY <1>1 DEF pbVars, PbIInv, PbTypes, CallFits, HasIt, Target, AckedIsReceived, BudgetKept, ToCome, AttemptsLeft, Tries,
     Alone, Inside, InsideFits, BreakerKeepsCount
<1> QED BY <1>1, PublishCallStep, AttemptStep, ReopenStep, SendStep, RecordStep, ResetStep DEF PbNext

\* Of the budget kept for the attempts to come, what was received is a part.
LEMMA PublishingHolds == PbIInv => AckedIsReceived /\ ReceivedBudget /\ BreakerKeepsCount
<1> SUFFICES ASSUME PbIInv, NEW e \in PublishedEntries, NEW t \in TargetSet
             PROVE  pbReceived[e][t] <= pbCalls[e] * Tries(t)
  BY DEF PbIInv, ReceivedBudget, Tries
<1>1. pbReceived[e][t] + Cardinality(ToCome(e, t)) <= pbCalls[e] * Tries(t)
  BY DEF PbIInv, BudgetKept
<1>2. pbReceived[e][t] \in Nat /\ Cardinality(ToCome(e, t)) \in Nat /\ pbCalls[e] * Tries(t) \in Nat
  BY ToComeIsFinite, PublishersAssumption, Distributes DEF PbIInv, PbTypes, Tries
<1> QED BY <1>1, <1>2

(***************************************************************************)
(* The enhanced outboxes.                                                  *)
(***************************************************************************)
TkTypes ==
    /\ tkRow \in [PublishedEntries -> {"pending", "processing", "published", "failed"}]
    /\ tkTask \in [Trackers -> [at : {"idle", "mark", "publish", "succeeded", "failed"}, entry : PublishedEntries \cup {0}]]
    /\ tkPhase \in [Trackers -> {"down", "up", "stopping", "deactivated"}]
    /\ tkBreaker \in [Trackers -> [failures : Nat, open : BOOLEAN, due : BOOLEAN]]
    /\ tkRegistry \in [id : Trackers, active : BOOLEAN]
    /\ tkSent \in [PublishedEntries -> Nat]

\* A tracker at work has an entry, and says "succeeded" only of one that was sent.
TaskOK(p) ==
    /\ tkTask[p].at = "idle" <=> tkTask[p].entry = 0
    /\ tkTask[p].at = "succeeded" => tkSent[tkTask[p].entry] > 0
\* An entry that no two processed at once has one holder, and none when it is done.
HolderOK(e) ==
    e \notin tkShared =>
        /\ \A p, q \in Trackers : tkTask[p].entry = e /\ tkTask[q].entry = e => p = q
        /\ e \in tkDone => tkRow[e] = "published" /\ \A p \in Trackers : tkTask[p].entry # e
RowOwned(e) ==
    /\ tkRow[e] = "published" => tkSent[e] > 0
    /\ tkRow[e] = "processing" => e \in tkStuck \/ \E p \in Trackers : tkTask[p].entry = e /\ tkTask[p].at # "mark"

TkIInv ==
    /\ TkTypes
    /\ \A p \in Trackers : TaskOK(p)
    /\ \A e \in PublishedEntries : HolderOK(e) /\ RowOwned(e)
    /\ RegistryNamesLive /\ TripIsForGood

LEMMA TkInitially == TkInit => TkIInv
BY PublishersAssumption DEF TkInit, TkIInv, TkTypes, TaskOK, HolderOK, RowOwned, RegistryNamesLive, TripIsForGood, NoTask, NewBreaker

LEMMA TkStep == TkIInv /\ [TkNext]_tkVars => TkIInv'
<1> SUFFICES ASSUME TkIInv, [TkNext]_tkVars PROVE TkIInv'
    OBVIOUS
<1> USE PublishersAssumption DEF TkIInv
<1>1. CASE UNCHANGED tkVars
  BY <1>1 DEF tkVars, TkTypes, TaskOK, HolderOK, RowOwned, RegistryNamesLive, TripIsForGood
<1>2. ASSUME NEW p \in Trackers, StartTracker(p) PROVE TkIInv'
  <2> DEFINE Breakers == [failures : Nat, open : BOOLEAN, due : BOOLEAN]
  <2>1. NewBreaker \in Breakers /\ NewBreaker.failures < TrackerFailures /\ NewBreaker.open = FALSE
    BY DEF NewBreaker
  <2>2. CASE UNCHANGED <<tkPhase, tkBreaker>> /\ tkRegistry' \in {tkRegistry, [id |-> p, active |-> TRUE]}
    <3>1. [id |-> p, active |-> TRUE] \in [id : Trackers, active : BOOLEAN] /\ [id |-> p, active |-> TRUE].active
      OBVIOUS
    <3>2. TkTypes' /\ RegistryNamesLive' /\ TripIsForGood'
      BY <1>2, <2>2, <3>1 DEF StartTracker, TkTypes, RegistryNamesLive, TripIsForGood
    <3>3. \A q \in Trackers : TaskOK(q)'
      BY <1>2 DEF StartTracker, TaskOK
    <3>4. \A e \in PublishedEntries : HolderOK(e)' /\ RowOwned(e)'
      BY <1>2 DEF StartTracker, HolderOK, RowOwned
    <3> QED BY <3>2, <3>3, <3>4
  <2>3. CASE /\ tkPhase' = [tkPhase EXCEPT ![p] = "up"] /\ tkRegistry' = [id |-> p, active |-> TRUE]
             /\ tkBreaker' = [tkBreaker EXCEPT ![p] = NewBreaker]
    <3>1. tkBreaker' \in [Trackers -> Breakers] /\ TripIsForGood'
      BY <2>1, <2>3 DEF TkTypes, TripIsForGood
    <3>2. TkTypes' /\ RegistryNamesLive'
      BY <1>2, <2>3, <3>1 DEF StartTracker, TkTypes, RegistryNamesLive
    <3>3. \A q \in Trackers : TaskOK(q)'
      BY <1>2 DEF StartTracker, TaskOK
    <3>4. \A e \in PublishedEntries : HolderOK(e)' /\ RowOwned(e)'
      BY <1>2 DEF StartTracker, HolderOK, RowOwned
    <3> QED BY <3>1, <3>2, <3>3, <3>4
  <2> QED BY <1>2, <2>2, <2>3 DEF StartTracker
<1>3. ASSUME NEW p \in Trackers, StopTracker(p) PROVE TkIInv'
  <2>1. TkTypes' /\ RegistryNamesLive' /\ TripIsForGood'
    BY <1>3 DEF StopTracker, TkTypes, RegistryNamesLive, TripIsForGood
  <2>2. \A q \in Trackers : TaskOK(q)'
    BY <1>3 DEF StopTracker, TaskOK
  <2>3. \A e \in PublishedEntries : HolderOK(e)' /\ RowOwned(e)'
    BY <1>3 DEF StopTracker, HolderOK, RowOwned
  <2> QED BY <2>1, <2>2, <2>3
<1>4. ASSUME NEW p \in Trackers, DeactivateProcessor(p) PROVE TkIInv'
  <2>1. TkTypes' /\ RegistryNamesLive'
    BY <1>4 DEF DeactivateProcessor, TrackerFault, TkTypes, RegistryNamesLive
  <2>2. TripIsForGood' /\ \A q \in Trackers : TaskOK(q)'
    BY <1>4 DEF DeactivateProcessor, TaskOK, TripIsForGood
  <2>3. \A e \in PublishedEntries : HolderOK(e)' /\ RowOwned(e)'
    BY <1>4 DEF DeactivateProcessor, HolderOK, RowOwned
  <2> QED BY <2>1, <2>2, <2>3
<1>11. ASSUME NEW p \in Trackers, TrackerEnds(p) PROVE TkIInv'
  <2>1. TkTypes' /\ RegistryNamesLive' /\ TripIsForGood'
    BY <1>11 DEF TrackerEnds, TkTypes, RegistryNamesLive, TripIsForGood
  <2>2. \A q \in Trackers : TaskOK(q)'
    BY <1>11 DEF TrackerEnds, TaskOK
  <2>3. \A e \in PublishedEntries : HolderOK(e)' /\ RowOwned(e)'
    BY <1>11 DEF TrackerEnds, HolderOK, RowOwned
  <2> QED BY <2>1, <2>2, <2>3
<1>5. ASSUME NEW p \in Trackers, TrackerCrashes(p) PROVE TkIInv'
  <2>1. TkTypes' /\ RegistryNamesLive' /\ TripIsForGood'
    BY <1>5 DEF TrackerCrashes, TrackerFault, TaskGoes, NoTask, TkTypes, RegistryNamesLive, TripIsForGood
  <2>2. \A q \in Trackers : TaskOK(q)'
    BY <1>5 DEF TrackerCrashes, TrackerFault, TaskGoes, NoTask, TkTypes, TaskOK
  <2>3. \A e \in PublishedEntries : HolderOK(e)'
    BY <1>5 DEF TrackerCrashes, TrackerFault, TaskGoes, NoTask, TkTypes, HolderOK
  <2>4. \A e \in PublishedEntries : RowOwned(e)'
    BY <1>5 DEF TrackerCrashes, TrackerFault, TaskGoes, NoTask, TkTypes, RowOwned
  <2> QED BY <2>1, <2>2, <2>3, <2>4
<1>6. ASSUME NEW p \in Trackers, BreakerDue(p) PROVE TkIInv'
  <2> DEFINE Breakers == [failures : Nat, open : BOOLEAN, due : BOOLEAN]
             b == [tkBreaker[p] EXCEPT !.due = TRUE]
  <2>0. tkBreaker \in [Trackers -> Breakers] /\ tkBreaker' = [tkBreaker EXCEPT ![p].due = TRUE]
    BY <1>6 DEF BreakerDue, TkTypes
  <2>4. tkBreaker[p] \in Breakers /\ b \in Breakers /\ b.open = tkBreaker[p].open /\ b.failures = tkBreaker[p].failures
    <3>1. tkBreaker[p] \in Breakers
      BY <2>0
    <3>2. \A c \in Breakers : LET d == [c EXCEPT !.due = TRUE] IN d \in Breakers /\ d.open = c.open /\ d.failures = c.failures
      OBVIOUS
    <3> QED BY <3>1, <3>2
  <2>5. tkBreaker' = [tkBreaker EXCEPT ![p] = b]
    BY <2>0
  <2> HIDE DEF b
  <2>6. tkBreaker' \in [Trackers -> Breakers] /\ TripIsForGood'
    BY <2>0, <2>4, <2>5 DEF TripIsForGood
  <2>1. TkTypes'
    BY <1>6, <2>6 DEF BreakerDue, TkTypes
  <2>2. RegistryNamesLive' /\ \A q \in Trackers : TaskOK(q)'
    BY <1>6 DEF BreakerDue, TaskOK, RegistryNamesLive
  <2>3. \A e \in PublishedEntries : HolderOK(e)' /\ RowOwned(e)'
    BY <1>6 DEF BreakerDue, HolderOK, RowOwned
  <2> QED BY <2>1, <2>2, <2>3, <2>6
<1>7. ASSUME NEW p \in Trackers, NEW e \in PublishedEntries, ProcessEntryWithTracking(p, e) PROVE TkIInv'
  <2> USE DEF ProcessEntryWithTracking, TaskGoes, NoTask
  <2>1. TkTypes' /\ RegistryNamesLive' /\ TripIsForGood'
    BY <1>7 DEF TkTypes, RegistryNamesLive, TripIsForGood
  <2>2. \A q \in Trackers : TaskOK(q)'
    BY <1>7 DEF TkTypes, TaskOK
  <2>3. \A f \in PublishedEntries : HolderOK(f)'
    BY <1>7 DEF TkTypes, HolderOK
  <2>4. \A f \in PublishedEntries : RowOwned(f)'
    BY <1>7 DEF TkTypes, RowOwned
  <2> QED BY <2>1, <2>2, <2>3, <2>4
<1>8. ASSUME NEW p \in Trackers, MarkAsProcessing(p) PROVE TkIInv'
  <2> DEFINE e == tkTask[p].entry
  <2>0. e \in PublishedEntries /\ tkTask[p] = [at |-> "mark", entry |-> e]
    BY <1>8 DEF MarkAsProcessing, TkTypes, TaskOK
  <2> DEFINE marked == IF tkRow[e] \in {"pending", "failed"} THEN [tkRow EXCEPT ![e] = "processing"] ELSE tkRow
  <2>1. CASE tkRow' = marked /\ tkTask' = [tkTask EXCEPT ![p] = [at |-> "publish", entry |-> e]] /\ UNCHANGED tkStuck
    <3>1. TkTypes' /\ RegistryNamesLive' /\ TripIsForGood'
      BY <1>8, <2>0, <2>1 DEF MarkAsProcessing, TkTypes, RegistryNamesLive, TripIsForGood
    <3>2. \A q \in Trackers : TaskOK(q)'
      BY <1>8, <2>0, <2>1 DEF MarkAsProcessing, TkTypes, TaskOK
    <3>3. \A f \in PublishedEntries : HolderOK(f)'
      BY <1>8, <2>0, <2>1 DEF MarkAsProcessing, TkTypes, HolderOK
    <3>4. \A f \in PublishedEntries : RowOwned(f)'
      BY <1>8, <2>0, <2>1 DEF MarkAsProcessing, TkTypes, RowOwned
    <3> QED BY <3>1, <3>2, <3>3, <3>4
  <2>2. CASE tkTask' = [tkTask EXCEPT ![p] = NoTask] /\ UNCHANGED <<tkRow, tkStuck>>
    <3>1. TkTypes' /\ RegistryNamesLive' /\ TripIsForGood'
      BY <1>8, <2>0, <2>2 DEF MarkAsProcessing, TkTypes, RegistryNamesLive, TripIsForGood, NoTask
    <3>2. \A q \in Trackers : TaskOK(q)'
      BY <1>8, <2>0, <2>2 DEF MarkAsProcessing, TkTypes, TaskOK, NoTask
    <3>3. \A f \in PublishedEntries : HolderOK(f)'
      BY <1>8, <2>0, <2>2 DEF MarkAsProcessing, TkTypes, HolderOK, NoTask
    <3>4. \A f \in PublishedEntries : RowOwned(f)'
      BY <1>8, <2>0, <2>2 DEF MarkAsProcessing, TkTypes, RowOwned, NoTask
    <3> QED BY <3>1, <3>2, <3>3, <3>4
  <2>3. CASE tkRow' = marked /\ tkTask' = [tkTask EXCEPT ![p] = NoTask] /\ tkStuck' = tkStuck \cup {e}
    <3>1. TkTypes' /\ RegistryNamesLive' /\ TripIsForGood'
      BY <1>8, <2>0, <2>3 DEF MarkAsProcessing, TkTypes, RegistryNamesLive, TripIsForGood, NoTask
    <3>2. \A q \in Trackers : TaskOK(q)'
      BY <1>8, <2>0, <2>3 DEF MarkAsProcessing, TkTypes, TaskOK, NoTask
    <3>3. \A f \in PublishedEntries : HolderOK(f)'
      BY <1>8, <2>0, <2>3 DEF MarkAsProcessing, TkTypes, HolderOK, NoTask
    <3>4. \A f \in PublishedEntries : RowOwned(f)'
      BY <1>8, <2>0, <2>3 DEF MarkAsProcessing, TkTypes, RowOwned, NoTask
    <3> QED BY <3>1, <3>2, <3>3, <3>4
  <2> QED BY <1>8, <2>0, <2>1, <2>2, <2>3 DEF MarkAsProcessing, TaskGoes
<1>9. ASSUME NEW p \in Trackers, TrackedPublish(p) PROVE TkIInv'
  <2> DEFINE e == tkTask[p].entry
  <2>0. e \in PublishedEntries /\ tkTask[p] = [at |-> "publish", entry |-> e]
    BY <1>9 DEF TrackedPublish, TkTypes, TaskOK
  <2> DEFINE Breakers == [failures : Nat, open : BOOLEAN, due : BOOLEAN]
  <2>1. PICK sent \in {0, 1}, to \in {"succeeded", "failed"} :
           /\ tkTask' = [tkTask EXCEPT ![p] = [at |-> to, entry |-> e]]
           /\ tkSent' = [tkSent EXCEPT ![e] = @ + sent] /\ (to = "succeeded" => sent = 1)
    BY <1>9, <2>0 DEF TrackedPublish, TaskGoes
  <2>2. UNCHANGED <<tkRow, tkPhase, tkRegistry, tkTracked, tkDone, tkShared, tkStuck, tkStarts, tkFaults>>
    BY <1>9 DEF TrackedPublish
  <2>3. tkBreaker' \in [Trackers -> Breakers] /\ TripIsForGood'
    <3>1. CASE UNCHANGED tkBreaker
      BY <3>1 DEF TkTypes, TripIsForGood
    <3>2. CASE LET n == tkBreaker[p].failures + 1
               IN  tkBreaker' = [tkBreaker EXCEPT ![p] = [failures |-> n, open |-> @.open \/ n >= TrackerFailures, due |-> FALSE]]
      <4> DEFINE k == tkBreaker[p].failures + 1
                 trips == tkBreaker[p].open \/ k >= TrackerFailures
      <4>0. PICK o \in BOOLEAN : o = trips
        OBVIOUS
      <4> DEFINE b == [failures |-> k, open |-> o, due |-> FALSE]
      <4>1. tkBreaker[p] \in Breakers /\ (tkBreaker[p].open <=> tkBreaker[p].failures >= TrackerFailures)
        BY DEF TkTypes, TripIsForGood
      <4>2. b \in Breakers /\ (b.open <=> b.failures >= TrackerFailures)
        <5>1. k \in Nat
          BY <4>1
        <5>2. b \in Breakers /\ b.failures = k /\ b.open = o
          BY <5>1
        <5>3. trips <=> k >= TrackerFailures
          <6>1. tkBreaker[p].failures >= TrackerFailures => k >= TrackerFailures
            BY <4>1
          <6> QED BY <4>1, <6>1
        <5>4. o <=> trips
          BY <4>0, Zenon
        <5> QED BY <5>2, <5>3, <5>4
      <4>3. tkBreaker' = [tkBreaker EXCEPT ![p] = b]
        BY <3>2, <4>0
      <4> HIDE DEF b
      <4> QED BY <4>2, <4>3 DEF TkTypes, TripIsForGood
    <3> QED BY <1>9, <3>1, <3>2 DEF TrackedPublish
  <2>4. TkTypes' /\ RegistryNamesLive'
    <3>1. tkSent' \in [PublishedEntries -> Nat]
      BY <2>0, <2>1 DEF TkTypes
    <3> QED BY <2>0, <2>1, <2>2, <2>3, <3>1 DEF TkTypes, RegistryNamesLive
  <2>5. \A q \in Trackers : TaskOK(q)'
    BY <2>0, <2>1 DEF TkTypes, TaskOK
  <2>6. \A f \in PublishedEntries : HolderOK(f)' /\ RowOwned(f)'
    BY <2>0, <2>1, <2>2 DEF TkTypes, HolderOK, RowOwned
  <2> QED BY <2>3, <2>4, <2>5, <2>6
<1>10. ASSUME NEW p \in Trackers, FinishTracking(p) PROVE TkIInv'
  <2> DEFINE e == tkTask[p].entry
             failed == tkTask[p].at = "failed"
             marks == ~failed /\ tkRow[e] = "processing"
             writes == /\ tkRow' = [tkRow EXCEPT ![e] = IF failed THEN "failed" ELSE IF marks THEN "published" ELSE @]
                       /\ tkDone' = IF marks THEN tkDone \cup {e} ELSE tkDone
  <2>0. e \in PublishedEntries /\ tkTask[p].at \in {"succeeded", "failed"} /\ tkTask' = [tkTask EXCEPT ![p] = NoTask]
    BY <1>10 DEF FinishTracking, TkTypes, TaskOK, TaskGoes
  <2>1. CASE writes /\ tkStuck \subseteq tkStuck'
    <3>1. TkTypes' /\ RegistryNamesLive' /\ TripIsForGood'
      BY <1>10, <2>0, <2>1 DEF FinishTracking, TkTypes, RegistryNamesLive, TripIsForGood, NoTask
    <3>2. \A q \in Trackers : TaskOK(q)'
      BY <1>10, <2>0, <2>1 DEF FinishTracking, TkTypes, TaskOK, NoTask
    <3>3. \A f \in PublishedEntries : HolderOK(f)'
      BY <1>10, <2>0, <2>1 DEF FinishTracking, TkTypes, HolderOK, NoTask
    <3>4. \A f \in PublishedEntries : RowOwned(f)'
      BY <1>10, <2>0, <2>1 DEF FinishTracking, TkTypes, RowOwned, NoTask, TaskOK
    <3> QED BY <3>1, <3>2, <3>3, <3>4
  <2>2. CASE tkStuck' = tkStuck \cup {e} /\ UNCHANGED <<tkRow, tkDone>>
    <3>1. TkTypes' /\ RegistryNamesLive' /\ TripIsForGood'
      BY <1>10, <2>0, <2>2 DEF FinishTracking, TkTypes, RegistryNamesLive, TripIsForGood, NoTask
    <3>2. \A q \in Trackers : TaskOK(q)'
      BY <1>10, <2>0, <2>2 DEF FinishTracking, TkTypes, TaskOK, NoTask
    <3>3. \A f \in PublishedEntries : HolderOK(f)' /\ RowOwned(f)'
      BY <1>10, <2>0, <2>2 DEF FinishTracking, TkTypes, HolderOK, RowOwned, NoTask
    <3> QED BY <3>1, <3>2, <3>3
  <2> QED BY <1>10, <2>1, <2>2 DEF FinishTracking
<1> QED BY <1>1, <1>2, <1>3, <1>4, <1>5, <1>6, <1>7, <1>8, <1>9, <1>10, <1>11 DEF TkNext

\* A row is published only when it was sent, and is somebody's while it is processed.
LEMMA TrackingHolds == TkIInv => TrackedIsSent /\ TrackedIsOwned /\ RegistryNamesLive /\ TripIsForGood
BY DEF TkIInv, HolderOK, RowOwned, TrackedIsSent, TrackedIsOwned

\* Publishers answer for what they sent, and tracked entries end where their last writer left them.
LEMMA PublishersAreSafe == PbIInv /\ TkIInv => PublishersSafety
BY PublishingHolds, TrackingHolds DEF PublishersSafety

----------------------------------------------------------------------------
(***************************************************************************)
(* The producers of Kafka.                                                 *)
(***************************************************************************)
Carried == BusEvents \union OutboxRows
PipeType == [open : BOOLEAN, input : Seq(Message), log : Seq(Carried), dead : SUBSET Carried,
             failed : SUBSET Message, lost : SUBSET Carried]
\* The broker's log only grows.
LogKept(p, q) == Len(p.log) <= Len(q.log) /\ \A i \in 1 .. Len(p.log) : q.log[i] = p.log[i]
\* What a producer has been given, wherever it is now.
Accepted(p) == Held(p) \union Logged(p) \union p.dead \union p.lost

LEMMA NewPipe == Open \in PipeType /\ Accepted(Open) = {} /\ [Open EXCEPT !.open = FALSE] \in PipeType
                 /\ [Open EXCEPT !.open = FALSE].log = <<>>
<1>1. <<>> \in Seq(Message) /\ <<>> \in Seq(Carried) /\ DOMAIN <<>> = {}
  OBVIOUS
<1>2. Open.input = <<>> /\ Open.log = <<>> /\ Open.dead = {} /\ Open.failed = {} /\ Open.lost = {}
  BY DEF Open
<1>3. Held(Open) = {} /\ Logged(Open) = {}
  BY <1>1, <1>2 DEF Held, Logged, ToSet
<1>4. Accepted(Open) = {}
  BY <1>2, <1>3 DEF Accepted
<1>5. Open \in PipeType /\ [Open EXCEPT !.open = FALSE] \in PipeType /\ [Open EXCEPT !.open = FALSE].log = <<>>
  BY <1>1 DEF Open, PipeType
<1> QED BY <1>4, <1>5

LEMMA PipeFields ==
    ASSUME NEW p \in PipeType
    PROVE  /\ p.input \in Seq(Message) /\ p.log \in Seq(Carried) /\ p.failed \subseteq Message
           /\ p.dead \subseteq Carried /\ p.lost \subseteq Carried /\ p.open \in BOOLEAN
BY DEF PipeType

LEMMA MessageFields == ASSUME NEW m \in Message PROVE m.event \in Carried /\ m.letter \in BOOLEAN
BY DEF Message, Carried

LEMMA PutKeeps ==
    ASSUME NEW p \in PipeType, NEW m \in Message
    PROVE  Put(p, m) \in PipeType /\ LogKept(p, Put(p, m)) /\ Accepted(Put(p, m)) = Accepted(p) \union {m.event}
<1> DEFINE q == [p EXCEPT !.input = Append(p.input, m)]
<1>0. Put(p, m) = q
  BY DEF Put
<1>1. Append(p.input, m) \in Seq(Message) /\ Len(Append(p.input, m)) = Len(p.input) + 1
      /\ \A i \in 1 .. Len(p.input) + 1 : Append(p.input, m)[i] = IF i = Len(p.input) + 1 THEN m ELSE p.input[i]
  BY PipeFields
<1>2. q \in PipeType /\ LogKept(p, q)
  <2>1. Len(p.log) \in Nat
    BY PipeFields
  <2>2. q \in PipeType /\ q.log = p.log
    BY <1>1 DEF PipeType
  <2> QED BY <2>1, <2>2 DEF LogKept
<1>3. DOMAIN p.input = 1 .. Len(p.input) /\ DOMAIN q.input = 1 .. Len(p.input) + 1 /\ Len(p.input) \in Nat
  BY <1>1, PipeFields DEF PipeType
<1>4. {q.input[i].event : i \in DOMAIN q.input} = {p.input[i].event : i \in DOMAIN p.input} \union {m.event}
  <2>1. q.input = Append(p.input, m)
    BY DEF PipeType
  <2> QED BY <1>1, <1>3, <2>1
<1>5. q.failed = p.failed /\ q.log = p.log /\ q.dead = p.dead /\ q.lost = p.lost
  BY DEF PipeType
<1>6. Accepted(q) = Accepted(p) \union {m.event}
  BY <1>4, <1>5 DEF Accepted, Held, Logged
<1> QED BY <1>0, <1>2, <1>6

LEMMA InputSplits ==
    ASSUME NEW p \in PipeType, p.input # <<>>
    PROVE  /\ Head(p.input) \in Message /\ Tail(p.input) \in Seq(Message)
           /\ {p.input[i].event : i \in DOMAIN p.input} = {Head(p.input).event} \union {Tail(p.input)[i].event : i \in DOMAIN Tail(p.input)}
<1> DEFINE s == p.input
<1>1. s \in Seq(Message) /\ Len(s) \in Nat /\ Len(s) # 0 /\ DOMAIN s = 1 .. Len(s)
  BY PipeFields, EmptySeq
<1> HIDE DEF s
<1>2. Head(s) = s[1] /\ Tail(s) \in Seq(Message) /\ Len(Tail(s)) = Len(s) - 1 /\ DOMAIN Tail(s) = 1 .. Len(s) - 1
      /\ (\A i \in 1 .. Len(s) - 1 : Tail(s)[i] = s[i + 1]) /\ s[1] \in Message
  BY <1>1
<1>3. \A i \in 1 .. Len(s) : i = 1 \/ (i - 1 \in 1 .. Len(s) - 1 /\ s[i] = Tail(s)[i - 1])
  BY <1>1, <1>2
<1>4. \A i \in 1 .. Len(s) - 1 : i + 1 \in 1 .. Len(s) /\ Tail(s)[i] = s[i + 1]
  BY <1>1, <1>2
<1>5. 1 \in 1 .. Len(s)
  BY <1>1
<1>6. {s[i].event : i \in 1 .. Len(s)} = {s[1].event} \union {Tail(s)[i].event : i \in 1 .. Len(s) - 1}
  BY <1>3, <1>4, <1>5
<1> QED BY <1>1, <1>2, <1>6 DEF s

LEMMA BrokerKeeps ==
    ASSUME NEW p \in PipeType, p.input # <<>>
    PROVE  /\ Sent(p) \in PipeType /\ LogKept(p, Sent(p)) /\ Accepted(Sent(p)) = Accepted(p)
           /\ Refused(p) \in PipeType /\ LogKept(p, Refused(p)) /\ Accepted(Refused(p)) = Accepted(p)
<1> DEFINE m == Head(p.input)
           q == [p EXCEPT !.input = Tail(p.input), !.dead = p.dead \union {m.event}]
           r == [p EXCEPT !.input = Tail(p.input), !.log = Append(p.log, m.event)]
           x == [p EXCEPT !.input = Tail(p.input), !.failed = p.failed \union {m}]
           Waiting(s) == {s[i].event : i \in DOMAIN s}
<1>0. Sent(p) = (IF m.letter THEN q ELSE r) /\ Refused(p) = x
  BY DEF Sent, Refused
<1>1. m \in Message /\ m.event \in Carried /\ Tail(p.input) \in Seq(Message)
      /\ Waiting(p.input) = {m.event} \union Waiting(Tail(p.input))
  BY InputSplits, MessageFields
<1>2. /\ q.input = Tail(p.input) /\ q.dead = p.dead \union {m.event} /\ q.log = p.log /\ q.failed = p.failed /\ q.lost = p.lost
      /\ r.input = Tail(p.input) /\ r.dead = p.dead /\ r.log = Append(p.log, m.event) /\ r.failed = p.failed /\ r.lost = p.lost
      /\ x.input = Tail(p.input) /\ x.dead = p.dead /\ x.log = p.log /\ x.failed = p.failed \union {m} /\ x.lost = p.lost
  BY DEF PipeType
<1>3. Append(p.log, m.event) \in Seq(Carried) /\ Len(Append(p.log, m.event)) = Len(p.log) + 1 /\ Len(p.log) \in Nat
      /\ (\A i \in 1 .. Len(p.log) : Append(p.log, m.event)[i] = p.log[i])
      /\ ToSet(Append(p.log, m.event)) = ToSet(p.log) \union {m.event}
  <2>1. Append(p.log, m.event) \in Seq(Carried) /\ Len(Append(p.log, m.event)) = Len(p.log) + 1 /\ Len(p.log) \in Nat
        /\ DOMAIN Append(p.log, m.event) = 1 .. Len(p.log) + 1 /\ DOMAIN p.log = 1 .. Len(p.log)
    BY <1>1, PipeFields
  <2>2. \A i \in 1 .. Len(p.log) + 1 : Append(p.log, m.event)[i] = IF i = Len(p.log) + 1 THEN m.event ELSE p.log[i]
    BY <1>1, PipeFields
  <2>3. Len(p.log) + 1 \in 1 .. Len(p.log) + 1 /\ \A i \in 1 .. Len(p.log) : i \in 1 .. Len(p.log) + 1 /\ i # Len(p.log) + 1
    BY <2>1
  <2>4. \A i \in 1 .. Len(p.log) + 1 : i = Len(p.log) + 1 \/ i \in 1 .. Len(p.log)
    BY <2>1
  <2> QED BY <2>1, <2>2, <2>3, <2>4 DEF ToSet
<1> HIDE DEF q, r, x, m
<1>4. q \in PipeType /\ r \in PipeType /\ x \in PipeType
  <2>1. p.dead \union {m.event} \in SUBSET Carried /\ p.failed \union {m} \in SUBSET Message
    BY <1>1, PipeFields
  <2> QED BY <1>1, <1>3, <2>1 DEF q, r, x, PipeType
<1>5. LogKept(p, q) /\ LogKept(p, r) /\ LogKept(p, x)
  BY <1>2, <1>3 DEF LogKept
<1>6. Accepted(q) = Accepted(p) /\ Accepted(r) = Accepted(p) /\ Accepted(x) = Accepted(p)
  <2>1. {y.event : y \in x.failed} = {y.event : y \in p.failed} \union {m.event}
    BY <1>2
  <2>2. Accepted(p) = {m.event} \union Waiting(Tail(p.input)) \union {y.event : y \in p.failed} \union ToSet(p.log) \union p.dead \union p.lost
    BY <1>1 DEF Accepted, Held, Logged
  <2>3. Accepted(q) = Waiting(Tail(p.input)) \union {y.event : y \in p.failed} \union ToSet(p.log) \union (p.dead \union {m.event}) \union p.lost
    BY <1>2 DEF Accepted, Held, Logged
  <2>4. Accepted(r) = Waiting(Tail(p.input)) \union {y.event : y \in p.failed} \union (ToSet(p.log) \union {m.event}) \union p.dead \union p.lost
    BY <1>2, <1>3 DEF Accepted, Held, Logged
  <2>5. Accepted(x) = Waiting(Tail(p.input)) \union ({y.event : y \in p.failed} \union {m.event}) \union ToSet(p.log) \union p.dead \union p.lost
    BY <1>2, <2>1 DEF Accepted, Held, Logged
  <2> HIDE DEF Waiting
  <2> QED BY <2>2, <2>3, <2>4, <2>5
<1> QED BY <1>0, <1>4, <1>5, <1>6

LEMMA DeadLetterKeeps ==
    ASSUME NEW p \in PipeType, NEW m \in Message, NEW topic
    PROVE  /\ sendToDeadLetterQueue(p, m, topic) \in PipeType /\ LogKept(p, sendToDeadLetterQueue(p, m, topic))
           /\ m \in p.failed => Accepted(sendToDeadLetterQueue(p, m, topic)) = Accepted(p)
<1> DEFINE a == [p EXCEPT !.failed = p.failed \ {m}]
           b == [p EXCEPT !.failed = p.failed \ {m}, !.lost = p.lost \union {m.event}]
           l == [event |-> m.event, letter |-> TRUE]
<1>0. sendToDeadLetterQueue(p, m, topic) = IF topic /\ ~Full(p) THEN Put(a, l) ELSE b
  BY DEF sendToDeadLetterQueue
<1>1. l \in Message /\ l.event = m.event /\ m.event \in Carried
  BY MessageFields DEF Message, Carried
<1>2. /\ a.input = p.input /\ a.dead = p.dead /\ a.log = p.log /\ a.failed = p.failed \ {m} /\ a.lost = p.lost
      /\ b.input = p.input /\ b.dead = p.dead /\ b.log = p.log /\ b.failed = p.failed \ {m} /\ b.lost = p.lost \union {m.event}
  BY DEF PipeType
<1>3. a \in PipeType /\ b \in PipeType
  BY <1>1 DEF PipeType
<1> HIDE DEF a, b, l
<1>4. Put(a, l) \in PipeType /\ LogKept(a, Put(a, l)) /\ Accepted(Put(a, l)) = Accepted(a) \union {l.event}
  BY <1>1, <1>3, PutKeeps
<1>5. LogKept(p, Put(a, l)) /\ LogKept(p, b)
  <2>1. Len(p.log) \in Nat
    BY PipeFields
  <2> QED BY <1>2, <1>4, <2>1 DEF LogKept
<1>6. m \in p.failed => /\ Accepted(a) \union {m.event} = Accepted(p) /\ Accepted(b) = Accepted(p)
  BY <1>2 DEF Accepted, Held, Logged
<1> QED BY <1>0, <1>1, <1>3, <1>4, <1>5, <1>6

LEMMA CrashKeeps ==
    ASSUME NEW p \in PipeType
    PROVE  Crashed(p) \in PipeType /\ LogKept(p, Crashed(p)) /\ Accepted(Crashed(p)) = Accepted(p)
<1>1. Held(p) \subseteq Carried /\ <<>> \in Seq(Message) /\ Len(p.log) \in Nat
  <2>1. \A i \in DOMAIN p.input : p.input[i] \in Message
    BY PipeFields
  <2> QED BY <2>1, PipeFields, MessageFields DEF Held
<1> DEFINE q == [p EXCEPT !.open = FALSE, !.input = <<>>, !.failed = {}, !.lost = p.lost \union Held(p)]
<1>2. Crashed(p) = q
  BY DEF Crashed
<1>3. q \in PipeType /\ q.log = p.log /\ q.input = <<>> /\ q.failed = {} /\ q.dead = p.dead /\ q.lost = p.lost \union Held(p)
  BY <1>1 DEF PipeType
<1> HIDE DEF q
<1>4. Held(q) = {}
  BY <1>3 DEF Held
<1>5. Accepted(q) = Accepted(p)
  BY <1>3, <1>4 DEF Accepted, Logged
<1> QED BY <1>1, <1>2, <1>3, <1>5 DEF LogKept

LEMMA CloseKeeps ==
    ASSUME NEW p \in PipeType, NEW q, Closes(p, q)
    PROVE  q \in PipeType /\ LogKept(p, q) /\ Accepted(q) = Accepted(p)
<1>1. PICK keep \in SUBSET {p.input[i].event : i \in DOMAIN p.input} :
         \E order \in InOrder(TakenPlaces(p, keep)) : q = Closed(p, keep, order)
  BY DEF Closes
<1>2. PICK order \in InOrder(TakenPlaces(p, keep)) : q = Closed(p, keep, order)
  BY <1>1
<1> DEFINE S == TakenPlaces(p, keep)
           more == [i \in DOMAIN order |-> p.input[order[i]].event]
           letters == {e \in keep : \E i \in DOMAIN p.input : p.input[i] = [event |-> e, letter |-> TRUE]}
           Waiting == {p.input[i].event : i \in DOMAIN p.input}
<1>3. p.input \in Seq(Message) /\ DOMAIN p.input = 1 .. Len(p.input) /\ Len(p.input) \in Nat
      /\ \A i \in DOMAIN p.input : p.input[i] \in Message /\ p.input[i].event \in Carried
  BY PipeFields, MessageFields
<1>4. Cardinality(S) \in Nat
  <2>1. S \subseteq 1 .. Len(p.input)
    BY <1>3 DEF TakenPlaces
  <2>2. IsFiniteSet(1 .. Len(p.input))
    <3>1. 1 \in Int /\ Len(p.input) \in Int
      BY <1>3
    <3> QED BY <3>1, FS_Interval
  <2>3. IsFiniteSet(S)
    BY <2>1, <2>2, FS_Subset
  <2> HIDE DEF S
  <2> QED BY <2>3, FS_CardinalityType
<1>5. order \in [1 .. Cardinality(S) -> S] /\ DOMAIN order = 1 .. Cardinality(S) /\ \A i \in S : \E j \in 1 .. Cardinality(S) : order[j] = i
  BY <1>2 DEF InOrder, Bijection, Injection, Surjection
<1>6. more \in Seq(Carried) /\ Len(more) = Cardinality(S) /\ DOMAIN more = 1 .. Cardinality(S)
      /\ \A i \in 1 .. Cardinality(S) : more[i] = p.input[order[i]].event
  <2>1. \A i \in 1 .. Cardinality(S) : order[i] \in DOMAIN p.input
    BY <1>5 DEF TakenPlaces
  <2>2. more \in [1 .. Cardinality(S) -> Carried]
    BY <1>3, <1>5, <2>1
  <2> QED BY <1>4, <1>5, <2>2, SeqDef
<1> HIDE DEF more
<1>7. ToSet(more) = {p.input[i].event : i \in S}
  BY <1>5, <1>6 DEF ToSet
<1> DEFINE n == p.log \o more
<1>8. n \in Seq(Carried) /\ Len(n) = Len(p.log) + Len(more) /\ Len(p.log) \in Nat /\ (\A i \in 1 .. Len(p.log) : n[i] = p.log[i])
      /\ \A j \in 1 .. Len(more) : n[Len(p.log) + j] = more[j]
  <2>1. p.log \in Seq(Carried) /\ more \in Seq(Carried)
    BY <1>6, PipeFields
  <2>2. Len(more) \in Nat /\ Len(p.log) \in Nat
    BY <2>1
  <2>3. n \in Seq(Carried) /\ Len(n) = Len(p.log) + Len(more)
        /\ \A i \in 1 .. Len(p.log) + Len(more) : n[i] = IF i <= Len(p.log) THEN p.log[i] ELSE more[i - Len(p.log)]
    BY <2>1, ConcatProperties
  <2> HIDE DEF n
  <2>4. \A j \in 1 .. Len(more) : Len(p.log) + j \in 1 .. Len(p.log) + Len(more) /\ ~(Len(p.log) + j <= Len(p.log)) /\ (Len(p.log) + j) - Len(p.log) = j
    BY <2>2
  <2>5. \A j \in 1 .. Len(p.log) : j \in 1 .. Len(p.log) + Len(more) /\ j <= Len(p.log)
    BY <2>2
  <2> QED BY <2>2, <2>3, <2>4, <2>5
<1>9. ToSet(n) = ToSet(p.log) \union ToSet(more)
  <2>1. DOMAIN n = 1 .. Len(p.log) + Len(more) /\ DOMAIN p.log = 1 .. Len(p.log) /\ DOMAIN more = 1 .. Len(more) /\ Len(more) \in Nat
    BY <1>4, <1>6, <1>8, PipeFields
  <2> HIDE DEF n
  <2>2. \A i \in 1 .. Len(p.log) + Len(more) : i \in 1 .. Len(p.log) \/ (i - Len(p.log) \in 1 .. Len(more) /\ n[i] = more[i - Len(p.log)])
    <3> TAKE i \in 1 .. Len(p.log) + Len(more)
    <3>1. i \in 1 .. Len(p.log) \/ i - Len(p.log) \in 1 .. Len(more)
      BY <1>8, <2>1
    <3>2. ASSUME i - Len(p.log) \in 1 .. Len(more) PROVE n[i] = more[i - Len(p.log)]
      <4>1. Len(p.log) + (i - Len(p.log)) = i
        BY <1>8
      <4> QED BY <1>8, <3>2, <4>1
    <3> QED BY <3>1, <3>2
  <2>3. \A j \in 1 .. Len(more) : Len(p.log) + j \in 1 .. Len(p.log) + Len(more)
    BY <1>8, <2>1
  <2>4. \A j \in 1 .. Len(p.log) : j \in 1 .. Len(p.log) + Len(more)
    BY <1>8, <2>1
  <2>5. ToSet(n) = {n[i] : i \in 1 .. Len(p.log) + Len(more)} /\ ToSet(p.log) = {p.log[i] : i \in 1 .. Len(p.log)} /\ ToSet(more) = {more[i] : i \in 1 .. Len(more)}
    BY <2>1 DEF ToSet
  <2>6. ASSUME NEW e \in ToSet(n) PROVE e \in ToSet(p.log) \union ToSet(more)
    <3>1. PICK i \in 1 .. Len(p.log) + Len(more) : e = n[i]
      BY <2>5, <2>6
    <3> QED BY <1>8, <2>2, <2>5, <3>1
  <2>7. ASSUME NEW e \in ToSet(p.log) PROVE e \in ToSet(n)
    BY <1>8, <2>4, <2>5, <2>7
  <2>8. ASSUME NEW e \in ToSet(more) PROVE e \in ToSet(n)
    BY <1>8, <2>3, <2>5, <2>8
  <2> QED BY <2>6, <2>7, <2>8
<1>10. q = [p EXCEPT !.open = FALSE, !.input = <<>>, !.log = n, !.dead = p.dead \union letters, !.lost = p.lost \union (Waiting \ keep)]
  BY <1>2 DEF Closed, more, n
<1> HIDE DEF n
<1>11. letters \subseteq Carried /\ Waiting \subseteq Carried /\ <<>> \in Seq(Message)
  BY <1>3
<1>12. q \in PipeType
  BY <1>8, <1>10, <1>11 DEF PipeType
<1>13. q.log = n /\ q.input = <<>> /\ q.dead = p.dead \union letters /\ q.lost = p.lost \union (Waiting \ keep) /\ q.failed = p.failed
  BY <1>10 DEF PipeType
<1>14. LogKept(p, q)
  BY <1>4, <1>6, <1>8, <1>13 DEF LogKept
<1>15. ToSet(more) \union letters = keep
  <2>1. ToSet(more) \union letters \subseteq keep
    BY <1>7 DEF TakenPlaces
  <2>2. ASSUME NEW e \in keep PROVE e \in ToSet(more) \union letters
    <3>1. PICK i \in DOMAIN p.input : p.input[i].event = e
      OBVIOUS
    <3>2. CASE p.input[i].letter
      <4>1. p.input[i] = [event |-> e, letter |-> TRUE]
        BY <1>3, <3>1, <3>2 DEF Message
      <4> QED BY <4>1
    <3>3. CASE ~p.input[i].letter
      <4>1. i \in S
        BY <3>1, <3>3 DEF TakenPlaces
      <4> QED BY <1>7, <3>1, <4>1
    <3> QED BY <3>2, <3>3
  <2> QED BY <2>1, <2>2
<1>16. Accepted(q) = Accepted(p)
  <2>1. {q.input[i].event : i \in DOMAIN q.input} = {}
    BY <1>13
  <2> QED BY <1>1, <1>9, <1>13, <1>15, <2>1 DEF Accepted, Held, Logged
<1> QED BY <1>12, <1>14, <1>16

----------------------------------------------------------------------------
(***************************************************************************)
(* The bus.                                                                *)
(***************************************************************************)
KbTypes ==
    /\ kbBus \in Bus /\ kbReader \in Reader /\ kbPipe \in PipeType
    /\ kbSlots \in [array : Seq(BusHandlers), count : Nat] /\ kbCalls \in Seq(BusHandlers \X Carried)
\* A loop over the handlers stays inside its array, which is the bus's own as long as it is shared.
ReaderFits ==
    /\ kbSlots.count <= Len(kbSlots.array) /\ kbReader.count <= Len(kbReader.array) /\ kbReader.next >= 1
    /\ kbReader.shared => kbReader.array = kbSlots.array
    /\ kbReader.pc # "calling" => ~kbReader.shared
    /\ ~kbBus.up => kbReader.pc = "off"
Done(m) == m \in kbTried \union OutboxRows
MarkFits ==
    /\ kbMark \in Nat /\ kbMark <= Len(kbPipe.log)
    /\ \A i \in 1 .. kbMark : Done(kbPipe.log[i])
    /\ kbReader.pc \in {"lookup", "calling"} => kbMark < Len(kbPipe.log)
    /\ kbReader.pc = "calling" /\ kbReader.next > kbReader.count => Done(kbPipe.log[kbMark + 1])
\* The calls so far walk along the log, and none of them is past the mark's next message.
At(b, i) == kbPipe.log[b] = kbCalls[i][2]
CallsPlaced ==
    \A j \in 1 .. Len(kbCalls) :
        \E b \in 1 .. Len(kbPipe.log) :
            b <= kbMark + 1 /\ At(b, j) /\ \A i \in 1 .. Len(kbCalls) : i < j => \E a \in 1 .. Len(kbPipe.log) : a <= b /\ At(a, i)

KbIInv == KbTypes /\ ReaderFits /\ MarkFits /\ CallsPlaced /\ StoppedIsQuiet

LEMMA OffFields == Off \in Reader /\ Off.pc = "off" /\ Off.count = 0 /\ Off.next = 1 /\ ~Off.shared /\ Len(Off.array) = 0
                   /\ [Off EXCEPT !.pc = "idle"] \in Reader
                   /\ LET i == [Off EXCEPT !.pc = "idle"] IN
                      i.pc = "idle" /\ i.count = 0 /\ i.next = 1 /\ ~i.shared /\ Len(i.array) = 0
<1>1. <<>> \in Seq(BusHandlers) /\ Len(<<>>) = 0
  OBVIOUS
<1> QED BY <1>1 DEF Off, Reader

LEMMA KbStarts == KbInit => KbIInv
<1> SUFFICES ASSUME KbInit PROVE KbIInv
  OBVIOUS
<1>1. PICK c \in BusConfigs : kbBus = NewKafkaEventBus(c)
  BY DEF KbInit
<1>2. kbBus \in Bus /\ kbBus.up /\ ~kbBus.cancelled
  <2>1. 0 \in 0 .. MaxBusCalls
    BY KafkaAssumption
  <2> QED BY <1>1, <2>1 DEF Bus, NewKafkaEventBus
<1>3. <<>> \in Seq(BusHandlers) /\ <<>> \in Seq(BusHandlers \X Carried) /\ Len(<<>>) = 0
  OBVIOUS
<1>4. kbPipe \in PipeType /\ Len(kbPipe.log) = 0
  BY <1>3, NewPipe DEF KbInit
<1>5. kbSlots = [array |-> <<>>, count |-> 0] /\ kbReader = Off /\ kbMark = 0 /\ kbCalls = <<>>
  BY DEF KbInit
<1>6. KbTypes
  BY <1>2, <1>3, <1>4, <1>5, OffFields DEF KbTypes
<1>7. ReaderFits
  BY <1>2, <1>3, <1>5, OffFields DEF ReaderFits
<1>8. MarkFits /\ CallsPlaced
  BY <1>3, <1>4, <1>5, OffFields DEF MarkFits, CallsPlaced
<1>9. StoppedIsQuiet
  BY <1>2 DEF StoppedIsQuiet
<1> QED BY <1>6, <1>7, <1>8, <1>9 DEF KbIInv

LEMMA CallsStayPlaced ==
    ASSUME CallsPlaced, MarkFits, KbTypes, kbPipe' \in PipeType, LogKept(kbPipe, kbPipe'), kbCalls' = kbCalls,
           kbMark' \in Nat, kbMark <= kbMark'
    PROVE  CallsPlaced'
<1>1. Len(kbPipe.log) \in Nat /\ Len(kbPipe'.log) \in Nat /\ Len(kbPipe.log) <= Len(kbPipe'.log)
      /\ \A i \in 1 .. Len(kbPipe.log) : i \in 1 .. Len(kbPipe'.log) /\ kbPipe'.log[i] = kbPipe.log[i]
  BY PipeFields DEF KbTypes, LogKept
<1>2. kbMark \in Nat
  BY DEF MarkFits
<1> DEFINE Placed(j) ==
              \E b \in 1 .. Len(kbPipe'.log) :
                 /\ b <= kbMark' + 1 /\ kbPipe'.log[b] = kbCalls'[j][2]
                 /\ \A i \in 1 .. Len(kbCalls') : i < j => \E a \in 1 .. Len(kbPipe'.log) : a <= b /\ kbPipe'.log[a] = kbCalls'[i][2]
<1>a. CallsPlaced' <=> \A j \in 1 .. Len(kbCalls') : Placed(j)
  BY Zenon DEF CallsPlaced, At
<1>b. SUFFICES ASSUME NEW j \in 1 .. Len(kbCalls')
             PROVE  Placed(j)
  BY <1>a, Zenon
<1>c. kbCalls' = kbCalls /\ j \in 1 .. Len(kbCalls)
  OBVIOUS
<1>3. PICK b \in 1 .. Len(kbPipe.log) :
         b <= kbMark + 1 /\ kbPipe.log[b] = kbCalls[j][2]
         /\ \A i \in 1 .. Len(kbCalls) : i < j => \E a \in 1 .. Len(kbPipe.log) : a <= b /\ kbPipe.log[a] = kbCalls[i][2]
  BY <1>c DEF CallsPlaced, At
<1>4. b <= kbMark' + 1 /\ b \in 1 .. Len(kbPipe'.log) /\ kbPipe'.log[b] = kbCalls[j][2]
  <2>1. b <= kbMark' + 1
    BY <1>1, <1>2, <1>3
  <2>2. b \in 1 .. Len(kbPipe'.log) /\ kbPipe'.log[b] = kbPipe.log[b]
    BY <1>1
  <2> QED BY <1>3, <2>1, <2>2
<1>5. \A i \in 1 .. Len(kbCalls) : i < j => \E a \in 1 .. Len(kbPipe'.log) : a <= b /\ kbPipe'.log[a] = kbCalls[i][2]
  BY <1>1, <1>3
<1>6. b \in 1 .. Len(kbPipe'.log) /\ b <= kbMark' + 1 /\ kbPipe'.log[b] = kbCalls'[j][2]
  BY <1>4, <1>c
<1>7. \A i \in 1 .. Len(kbCalls') : i < j => \E a \in 1 .. Len(kbPipe'.log) : a <= b /\ kbPipe'.log[a] = kbCalls'[i][2]
  BY <1>5, <1>c
<1> QED BY <1>6, <1>7, Zenon

\* What neither reads nor calls nor marks.
LoopStays == kbReader'.pc \in {"lookup", "calling"} =>
                kbReader'.pc = kbReader.pc /\ kbReader'.next = kbReader.next /\ kbReader'.count = kbReader.count
LEMMA LogGrows ==
    ASSUME KbIInv, kbPipe' \in PipeType, LogKept(kbPipe, kbPipe'), UNCHANGED <<kbMark, kbTried, kbCalls>>, LoopStays
    PROVE  MarkFits' /\ CallsPlaced'
<1>1. Len(kbPipe.log) \in Nat /\ Len(kbPipe'.log) \in Nat /\ Len(kbPipe.log) <= Len(kbPipe'.log)
      /\ \A i \in 1 .. Len(kbPipe.log) : kbPipe'.log[i] = kbPipe.log[i]
  BY PipeFields DEF KbIInv, KbTypes, LogKept
<1>2. kbMark \in Nat /\ kbMark <= Len(kbPipe.log)
  BY DEF KbIInv, MarkFits
<1>3. \A i \in 1 .. kbMark : i \in 1 .. Len(kbPipe.log)
  BY <1>1, <1>2
<1>4. kbMark < Len(kbPipe.log) => kbMark + 1 \in 1 .. Len(kbPipe.log) /\ kbMark < Len(kbPipe'.log)
  BY <1>1, <1>2
<1>5. MarkFits'
  <2>1. kbMark' \in Nat /\ kbMark' <= Len(kbPipe'.log)
    BY <1>1, <1>2
  <2>2. \A i \in 1 .. kbMark' : kbPipe'.log[i] \in kbTried \union OutboxRows
    BY <1>1, <1>3 DEF KbIInv, MarkFits, Done
  <2>3. kbReader'.pc \in {"lookup", "calling"} => kbMark' < Len(kbPipe'.log)
    BY <1>4 DEF KbIInv, MarkFits, LoopStays
  <2>4. kbReader'.pc = "calling" /\ kbReader'.next > kbReader'.count => kbPipe'.log[kbMark' + 1] \in kbTried \union OutboxRows
    BY <1>1, <1>4 DEF KbIInv, MarkFits, Done, LoopStays
  <2> QED BY <2>1, <2>2, <2>3, <2>4 DEF MarkFits, Done
<1>6. CallsPlaced'
  <2>1. CallsPlaced /\ MarkFits /\ KbTypes
    BY DEF KbIInv
  <2>2. kbMark' \in Nat
    BY <1>2
  <2>3. kbMark <= kbMark'
    BY <1>2
  <2>4. kbCalls' = kbCalls
    OBVIOUS
  <2> QED BY <2>1, <2>2, <2>3, <2>4, CallsStayPlaced
<1> QED BY <1>5, <1>6

LEMMA SamePipe == ASSUME KbIInv, kbPipe' = kbPipe PROVE kbPipe' \in PipeType /\ LogKept(kbPipe, kbPipe')
<1>1. kbPipe \in PipeType /\ Len(kbPipe.log) \in Nat
  BY PipeFields DEF KbIInv, KbTypes
<1> QED BY <1>1 DEF LogKept

LEMMA CalledFields ==
    ASSUME KbIInv, MayCall
    PROVE  /\ Called \in Bus /\ Called.config = kbBus.config /\ Called.up = kbBus.up /\ Called.started = kbBus.started
           /\ Called.cancelled = kbBus.cancelled /\ Called.stop = kbBus.stop /\ Called.consumer = kbBus.consumer
           /\ kbBus.up /\ kbBus.stop = "none"
<1>1. kbBus.calls + 1 \in 0 .. MaxBusCalls
  BY KafkaAssumption DEF KbIInv, KbTypes, Bus, MayCall
<1> QED BY <1>1 DEF KbIInv, KbTypes, Bus, Called, MayCall, Unlocked

LEMMA StartAndStopMove ==
    ASSUME KbIInv, Start \/ Stop \/ CloseProducer \/ CloseConsumer \/ Stopped
    PROVE  KbIInv'
<1> USE DEF KbIInv
<1>1. UNCHANGED <<kbSlots, kbReader, kbMark, kbTried, kbCalls>>
  BY DEF Start, Stop, CloseProducer, CloseConsumer, Stopped
<1>2. kbBus' \in Bus /\ kbBus'.up = kbBus.up
  <2>1. CASE Start
    BY <2>1, CalledFields DEF Start, Bus
  <2>2. CASE Stop
    BY <2>2, CalledFields DEF Stop, Bus
  <2>3. CASE CloseProducer \/ CloseConsumer \/ Stopped
    BY <2>3 DEF KbTypes, CloseProducer, CloseConsumer, Stopped, Bus
  <2> QED BY <2>1, <2>2, <2>3
<1>3. StoppedIsQuiet'
  <2>1. CASE Start
    BY <1>1, <2>1, CalledFields DEF Start, StoppedIsQuiet, Bus
  <2>2. CASE Stop
    BY <1>1, <2>2, CalledFields DEF Stop, StoppedIsQuiet, Bus
  <2>3. CASE CloseProducer \/ CloseConsumer
    BY <1>1, <2>3 DEF KbTypes, CloseProducer, CloseConsumer, StoppedIsQuiet, Bus
  <2>4. CASE Stopped
    BY <1>1, <2>4 DEF KbTypes, Stopped, StoppedIsQuiet, Bus
  <2> QED BY <2>1, <2>2, <2>3, <2>4
<1>4. kbPipe' \in PipeType /\ LogKept(kbPipe, kbPipe')
  <2>1. CASE Start
    <3>1. [kbPipe EXCEPT !.open = TRUE] \in PipeType /\ [kbPipe EXCEPT !.open = TRUE].log = kbPipe.log
      BY DEF KbTypes, PipeType
    <3>2. kbPipe' = kbPipe \/ kbPipe' = [kbPipe EXCEPT !.open = TRUE]
      BY <2>1 DEF Start
    <3>3. Len(kbPipe.log) \in Nat
      BY PipeFields DEF KbTypes
    <3>4. kbPipe \in PipeType
      BY DEF KbTypes
    <3> HIDE DEF KbIInv
    <3>5. LogKept(kbPipe, [kbPipe EXCEPT !.open = TRUE]) /\ LogKept(kbPipe, kbPipe)
      BY <3>1, <3>3 DEF LogKept
    <3> QED BY <3>1, <3>2, <3>4, <3>5
  <2>2. CASE CloseProducer
    BY <2>2, CloseKeeps DEF CloseProducer, KbTypes
  <2>3. CASE Stop \/ CloseConsumer \/ Stopped
    BY <2>3, SamePipe DEF Stop, CloseConsumer, Stopped
  <2> QED BY <2>1, <2>2, <2>3
<1>5. KbTypes' /\ ReaderFits'
  BY <1>1, <1>2, <1>4 DEF KbTypes, ReaderFits
<1>6. MarkFits' /\ CallsPlaced'
  BY <1>1, <1>4, LogGrows DEF LoopStays
<1> QED BY <1>3, <1>5, <1>6

LEMMA PublishMoves == ASSUME KbIInv, NEW e \in BusEvents, Publish(e) PROVE KbIInv'
<1> USE DEF KbIInv
<1>1. UNCHANGED <<kbSlots, kbMark, kbTried, kbCalls>>
  BY DEF Publish
<1>2. Plain(e) \in Message /\ kbPipe \in PipeType
  BY DEF Plain, Message, KbTypes
<1>3. CASE kbPipe.open
  <2>1. kbPipe' = Put(kbPipe, Plain(e)) /\ UNCHANGED <<kbBus, kbReader>>
    BY <1>3 DEF Publish
  <2>2. kbPipe' \in PipeType /\ LogKept(kbPipe, kbPipe')
    BY <1>2, <2>1, PutKeeps
  <2>3. KbTypes' /\ ReaderFits' /\ StoppedIsQuiet'
    BY <1>1, <2>1, <2>2 DEF KbTypes, ReaderFits, StoppedIsQuiet
  <2> QED BY <1>1, <2>1, <2>2, <2>3, LogGrows DEF LoopStays
<1>4. CASE ~kbPipe.open
  <2>1. kbPipe' = Crashed(kbPipe) /\ kbBus' = [kbBus EXCEPT !.up = FALSE] /\ kbReader' = Off
    BY <1>4 DEF Publish
  <2>2. kbPipe' \in PipeType /\ LogKept(kbPipe, kbPipe')
    BY <1>2, <2>1, CrashKeeps
  <2>3. kbBus' \in Bus
    BY <2>1 DEF KbTypes, Bus
  <2>4. KbTypes'
    BY <1>1, <2>1, <2>2, <2>3, OffFields DEF KbTypes
  <2>5. ReaderFits' /\ StoppedIsQuiet'
    BY <1>1, <2>1, OffFields DEF ReaderFits, StoppedIsQuiet
  <2>6. MarkFits' /\ CallsPlaced'
    BY <1>1, <2>1, <2>2, OffFields, LogGrows DEF LoopStays
  <2> QED BY <2>4, <2>5, <2>6
<1> QED BY <1>3, <1>4

LEMMA ProducerMoves == ASSUME KbIInv, BrokerAnswers \/ handleProducerErrors \/ Crash PROVE KbIInv'
<1> USE DEF KbIInv
<1>1. UNCHANGED <<kbSlots, kbMark, kbTried, kbCalls>>
  BY DEF BrokerAnswers, handleProducerErrors, Crash
<1>2. kbPipe \in PipeType
  BY DEF KbTypes
<1>3. kbPipe' \in PipeType /\ LogKept(kbPipe, kbPipe')
  <2>1. CASE BrokerAnswers
    BY <1>2, <2>1, BrokerKeeps DEF BrokerAnswers
  <2>2. CASE handleProducerErrors
    <3>1. PICK m \in kbPipe.failed : kbPipe' = sendToDeadLetterQueue(kbPipe, m, kbBus.config.deadLetterTopic) \/ kbPipe' = Crashed(kbPipe)
      BY <2>2 DEF handleProducerErrors
    <3>2. m \in Message
      BY <1>2, PipeFields
    <3>3. CASE kbPipe' = Crashed(kbPipe)
      BY <1>2, <3>3, CrashKeeps
    <3>4. CASE kbPipe' = sendToDeadLetterQueue(kbPipe, m, kbBus.config.deadLetterTopic)
      <4> DEFINE t == kbBus.config.deadLetterTopic
      <4> HIDE DEF t
      <4>1. sendToDeadLetterQueue(kbPipe, m, t) \in PipeType /\ LogKept(kbPipe, sendToDeadLetterQueue(kbPipe, m, t))
        BY <1>2, <3>2, DeadLetterKeeps
      <4> QED BY <3>4, <4>1 DEF t
    <3> QED BY <3>1, <3>3, <3>4
  <2>3. CASE Crash
    BY <1>2, <2>3, CrashKeeps DEF Crash
  <2> QED BY <2>1, <2>2, <2>3
<1>4. CASE UNCHANGED <<kbBus, kbReader>>
  <2>1. KbTypes' /\ ReaderFits' /\ StoppedIsQuiet'
    BY <1>1, <1>3, <1>4 DEF KbTypes, ReaderFits, StoppedIsQuiet
  <2> QED BY <1>1, <1>3, <1>4, <2>1, LogGrows DEF LoopStays
<1>5. CASE kbReader' = Off /\ (kbBus' = [kbBus EXCEPT !.up = FALSE] \/ kbBus' = [kbBus EXCEPT !.up = FALSE, !.stop = "none"])
  <2>1. kbBus' \in Bus
    BY <1>5 DEF KbTypes, Bus
  <2>2. KbTypes'
    BY <1>1, <1>3, <1>5, <2>1, OffFields DEF KbTypes
  <2>3. ReaderFits' /\ StoppedIsQuiet'
    BY <1>1, <1>5, OffFields DEF ReaderFits, StoppedIsQuiet
  <2>4. MarkFits' /\ CallsPlaced'
    BY <1>1, <1>3, <1>5, OffFields, LogGrows DEF LoopStays
  <2> QED BY <2>2, <2>3, <2>4
<1>6. UNCHANGED <<kbBus, kbReader>> \/ (kbReader' = Off /\ (kbBus' = [kbBus EXCEPT !.up = FALSE] \/ kbBus' = [kbBus EXCEPT !.up = FALSE, !.stop = "none"]))
  BY DEF BrokerAnswers, handleProducerErrors, Crash
<1> QED BY <1>4, <1>5, <1>6

LEMMA ForeignMoves == ASSUME KbIInv, NEW r \in OutboxRows, ForeignMessage(r) PROVE KbIInv'
<1> USE DEF KbIInv
<1> DEFINE log == Append(kbPipe.log, r)
<1>1. UNCHANGED <<kbBus, kbSlots, kbReader, kbMark, kbTried, kbCalls>> /\ kbPipe' = [kbPipe EXCEPT !.log = log]
  BY DEF ForeignMessage
<1>2. kbPipe \in PipeType /\ kbPipe.log \in Seq(Carried) /\ r \in Carried
  BY PipeFields DEF KbTypes, Carried
<1>3. log \in Seq(Carried) /\ Len(log) = Len(kbPipe.log) + 1 /\ Len(kbPipe.log) \in Nat
      /\ \A i \in 1 .. Len(kbPipe.log) : log[i] = kbPipe.log[i]
  BY <1>2
<1> HIDE DEF log
<1>4. kbPipe' \in PipeType /\ kbPipe'.log = log
  BY <1>1, <1>2, <1>3 DEF PipeType
<1>5. LogKept(kbPipe, kbPipe')
  BY <1>3, <1>4 DEF LogKept
<1>6. KbTypes' /\ ReaderFits' /\ StoppedIsQuiet'
  BY <1>1, <1>4 DEF KbTypes, ReaderFits, StoppedIsQuiet
<1>7. MarkFits' /\ CallsPlaced'
  BY <1>1, <1>4, <1>5, LogGrows DEF LoopStays
<1> QED BY <1>6, <1>7

LEMMA ReaderEnds == ASSUME KbIInv, SessionEnds \/ Reboot PROVE KbIInv'
<1> USE DEF KbIInv
<1>1. UNCHANGED <<kbPipe, kbMark, kbTried, kbCalls>>
  BY DEF SessionEnds, Reboot
<1>2. kbPipe' \in PipeType /\ LogKept(kbPipe, kbPipe')
  BY <1>1, SamePipe
<1>3. CASE SessionEnds
  <2>1. kbReader' = Off /\ UNCHANGED <<kbBus, kbSlots>>
    BY <1>3 DEF SessionEnds
  <2>2. KbTypes' /\ ReaderFits' /\ StoppedIsQuiet'
    BY <1>1, <2>1, OffFields DEF KbTypes, ReaderFits, StoppedIsQuiet
  <2>3. MarkFits' /\ CallsPlaced'
    BY <1>1, <1>2, <2>1, OffFields, LogGrows DEF LoopStays
  <2> QED BY <2>2, <2>3
<1>4. CASE Reboot
  <2>1. kbReader' = kbReader /\ kbReader.pc = "off" /\ ~kbReader.shared /\ kbSlots' = [array |-> <<>>, count |-> 0]
    BY <1>4 DEF Reboot, ReaderFits
  <2>2. kbBus' \in Bus
    BY <1>4 DEF Reboot, NewKafkaEventBus, KbTypes, Bus
  <2>3. <<>> \in Seq(BusHandlers) /\ Len(<<>>) = 0
    OBVIOUS
  <2>4. KbTypes' /\ StoppedIsQuiet'
    BY <1>1, <2>1, <2>2, <2>3 DEF KbTypes, StoppedIsQuiet
  <2>5. ReaderFits'
    BY <2>1, <2>3 DEF ReaderFits
  <2>6. MarkFits' /\ CallsPlaced'
    BY <1>1, <1>2, <2>1, LogGrows DEF LoopStays
  <2> QED BY <2>4, <2>5, <2>6
<1> QED BY <1>3, <1>4

LEMMA SubscribeMoves == ASSUME KbIInv, NEW h \in BusHandlers, Subscribe(h) PROVE KbIInv'
<1> USE DEF KbIInv
<1> DEFINE s == kbSlots.array  n == kbSlots.count
           front == SubSeq(s, 1, n)  back == SubSeq(s, n + 2, Len(s))
           array == Append(front, h) \o back
<1>1. UNCHANGED <<kbPipe, kbMark, kbTried, kbCalls>> /\ kbSlots' = [array |-> array, count |-> n + 1]
  BY DEF Subscribe
<1>2. s \in Seq(BusHandlers) /\ n \in Nat /\ n <= Len(s) /\ Len(s) \in Nat
  BY DEF KbTypes, ReaderFits
<1>3. array \in Seq(BusHandlers) /\ Len(array) >= Len(s) /\ Len(array) >= n + 1 /\ Len(array) \in Nat
  <2> HIDE DEF s, n
  <2>1. front \in Seq(BusHandlers) /\ Len(front) = n
    <3>1. \A i \in 1 .. n : s[i] \in BusHandlers
      BY <1>2
    <3>2. 1 \in Int /\ n \in Int
      BY <1>2
    <3>3. SubSeq(s, 1, n) \in Seq(BusHandlers) /\ Len(SubSeq(s, 1, n)) = IF 1 <= n THEN n - 1 + 1 ELSE 0
      BY <3>1, <3>2, SubSeqProperties
    <3> QED BY <1>2, <3>3
  <2>2. back \in Seq(BusHandlers) /\ Len(back) = IF n + 2 <= Len(s) THEN Len(s) - (n + 2) + 1 ELSE 0
    <3>1. \A i \in n + 2 .. Len(s) : s[i] \in BusHandlers
      BY <1>2
    <3>2. n + 2 \in Int /\ Len(s) \in Int
      BY <1>2
    <3> QED BY <3>1, <3>2, SubSeqProperties
  <2> HIDE DEF front, back
  <2>3. Append(front, h) \in Seq(BusHandlers) /\ Len(Append(front, h)) = n + 1
    BY <1>2, <2>1
  <2>4. array \in Seq(BusHandlers) /\ Len(array) = n + 1 + Len(back)
    BY <2>2, <2>3, ConcatProperties
  <2>5. Len(back) \in Nat /\ n + 1 + Len(back) >= Len(s)
    <3> HIDE DEF KbIInv
    <3> DEFINE l == Len(back) m == Len(s)
    <3>1. n \in Nat /\ m \in Nat /\ l = IF n + 2 <= m THEN m - (n + 2) + 1 ELSE 0
      BY <1>2, <2>2
    <3> HIDE DEF l, m
    <3>2. l \in Nat /\ n + 1 + l >= m
      BY <3>1
    <3> QED BY <3>2 DEF l, m
  <2> HIDE DEF array
  <2> QED BY <1>2, <2>4, <2>5
<1> HIDE DEF array
<1>4. kbBus' \in Bus /\ kbBus'.up = kbBus.up /\ kbBus'.cancelled = kbBus.cancelled /\ kbBus'.started = kbBus.started /\ kbBus.up
  <2>1. MayCall
    BY DEF Subscribe
  <2>2. Called \in Bus /\ Called.up = kbBus.up /\ Called.cancelled = kbBus.cancelled /\ Called.started = kbBus.started /\ kbBus.up
    BY <2>1, CalledFields
  <2>3. kbBus' = [Called EXCEPT !.consumer = IF kbBus.started /\ Called.consumer = "none" THEN "open" ELSE Called.consumer]
    BY DEF Subscribe
  <2> HIDE DEF KbIInv
  <2> QED BY <2>2, <2>3 DEF Bus
<1>5. \/ kbReader' = [kbReader EXCEPT !.array = array] /\ kbReader.shared
      \/ kbReader' = [Off EXCEPT !.pc = "idle"] /\ ~kbBus.cancelled
      \/ kbReader' = [kbReader EXCEPT !.shared = FALSE]
  BY DEF Subscribe, array
<1>6. kbReader' \in Reader /\ kbReader'.count <= Len(kbReader'.array) /\ kbReader'.next >= 1
      /\ (kbReader'.shared => kbReader'.array = array) /\ (kbReader'.pc # "calling" => ~kbReader'.shared)
      /\ (kbReader'.pc = kbReader.pc \/ (kbReader'.pc = "idle" /\ ~kbBus.cancelled))
      /\ (kbReader'.pc = "idle" \/ (kbReader'.next = kbReader.next /\ kbReader'.count = kbReader.count))
  <2>1. kbReader \in Reader
    BY DEF KbTypes
  <2>2. CASE kbReader' = [kbReader EXCEPT !.array = array] /\ kbReader.shared
    <3>1. kbReader'.array = array /\ kbReader'.count = kbReader.count /\ kbReader'.pc = kbReader.pc /\ kbReader'.shared = kbReader.shared
          /\ kbReader'.next = kbReader.next /\ kbReader' \in Reader /\ kbReader.count \in Nat
      BY <1>3, <2>1, <2>2 DEF Reader
    <3>2. kbReader.array = s /\ kbReader.count <= Len(s) /\ kbReader.pc = "calling" /\ kbReader.next >= 1
      BY <2>2 DEF ReaderFits
    <3> HIDE DEF s, n, KbIInv
    <3>3. kbReader.count <= Len(array)
      BY <1>2, <1>3, <3>1, <3>2
    <3> QED BY <3>1, <3>2, <3>3
  <2>3. CASE kbReader' = [Off EXCEPT !.pc = "idle"] /\ ~kbBus.cancelled
    BY <2>3, OffFields
  <2>4. CASE kbReader' = [kbReader EXCEPT !.shared = FALSE]
    <3>1. kbReader'.array = kbReader.array /\ kbReader'.count = kbReader.count /\ kbReader'.pc = kbReader.pc /\ kbReader'.shared = FALSE
          /\ kbReader'.next = kbReader.next /\ kbReader' \in Reader
      BY <2>1, <2>4 DEF Reader
    <3> QED BY <3>1 DEF ReaderFits
  <2> QED BY <1>5, <2>2, <2>3, <2>4
<1>7. KbTypes'
  <2>1. kbSlots' \in [array : Seq(BusHandlers), count : Nat]
    BY <1>1, <1>2, <1>3
  <2> QED BY <1>1, <1>4, <1>6, <2>1 DEF KbTypes
<1>8. ReaderFits' /\ StoppedIsQuiet'
  <2>1. kbSlots'.count <= Len(kbSlots'.array) /\ kbSlots'.array = array
    BY <1>1, <1>2, <1>3
  <2>2. ReaderFits'
    BY <1>4, <1>6, <2>1 DEF ReaderFits
  <2> QED BY <1>4, <1>6, <2>2 DEF StoppedIsQuiet
<1>9. MarkFits' /\ CallsPlaced'
  <2>1. kbPipe' \in PipeType /\ LogKept(kbPipe, kbPipe')
    BY <1>1, SamePipe
  <2> QED BY <1>1, <1>6, <2>1, LogGrows DEF LoopStays
<1> QED BY <1>7, <1>8, <1>9

LEMMA UnsubscribeMoves == ASSUME KbIInv, NEW h \in BusHandlers, Unsubscribe(h) PROVE KbIInv'
<1> USE DEF KbIInv
<1> DEFINE s == kbSlots.array  n == kbSlots.count
<1>1. PICK i \in 1 .. n :
         LET array == [j \in DOMAIN s |-> IF i <= j /\ j < n THEN s[j + 1] ELSE s[j]] IN
         /\ kbSlots' = [array |-> array, count |-> n - 1]
         /\ kbReader' = IF kbReader.shared THEN [kbReader EXCEPT !.array = array] ELSE kbReader
  BY DEF Unsubscribe
<1> DEFINE array == [j \in DOMAIN s |-> IF i <= j /\ j < n THEN s[j + 1] ELSE s[j]]
<1>2. UNCHANGED <<kbPipe, kbMark, kbTried, kbCalls>> /\ kbBus' = Called /\ MayCall
  BY DEF Unsubscribe
<1>3. s \in Seq(BusHandlers) /\ n \in Nat /\ n <= Len(s) /\ Len(s) \in Nat /\ DOMAIN s = 1 .. Len(s)
  BY DEF KbTypes, ReaderFits
<1>4. array \in Seq(BusHandlers) /\ Len(array) = Len(s)
  <2> HIDE DEF s, n
  <2>1. \A j \in 1 .. Len(s) : (IF i <= j /\ j < n THEN s[j + 1] ELSE s[j]) \in BusHandlers
    BY <1>3
  <2>2. array \in [1 .. Len(s) -> BusHandlers]
    BY <1>3, <2>1
  <2> QED BY <1>3, <2>2, SeqDef
<1>5. kbSlots' = [array |-> array, count |-> n - 1] /\ kbReader' = IF kbReader.shared THEN [kbReader EXCEPT !.array = array] ELSE kbReader
  BY <1>1
<1> HIDE DEF array
<1>6. kbReader' \in Reader /\ kbReader'.count <= Len(kbReader'.array) /\ kbReader'.next >= 1
      /\ (kbReader'.shared => kbReader'.array = array) /\ (kbReader'.pc # "calling" => ~kbReader'.shared)
      /\ kbReader'.pc = kbReader.pc /\ kbReader'.next = kbReader.next /\ kbReader'.count = kbReader.count
  <2>1. kbReader \in Reader
    BY DEF KbTypes
  <2>2. CASE kbReader.shared
    <3>1. kbReader'.array = array /\ kbReader'.count = kbReader.count /\ kbReader'.pc = kbReader.pc /\ kbReader'.shared = kbReader.shared
          /\ kbReader'.next = kbReader.next /\ kbReader' \in Reader
      BY <1>4, <1>5, <2>1, <2>2 DEF Reader
    <3> QED BY <1>4, <2>2, <3>1 DEF ReaderFits
  <2>3. CASE ~kbReader.shared
    BY <1>5, <2>1, <2>3 DEF ReaderFits
  <2> QED BY <2>2, <2>3
<1>7. kbBus' \in Bus /\ kbBus'.up = kbBus.up /\ kbBus'.cancelled = kbBus.cancelled /\ kbBus'.started = kbBus.started /\ kbBus.up
  BY <1>2, CalledFields
<1>8. KbTypes'
  <2>1. n - 1 \in Nat
    BY <1>3
  <2>2. kbSlots' \in [array : Seq(BusHandlers), count : Nat]
    BY <1>4, <1>5, <2>1
  <2> QED BY <1>2, <1>6, <1>7, <2>2 DEF KbTypes
<1>9. ReaderFits' /\ StoppedIsQuiet'
  <2>1. kbSlots'.array = array /\ kbSlots'.count = n - 1
    BY <1>5
  <2>2. kbSlots'.count <= Len(kbSlots'.array)
    BY <1>3, <1>4, <2>1
  <2>3. ReaderFits'
    BY <1>6, <1>7, <2>1, <2>2 DEF ReaderFits
  <2> QED BY <1>6, <1>7, <2>3 DEF StoppedIsQuiet
<1>10. MarkFits' /\ CallsPlaced'
  <2>1. kbPipe' \in PipeType /\ LogKept(kbPipe, kbPipe')
    BY <1>2, SamePipe
  <2> QED BY <1>2, <1>6, <2>1, LogGrows DEF LoopStays
<1> QED BY <1>8, <1>9, <1>10

LEMMA MessagesAreHandled == ASSUME KbIInv, NextMessage \/ HandleEvent \/ CallHandler \/ MarkMessage \/ NotAnEvent PROVE KbIInv'
<1> USE DEF KbIInv
<1>1. UNCHANGED <<kbBus, kbPipe, kbSlots>>
  BY DEF NextMessage, HandleEvent, CallHandler, MarkMessage, NotAnEvent
<1>2. kbReader \in Reader /\ kbPipe \in PipeType /\ kbSlots \in [array : Seq(BusHandlers), count : Nat] /\ kbMark \in Nat
      /\ Len(kbPipe.log) \in Nat /\ kbPipe.log \in Seq(Carried)
  BY PipeFields DEF KbTypes, MarkFits
<1>3. StoppedIsQuiet'
  BY <1>1 DEF StoppedIsQuiet, NextMessage, HandleEvent, CallHandler, MarkMessage, NotAnEvent
<1>4. kbBus.up /\ kbReader.pc # "off"
  BY DEF ReaderFits, NextMessage, HandleEvent, CallHandler, MarkMessage, NotAnEvent
<1>5. CASE NextMessage
  <2>1. kbReader' \in Reader /\ kbReader'.pc = "lookup" /\ kbReader'.count = kbReader.count /\ kbReader'.array = kbReader.array
        /\ kbReader'.next = kbReader.next /\ kbReader'.shared = kbReader.shared /\ kbReader.pc = "idle"
    BY <1>2, <1>5 DEF NextMessage, Reader
  <2>2. KbTypes' /\ ReaderFits'
    BY <1>1, <1>4, <1>5, <2>1 DEF KbTypes, ReaderFits, NextMessage
  <2>3. MarkFits'
    BY <1>1, <1>5, <2>1 DEF MarkFits, Done, NextMessage
  <2>4. CallsPlaced'
    BY <1>1, <1>5 DEF CallsPlaced, At, NextMessage
  <2> QED BY <1>3, <2>2, <2>3, <2>4
<1>6. CASE HandleEvent
  <2>1. kbReader' = [pc |-> "calling", array |-> kbSlots.array, count |-> kbSlots.count, shared |-> TRUE, next |-> 1]
        /\ kbTried' = (IF kbSlots.count = 0 THEN kbTried \union {Message0} ELSE kbTried)
        /\ UNCHANGED <<kbMark, kbCalls>> /\ kbReader.pc = "lookup"
    BY <1>6 DEF HandleEvent
  <2>2. kbReader' \in Reader
    BY <1>2, <2>1 DEF Reader
  <2>3. KbTypes' /\ ReaderFits'
    BY <1>1, <1>4, <2>1, <2>2 DEF KbTypes, ReaderFits
  <2>4. MarkFits'
    <3>1. kbReader'.next = 1 /\ kbReader'.count = kbSlots.count /\ kbSlots.count \in Nat
      BY <1>2, <2>1
    <3>2. kbReader'.next > kbReader'.count => kbSlots.count = 0
      BY <3>1
    <3> QED BY <1>1, <2>1, <3>2 DEF MarkFits, Message0, Done
  <2>5. CallsPlaced'
    BY <1>1, <2>1 DEF CallsPlaced, At
  <2> QED BY <1>3, <2>3, <2>4, <2>5
<1>7. CASE CallHandler
  <2> DEFINE c == <<kbReader.array[kbReader.next], Message0>>
  <2>1. kbCalls' = Append(kbCalls, c) /\ UNCHANGED kbMark /\ kbReader.pc = "calling" /\ kbReader.next <= kbReader.count
        /\ kbTried' = (IF kbReader.next = kbReader.count THEN kbTried \union {Message0} ELSE kbTried)
        /\ kbReader' = [kbReader EXCEPT !.next = kbReader.next + 1]
    BY <1>7 DEF CallHandler
  <2>2. kbMark + 1 \in 1 .. Len(kbPipe.log) /\ Message0 \in Carried
    BY <1>2, <2>1 DEF MarkFits, Message0
  <2>3. kbReader.next \in 1 .. Len(kbReader.array) /\ kbReader.array \in Seq(BusHandlers) /\ kbReader.next + 1 >= 1
    BY <1>2, <2>1 DEF ReaderFits, Reader
  <2>4. c \in BusHandlers \X Carried
    BY <2>2, <2>3
  <2>5. c[2] = kbPipe.log[kbMark + 1]
    BY DEF Message0
  <2> HIDE DEF c
  <2>6. kbCalls \in Seq(BusHandlers \X Carried) /\ kbCalls' \in Seq(BusHandlers \X Carried) /\ Len(kbCalls') = Len(kbCalls) + 1 /\ Len(kbCalls) \in Nat
        /\ kbCalls'[Len(kbCalls) + 1] = c /\ \A i \in 1 .. Len(kbCalls) : kbCalls'[i] = kbCalls[i]
    BY <2>1, <2>4 DEF KbTypes
  <2>7. kbReader' \in Reader /\ kbReader'.pc = "calling" /\ kbReader'.array = kbReader.array /\ kbReader'.count = kbReader.count
        /\ kbReader'.shared = kbReader.shared /\ kbReader'.next = kbReader.next + 1
    <3>1. kbReader.next + 1 \in Nat
      BY <1>2 DEF Reader
    <3> QED BY <1>2, <2>1, <3>1 DEF Reader
  <2>8. KbTypes' /\ ReaderFits'
    BY <1>1, <1>4, <2>1, <2>3, <2>6, <2>7 DEF KbTypes, ReaderFits
  <2>9. MarkFits'
    <3>1. kbReader.next \in Nat /\ kbReader.count \in Nat
      BY <1>2 DEF Reader
    <3>2. kbReader'.next > kbReader'.count => kbReader.next = kbReader.count
      BY <2>1, <2>7, <3>1
    <3> QED BY <1>1, <2>1, <2>7, <3>2 DEF MarkFits, Message0, Done
  <2>10. CallsPlaced'
    <3> DEFINE m == Len(kbCalls)  k == kbMark + 1  L == kbPipe.log
    <3>1. SUFFICES ASSUME NEW j \in 1 .. m + 1
                   PROVE  \E b \in 1 .. Len(L) : b <= k /\ L[b] = kbCalls'[j][2]
                             /\ \A i \in 1 .. m + 1 : i < j => \E a \in 1 .. Len(L) : a <= b /\ L[a] = kbCalls'[i][2]
      BY <1>1, <2>1, <2>6 DEF CallsPlaced, At
    <3>2. \A x \in 1 .. m : \E b \in 1 .. Len(L) : b <= k /\ L[b] = kbCalls[x][2]
              /\ \A i \in 1 .. m : i < x => \E a \in 1 .. Len(L) : a <= b /\ L[a] = kbCalls[i][2]
      BY DEF CallsPlaced, At
    <3>3. CASE j = m + 1
      <4>1. \A i \in 1 .. m + 1 : i < j => i \in 1 .. m
        BY <2>6, <3>3
      <4>2. \A i \in 1 .. m + 1 : i < j => \E a \in 1 .. Len(L) : a <= k /\ L[a] = kbCalls'[i][2]
        BY <2>6, <3>2, <4>1
      <4>3. k \in 1 .. Len(L) /\ k <= k /\ L[k] = kbCalls'[j][2]
        BY <1>2, <2>2, <2>5, <2>6, <3>3
      <4> QED BY <4>2, <4>3
    <3>4. CASE j # m + 1
      <4>1. j \in 1 .. m /\ \A i \in 1 .. m + 1 : i < j => i \in 1 .. m
        BY <2>6, <3>4
      <4>2. PICK b \in 1 .. Len(L) : b <= k /\ L[b] = kbCalls[j][2]
                /\ \A i \in 1 .. m : i < j => \E a \in 1 .. Len(L) : a <= b /\ L[a] = kbCalls[i][2]
        BY <3>2, <4>1
      <4>3. L[b] = kbCalls'[j][2]
        BY <2>6, <4>1, <4>2
      <4>4. \A i \in 1 .. m + 1 : i < j => \E a \in 1 .. Len(L) : a <= b /\ L[a] = kbCalls'[i][2]
        BY <2>6, <4>1, <4>2
      <4> QED BY <4>2, <4>3, <4>4
    <3> QED BY <3>3, <3>4
  <2> QED BY <1>3, <2>8, <2>9, <2>10
<1>8. CASE MarkMessage \/ NotAnEvent
  <2>1. kbMark' = kbMark + 1 /\ kbReader' = [Off EXCEPT !.pc = "idle"] /\ UNCHANGED <<kbTried, kbCalls>>
    BY <1>8 DEF MarkMessage, NotAnEvent
  <2>2. KbTypes' /\ ReaderFits'
    BY <1>1, <1>4, <2>1, OffFields DEF KbTypes, ReaderFits
  <2>3. kbMark < Len(kbPipe.log) /\ Done(kbPipe.log[kbMark + 1]) /\ \A i \in 1 .. kbMark : Done(kbPipe.log[i])
    <3>1. CASE MarkMessage
      BY <3>1 DEF MarkFits, MarkMessage
    <3>2. CASE NotAnEvent
      <4>1. kbReader.pc = "lookup" /\ kbPipe.log[kbMark + 1] \notin BusEvents /\ kbMark < Len(kbPipe.log)
        BY <3>2 DEF MarkFits, NotAnEvent, Message0
      <4>2. kbMark + 1 \in 1 .. Len(kbPipe.log)
        BY <1>2, <4>1
      <4>3. kbPipe.log[kbMark + 1] \in Carried
        BY <1>2, <4>2
      <4> QED BY <4>1, <4>3 DEF MarkFits, Done, Carried
    <3> QED BY <1>8, <3>1, <3>2
  <2>4. \A i \in 1 .. kbMark + 1 : i \in 1 .. kbMark \/ i = kbMark + 1
    BY <1>2
  <2>5. kbMark' \in Nat /\ kbMark <= kbMark' /\ kbMark' <= Len(kbPipe.log)
    BY <1>2, <2>1, <2>3
  <2>6. MarkFits'
    BY <1>1, <2>1, <2>3, <2>4, <2>5, OffFields DEF MarkFits, Done
  <2>7. kbPipe' \in PipeType /\ LogKept(kbPipe, kbPipe')
    BY <1>1, SamePipe
  <2>8. CallsPlaced'
    BY <2>1, <2>5, <2>7, CallsStayPlaced
  <2> QED BY <1>3, <2>2, <2>6, <2>8
<1> QED BY <1>5, <1>6, <1>7, <1>8

LEMMA KbStep == KbIInv /\ [KbNext]_kbVars => KbIInv'
<1> SUFFICES ASSUME KbIInv, [KbNext]_kbVars PROVE KbIInv'
  OBVIOUS
<1>1. CASE UNCHANGED kbVars
  BY <1>1 DEF kbVars, KbIInv, KbTypes, ReaderFits, MarkFits, Done, CallsPlaced, At, StoppedIsQuiet
<1> QED BY <1>1, StartAndStopMove, PublishMoves, ProducerMoves, ForeignMoves, ReaderEnds, SubscribeMoves, UnsubscribeMoves,
        MessagesAreHandled DEF KbNext

LEMMA FirstCallsHold == KbIInv => FirstCallsInOrder
<1> SUFFICES ASSUME KbIInv, NEW h \in BusHandlers, NEW i \in DOMAIN kbCalls, NEW j \in DOMAIN kbCalls,
                    i < j, kbCalls[i][1] = h, kbCalls[j][1] = h, \A k \in 1 .. (j - 1) : kbCalls[k] # kbCalls[j]
             PROVE  \E a, b \in DOMAIN kbPipe.log : a < b /\ kbPipe.log[a] = kbCalls[i][2] /\ kbPipe.log[b] = kbCalls[j][2]
  BY DEF FirstCallsInOrder
<1>1. kbCalls \in Seq(BusHandlers \X Carried) /\ DOMAIN kbCalls = 1 .. Len(kbCalls) /\ Len(kbCalls) \in Nat
      /\ DOMAIN kbPipe.log = 1 .. Len(kbPipe.log) /\ Len(kbPipe.log) \in Nat
  BY PipeFields DEF KbIInv, KbTypes
<1>2. PICK b \in 1 .. Len(kbPipe.log) :
         /\ kbPipe.log[b] = kbCalls[j][2]
         /\ \A x \in 1 .. Len(kbCalls) : x < j => \E a \in 1 .. Len(kbPipe.log) : a <= b /\ kbPipe.log[a] = kbCalls[x][2]
  BY <1>1 DEF KbIInv, CallsPlaced, At
<1>3. PICK a \in 1 .. Len(kbPipe.log) : a <= b /\ kbPipe.log[a] = kbCalls[i][2]
  BY <1>1, <1>2
<1>4. a # b
  <2> SUFFICES ASSUME a = b PROVE FALSE
    OBVIOUS
  <2>1. kbCalls[i] \in BusHandlers \X Carried /\ kbCalls[j] \in BusHandlers \X Carried
    BY <1>1
  <2>2. kbCalls[i][2] = kbCalls[j][2]
    BY <1>2, <1>3
  <2>3. kbCalls[i] = kbCalls[j]
    BY <2>1, <2>2
  <2>4. i \in 1 .. (j - 1)
    BY <1>1
  <2> QED BY <2>3, <2>4
<1>5. a < b
  BY <1>1, <1>3, <1>4
<1> QED BY <1>1, <1>2, <1>3, <1>5

----------------------------------------------------------------------------
(***************************************************************************)
(* The optimized bus, and the outbox's publisher.                          *)
(***************************************************************************)
\* The batch is what follows the mark in the log.
ObIInv ==
    /\ obPipe \in PipeType /\ obMark \in Nat /\ obBatch \in Seq(Carried)
    /\ obMark + Len(obBatch) <= Len(obPipe.log)
    /\ \A k \in 1 .. Len(obBatch) : obBatch[k] = obPipe.log[obMark + k]
    /\ \A i \in 1 .. obMark : obPipe.log[i] \in obTried
KpIInv ==
    /\ kpPipe \in PipeType /\ kpRows \in [OutboxRows -> {"pending", "processed", "failed"}]
    /\ \A r \in OutboxRows : kpRows[r] = "processed" <=> r \in Accepted(kpPipe)

LEMMA ObStarts == ObInit => ObIInv
<1> SUFFICES ASSUME ObInit PROVE ObIInv
  OBVIOUS
<1>1. obPipe \in PipeType /\ Len(obPipe.log) = 0 /\ obMark = 0 /\ obBatch = <<>>
  BY NewPipe DEF ObInit, Open
<1>2. <<>> \in Seq(Carried) /\ Len(<<>>) = 0
  OBVIOUS
<1> QED BY <1>1, <1>2 DEF ObIInv

\* The log may grow, and the batch is kept or given up.
LEMMA ObKept ==
    ASSUME ObIInv, obPipe' \in PipeType, LogKept(obPipe, obPipe'), obMark' = obMark, obTried' = obTried,
           obBatch' = obBatch \/ obBatch' = <<>>
    PROVE  ObIInv'
<1> USE DEF ObIInv
<1>1. Len(obPipe.log) \in Nat /\ Len(obPipe'.log) \in Nat /\ Len(obPipe.log) <= Len(obPipe'.log)
      /\ (\A i \in 1 .. Len(obPipe.log) : obPipe'.log[i] = obPipe.log[i]) /\ Len(obBatch) \in Nat
  BY PipeFields DEF LogKept
<1>2. (\A i \in 1 .. obMark : i \in 1 .. Len(obPipe.log)) /\ \A k \in 1 .. Len(obBatch) : obMark + k \in 1 .. Len(obPipe.log)
  BY <1>1
<1>3. \A i \in 1 .. obMark' : obPipe'.log[i] \in obTried'
  BY <1>1, <1>2
<1>4. obBatch' \in Seq(Carried) /\ obMark' + Len(obBatch') <= Len(obPipe'.log)
  <2>1. <<>> \in Seq(Carried) /\ Len(<<>>) = 0
    OBVIOUS
  <2>2. CASE obBatch' = obBatch
    BY <1>1, <2>2
  <2>3. CASE obBatch' = <<>>
    <3>1. obBatch' \in Seq(Carried) /\ Len(obBatch') = 0
      BY <2>1, <2>3
    <3> QED BY <1>1, <3>1
  <2> QED BY <2>2, <2>3
<1>5. \A k \in 1 .. Len(obBatch') : obBatch'[k] = obPipe'.log[obMark' + k]
  <2>1. CASE obBatch' = obBatch
    BY <1>1, <1>2, <2>1
  <2>2. CASE obBatch' = <<>>
    <3>1. Len(obBatch') = 0
      BY <2>2
    <3> QED BY <3>1
  <2> QED BY <2>1, <2>2
<1> QED BY <1>3, <1>4, <1>5

LEMMA Unchanged == ASSUME NEW p \in PipeType PROVE LogKept(p, p)
<1>1. Len(p.log) \in Nat
  BY PipeFields
<1> QED BY <1>1 DEF LogKept

\* A message that a producer gives up, or that never reached it.
LEMMA LostIsKept ==
    ASSUME NEW p \in PipeType, NEW e \in Carried
    PROVE  /\ [p EXCEPT !.lost = p.lost \union {e}] \in PipeType /\ LogKept(p, [p EXCEPT !.lost = p.lost \union {e}])
           /\ p.input # <<>> => /\ [p EXCEPT !.input = Tail(p.input), !.lost = p.lost \union {e}] \in PipeType
                                /\ LogKept(p, [p EXCEPT !.input = Tail(p.input), !.lost = p.lost \union {e}])
<1>1. Len(p.log) \in Nat /\ p.lost \union {e} \in SUBSET Carried
  BY PipeFields
<1> DEFINE q == [p EXCEPT !.lost = p.lost \union {e}]  x == [p EXCEPT !.input = Tail(p.input), !.lost = p.lost \union {e}]
<1>2. q.log = p.log /\ x.log = p.log
  BY DEF PipeType
<1>3. q \in PipeType
  BY <1>1 DEF PipeType
<1>4. p.input # <<>> => x \in PipeType
  BY <1>1, InputSplits DEF PipeType
<1> HIDE DEF q, x
<1>5. LogKept(p, q) /\ LogKept(p, x)
  BY <1>1, <1>2 DEF LogKept
<1> QED BY <1>3, <1>4, <1>5 DEF q, x

LEMMA ObProducerMoves ==
    ASSUME ObIInv, (\E e \in BusEvents : PublishBatch(e)) \/ ObBrokerAnswers \/ Setup \/ CloseOptimized
    PROVE  ObIInv'
<1>1. obPipe \in PipeType
  BY DEF ObIInv
<1>2. UNCHANGED <<obMark, obTried>> /\ (obBatch' = obBatch \/ obBatch' = <<>>)
  BY DEF PublishBatch, ObBrokerAnswers, Setup, CloseOptimized
<1>3. obPipe' \in PipeType /\ LogKept(obPipe, obPipe')
  <2>1. ASSUME NEW e \in BusEvents, PublishBatch(e) PROVE obPipe' \in PipeType /\ LogKept(obPipe, obPipe')
    <3>1. obPipe' = Put(obPipe, Plain(e)) \/ obPipe' = [obPipe EXCEPT !.lost = obPipe.lost \union {e}] \/ obPipe' = Crashed(obPipe)
      BY <2>1 DEF PublishBatch
    <3>2. Plain(e) \in Message /\ e \in Carried
      BY DEF Plain, Message, Carried
    <3> QED BY <1>1, <3>1, <3>2, PutKeeps, LostIsKept, CrashKeeps
  <2>2. CASE ObBrokerAnswers
    <3> DEFINE e == Head(obPipe.input).event
    <3>1. obPipe.input # <<>> /\ (obPipe' = Sent(obPipe) \/ obPipe' = [obPipe EXCEPT !.input = Tail(obPipe.input), !.lost = obPipe.lost \union {e}])
      BY <2>2 DEF ObBrokerAnswers
    <3>2. e \in Carried
      BY <1>1, <3>1, InputSplits, MessageFields
    <3> HIDE DEF e
    <3> QED BY <1>1, <3>1, <3>2, BrokerKeeps, LostIsKept
  <2>3. CASE Setup
    BY <1>1, <2>3, Unchanged, CrashKeeps DEF Setup
  <2>4. CASE CloseOptimized
    BY <1>1, <2>4, CloseKeeps DEF CloseOptimized
  <2> QED BY <2>1, <2>2, <2>3, <2>4
<1> QED BY <1>2, <1>3, ObKept

LEMMA ObReaderMoves == ASSUME ObIInv, BatchTimer \/ ClaimClosed \/ SessionDone \/ ObCrash \/ ObReboot PROVE ObIInv'
<1>1. obPipe \in PipeType
  BY DEF ObIInv
<1>2. UNCHANGED <<obMark, obTried>> /\ (obBatch' = obBatch \/ obBatch' = <<>>)
  BY DEF BatchTimer, ClaimClosed, SessionDone, ObCrash, ObReboot
<1>3. obPipe' \in PipeType /\ LogKept(obPipe, obPipe')
  <2>1. CASE BatchTimer \/ ClaimClosed \/ SessionDone
    BY <1>1, <2>1, Unchanged DEF BatchTimer, ClaimClosed, SessionDone
  <2>2. CASE ObCrash
    BY <1>1, <2>2, CrashKeeps DEF ObCrash
  <2>3. CASE ObReboot
    <3>1. obPipe' = [obPipe EXCEPT !.open = TRUE]
      BY <2>3 DEF ObReboot
    <3>2. obPipe' \in PipeType /\ obPipe'.log = obPipe.log
      BY <1>1, <3>1 DEF PipeType
    <3>3. Len(obPipe.log) \in Nat
      BY <1>1, PipeFields
    <3> QED BY <3>2, <3>3 DEF LogKept
  <2> QED BY <2>1, <2>2, <2>3
<1> QED BY <1>2, <1>3, ObKept

LEMMA CollectMoves0 == ASSUME ObIInv, Collect PROVE ObIInv'
<1> USE DEF ObIInv
<1>1. obBatch' = Append(obBatch, obPipe.log[obMark + Len(obBatch) + 1]) /\ obMark + Len(obBatch) < Len(obPipe.log)
      /\ UNCHANGED <<obPipe, obMark, obTried>>
  BY DEF Collect, Fetched
<1>2. Len(obPipe.log) \in Nat /\ Len(obBatch) \in Nat /\ obPipe.log \in Seq(Carried)
  BY PipeFields
<1>3. obMark + Len(obBatch) + 1 \in 1 .. Len(obPipe.log)
  BY <1>1, <1>2
<1>4. obPipe.log[obMark + Len(obBatch) + 1] \in Carried
  BY <1>2, <1>3
<1>5. obBatch' \in Seq(Carried) /\ Len(obBatch') = Len(obBatch) + 1
      /\ \A k \in 1 .. Len(obBatch) + 1 : obBatch'[k] = IF k = Len(obBatch) + 1 THEN obPipe.log[obMark + Len(obBatch) + 1] ELSE obBatch[k]
  BY <1>1, <1>4
<1>6. \A k \in 1 .. Len(obBatch) + 1 : k = Len(obBatch) + 1 \/ k \in 1 .. Len(obBatch)
  BY <1>2
<1>7. obMark + (Len(obBatch) + 1) = obMark + Len(obBatch) + 1
  BY <1>2
<1>8. \A k \in 1 .. Len(obBatch') : obBatch'[k] = obPipe'.log[obMark' + k]
  BY <1>1, <1>5, <1>6, <1>7
<1>9. obMark' + Len(obBatch') <= Len(obPipe'.log)
  BY <1>1, <1>2, <1>5
<1> QED BY <1>1, <1>5, <1>8, <1>9

LEMMA ProcessMoves == ASSUME ObIInv, ProcessMessage PROVE ObIInv'
<1> USE DEF ObIInv
<1> DEFINE e == Head(obBatch)
<1>1. obBatch # <<>> /\ obTried' = obTried \union {e}
  BY DEF ProcessMessage
<1>2. Len(obPipe.log) \in Nat /\ Len(obBatch) \in Nat /\ Len(obBatch) >= 1 /\ e = obBatch[1] /\ Tail(obBatch) \in Seq(Carried)
      /\ Len(Tail(obBatch)) = Len(obBatch) - 1 /\ \A k \in 1 .. Len(obBatch) - 1 : Tail(obBatch)[k] = obBatch[k + 1]
  BY <1>1, PipeFields
<1>3. e = obPipe.log[obMark + 1] /\ obMark + 1 \in 1 .. Len(obPipe.log) /\ e \in Carried
  BY <1>2
<1> HIDE DEF e
<1>4. CASE obBatch' = <<>> /\ UNCHANGED <<obPipe, obMark>>
  <2>1. <<>> \in Seq(Carried) /\ Len(<<>>) = 0
    OBVIOUS
  <2>2. obMark' + Len(obBatch') <= Len(obPipe'.log) /\ obBatch' \in Seq(Carried)
    BY <1>2, <1>4, <2>1
  <2>3. \A k \in 1 .. Len(obBatch') : obBatch'[k] = obPipe'.log[obMark' + k]
    BY <1>4, <2>1
  <2> QED BY <1>1, <1>4, <2>2, <2>3
<1>5. CASE MarkNext /\ obPipe' \in PipeType /\ LogKept(obPipe, obPipe')
  <2>1. obBatch' = Tail(obBatch) /\ obMark' = obMark + 1
    BY <1>5 DEF MarkNext
  <2>2. Len(obPipe'.log) \in Nat /\ Len(obPipe.log) <= Len(obPipe'.log) /\ \A i \in 1 .. Len(obPipe.log) : obPipe'.log[i] = obPipe.log[i]
    BY <1>5, PipeFields DEF LogKept
  <2>3. obMark' \in Nat /\ obBatch' \in Seq(Carried)
    BY <1>2, <2>1
  <2>4. obMark' + Len(obBatch') <= Len(obPipe'.log)
    BY <1>2, <2>1, <2>2
  <2>5. \A i \in 1 .. obMark + 1 : i \in 1 .. Len(obPipe.log) /\ (i \in 1 .. obMark \/ i = obMark + 1)
    BY <1>2
  <2>6. \A i \in 1 .. obMark' : obPipe'.log[i] \in obTried'
    BY <1>1, <1>3, <2>1, <2>2, <2>5
  <2>7. \A k \in 1 .. Len(obBatch) - 1 : k + 1 \in 1 .. Len(obBatch) /\ obMark + (k + 1) \in 1 .. Len(obPipe.log) /\ obMark + (k + 1) = (obMark + 1) + k
    BY <1>2
  <2>8. \A k \in 1 .. Len(obBatch) - 1 : Tail(obBatch)[k] = obPipe.log[(obMark + 1) + k] /\ (obMark + 1) + k \in 1 .. Len(obPipe.log)
    BY <1>2, <2>7
  <2>9. \A k \in 1 .. Len(obBatch') : obBatch'[k] = obPipe'.log[obMark' + k]
    BY <1>2, <2>1, <2>2, <2>8
  <2> QED BY <1>5, <2>3, <2>4, <2>6, <2>9
<1>6. (obBatch' = <<>> /\ UNCHANGED <<obPipe, obMark>>) \/ (MarkNext /\ obPipe' \in PipeType /\ LogKept(obPipe, obPipe'))
  <2>1. Plain(e) \in Message
    BY <1>3 DEF Plain, Message, Carried
  <2>2. sendToDeadLetterQueue(obPipe, Plain(e), TRUE) \in PipeType /\ LogKept(obPipe, sendToDeadLetterQueue(obPipe, Plain(e), TRUE))
    BY <2>1, DeadLetterKeeps
  <2>3. obPipe \in PipeType /\ LogKept(obPipe, obPipe)
    BY Unchanged
  <2> QED BY <2>2, <2>3 DEF ProcessMessage, e
<1> QED BY <1>4, <1>5, <1>6

LEMMA ObStep == ObIInv /\ [ObNext]_obVars => ObIInv'
<1> SUFFICES ASSUME ObIInv, [ObNext]_obVars PROVE ObIInv'
  OBVIOUS
<1>1. CASE UNCHANGED obVars
  BY <1>1 DEF obVars, ObIInv
<1> QED BY <1>1, ObProducerMoves, ObReaderMoves, CollectMoves0, ProcessMoves DEF ObNext

LEMMA KpStarts == KpInit => KpIInv
BY NewPipe DEF KpInit, KpIInv

LEMMA KpStep == KpIInv /\ [KpNext]_kpVars => KpIInv'
<1> SUFFICES ASSUME KpIInv, [KpNext]_kpVars PROVE KpIInv'
  OBVIOUS
<1> USE DEF KpIInv
<1>1. CASE UNCHANGED kpVars
  BY <1>1 DEF kpVars
<1>2. ASSUME NEW r \in OutboxRows, KpPublish(r) PROVE KpIInv'
  <2>1. CASE kpPipe' = Put(kpPipe, Plain(r)) /\ kpRows' = [kpRows EXCEPT ![r] = "processed"]
    <3>1. Plain(r) \in Message /\ Plain(r).event = r
      BY DEF Plain, Message
    <3>2. kpPipe' \in PipeType /\ Accepted(kpPipe') = Accepted(kpPipe) \union {r}
      BY <2>1, <3>1, PutKeeps
    <3> QED BY <2>1, <3>2
  <2>2. CASE kpPipe' = kpPipe /\ kpRows' = [kpRows EXCEPT ![r] = "failed"] /\ kpRows[r] = "pending"
    BY <2>2
  <2>3. CASE kpPipe' = Crashed(kpPipe) /\ kpRows' = kpRows
    BY <2>3, CrashKeeps
  <2> QED BY <1>2, <2>1, <2>2, <2>3 DEF KpPublish
<1>3. ASSUME KpBrokerAnswers \/ handleProducerMessages \/ KpClose \/ KpRestart PROVE KpIInv'
  <2>1. kpPipe' \in PipeType /\ Accepted(kpPipe') = Accepted(kpPipe)
    <3>1. CASE KpBrokerAnswers
      BY <3>1, BrokerKeeps DEF KpBrokerAnswers
    <3>2. CASE handleProducerMessages
      <4>1. PICK m \in kpPipe.failed : kpPipe' = sendToDeadLetterQueue(kpPipe, m, TRUE) \/ kpPipe' = Crashed(kpPipe)
        BY <3>2 DEF handleProducerMessages
      <4>2. m \in Message
        BY PipeFields
      <4>3. CASE kpPipe' = Crashed(kpPipe)
        BY <4>3, CrashKeeps
      <4>4. CASE kpPipe' = sendToDeadLetterQueue(kpPipe, m, TRUE)
        BY <4>2, <4>4, DeadLetterKeeps
      <4> QED BY <4>1, <4>3, <4>4
    <3>3. CASE KpClose
      BY <3>3, CloseKeeps DEF KpClose
    <3>4. CASE KpRestart
      <4> DEFINE p == Crashed(kpPipe)  q == [p EXCEPT !.open = TRUE]
      <4>1. p \in PipeType /\ Accepted(p) = Accepted(kpPipe) /\ kpPipe' = q
        BY <3>4, CrashKeeps DEF KpRestart
      <4> HIDE DEF p
      <4>2. q \in PipeType /\ q.input = p.input /\ q.failed = p.failed /\ q.log = p.log /\ q.dead = p.dead /\ q.lost = p.lost
        BY <4>1 DEF PipeType
      <4>3. Accepted(q) = Accepted(p)
        BY <4>2 DEF Accepted, Held, Logged
      <4> QED BY <4>1, <4>2, <4>3
    <3> QED BY <1>3, <3>1, <3>2, <3>3, <3>4
  <2>2. kpRows' = kpRows
    BY <1>3 DEF KpBrokerAnswers, handleProducerMessages, KpClose, KpRestart
  <2> QED BY <2>1, <2>2
<1> QED BY <1>1, <1>2, <1>3 DEF KpNext

LEMMA BusesAreSafe == KbIInv /\ ObIInv /\ KpIInv => KafkaSafety
<1>1. KbIInv /\ ObIInv => StoppedIsQuiet /\ MarkedWasTried /\ FirstCallsInOrder
  BY FirstCallsHold DEF KbIInv, ObIInv, MarkFits, Done, MarkedWasTried
<1>2. KpIInv => ProcessedWasAccepted
  BY DEF KpIInv, Accepted, ProcessedWasAccepted
<1> QED BY <1>1, <1>2 DEF KafkaSafety

----------------------------------------------------------------------------
(***************************************************************************)
(* The audit log.                                                          *)
(***************************************************************************)
TaskPlaces == {"idle", "flush", "store"}
AlTypes ==
    /\ alBuffer \in Seq(AuditEvents) /\ alLogged \subseteq AuditEvents /\ alPhase \in {"up", "stopping", "closed"}
    /\ alTask \in [AuditTasks -> [at : TaskPlaces, events : Seq(AuditEvents), again : BOOLEAN]]
    /\ alRows \in Seq([event : AuditEvents, timestamp : Int, signature : Int])
    /\ alEarly \subseteq alLogged /\ alLost \subseteq alLogged
RowsAreSigned == \A i \in 1 .. Len(alRows) : alRows[i] = AuditRow(alRows[i].event)
\* Whether an event is in a sequence, and whether nothing is in it twice.
In(e, seq) == \E i \in 1 .. Len(seq) : seq[i] = e
Once(seq) == \A i, j \in 1 .. Len(seq) : seq[i] = seq[j] => i = j
RowFor(e) == \E i \in 1 .. Len(alRows) : alRows[i].event = e
InTask(e) == \E t \in AuditTasks : In(e, alTask[t].events)
\* Every place has an event once, and the places have none in common.
AlPlaces ==
    /\ Once(alBuffer) /\ \A i, j \in 1 .. Len(alRows) : alRows[i].event = alRows[j].event => i = j
    /\ \A t \in AuditTasks : Once(alTask[t].events) /\ (alTask[t].at # "store" => alTask[t].events = <<>>)
    /\ \A t, u \in AuditTasks : \A e \in AuditEvents : In(e, alTask[t].events) /\ In(e, alTask[u].events) => t = u
    /\ \A e \in AuditEvents :
          /\ e \in alLogged <=> In(e, alBuffer) \/ InTask(e) \/ RowFor(e) \/ e \in alLost
          /\ In(e, alBuffer) => ~InTask(e) /\ ~RowFor(e) /\ e \notin alLost
          /\ InTask(e) => ~RowFor(e) /\ e \notin alLost
          /\ RowFor(e) => e \notin alLost
EarlyIsStored == alPhase = "closed" /\ alTask[Flusher].at # "flush" => \A e \in alEarly : ~In(e, alBuffer)
AlIInv == AlTypes /\ RowsAreSigned /\ AlPlaces /\ EarlyIsStored

LEMMA IdleTaskFields ==
    IdleTask \in [at : TaskPlaces, events : Seq(AuditEvents), again : BOOLEAN] /\ IdleTask.at = "idle" /\ IdleTask.events = <<>>
<1>1. <<>> \in Seq(AuditEvents)
  OBVIOUS
<1> QED BY <1>1 DEF IdleTask, TaskPlaces

LEMMA NothingIn == (\A e : ~In(e, <<>>)) /\ Once(<<>>)
<1>1. Len(<<>>) = 0
  OBVIOUS
<1> QED BY <1>1 DEF In, Once

LEMMA AddedOne ==
    ASSUME NEW S, NEW seq \in Seq(S), NEW x \in S
    PROVE  /\ \A e : In(e, Append(seq, x)) <=> In(e, seq) \/ e = x
           /\ Once(seq) /\ ~In(x, seq) => Once(Append(seq, x))
<1> DEFINE n == Len(seq)  new == Append(seq, x)
<1>1. n \in Nat /\ Len(new) = n + 1 /\ \A i \in 1 .. n + 1 : new[i] = IF i = n + 1 THEN x ELSE seq[i]
  OBVIOUS
<1> HIDE DEF n, new
<1>2. \A i \in 1 .. n + 1 : i = n + 1 \/ i \in 1 .. n
  BY <1>1
<1>3. n + 1 \in 1 .. n + 1 /\ \A i \in 1 .. n : i \in 1 .. n + 1 /\ i # n + 1
  BY <1>1
<1>4. \A e : In(e, new) <=> In(e, seq) \/ e = x
  BY <1>1, <1>2, <1>3 DEF In, n
<1>5. Once(seq) /\ ~In(x, seq) => Once(new)
  BY <1>1, <1>2, <1>3 DEF Once, In, n
<1> QED BY <1>4, <1>5 DEF new

LEMMA JoinedTwo ==
    ASSUME NEW S, NEW seq \in Seq(S), NEW more \in Seq(S)
    PROVE  /\ \A e : In(e, seq \o more) <=> In(e, seq) \/ In(e, more)
           /\ Once(seq) /\ Once(more) /\ (\A e \in S : ~(In(e, seq) /\ In(e, more))) => Once(seq \o more)
<1> DEFINE n == Len(seq)  m == Len(more)  new == seq \o more
<1>1. n \in Nat /\ m \in Nat /\ Len(new) = n + m /\ \A i \in 1 .. n + m : new[i] = IF i <= n THEN seq[i] ELSE more[i - n]
  BY ConcatProperties
<1>2. (\A i \in 1 .. n : seq[i] \in S) /\ \A i \in 1 .. m : more[i] \in S
  OBVIOUS
<1>3. (\A i \in 1 .. n : In(seq[i], seq)) /\ \A i \in 1 .. m : In(more[i], more)
  BY DEF In
<1>4. (\A e : In(e, seq) <=> \E i \in 1 .. n : seq[i] = e) /\ (\A e : In(e, more) <=> \E i \in 1 .. m : more[i] = e)
  BY DEF In
<1>5. (Once(seq) <=> \A i, j \in 1 .. n : seq[i] = seq[j] => i = j) /\ (Once(more) <=> \A i, j \in 1 .. m : more[i] = more[j] => i = j)
  BY DEF Once
<1> HIDE DEF n, m, new
<1>6. \A i \in 1 .. n : i \in 1 .. n + m /\ i <= n
  BY <1>1
<1>7. \A i \in 1 .. m : n + i \in 1 .. n + m /\ ~(n + i <= n) /\ (n + i) - n = i
  BY <1>1
<1>8. \A i \in 1 .. n + m : (i <= n /\ i \in 1 .. n) \/ (~(i <= n) /\ i - n \in 1 .. m)
  BY <1>1
<1>9. \A i \in 1 .. m : new[n + i] = more[i]
  BY <1>1, <1>7
<1>10. \A e : In(e, new) <=> In(e, seq) \/ In(e, more)
  <2>1. \A e : In(e, new) <=> \E i \in 1 .. n + m : new[i] = e
    BY <1>1 DEF In
  <2> TAKE e
  <2>2. ASSUME In(e, seq) PROVE In(e, new)
    BY <1>1, <1>4, <1>6, <2>1, <2>2
  <2>3. ASSUME In(e, more) PROVE In(e, new)
    BY <1>4, <1>7, <1>9, <2>1, <2>3
  <2>4. ASSUME In(e, new) PROVE In(e, seq) \/ In(e, more)
    <3>1. PICK i \in 1 .. n + m : new[i] = e
      BY <2>1, <2>4
    <3> QED BY <1>1, <1>4, <1>8, <3>1
  <2> QED BY <2>2, <2>3, <2>4
<1>11. ASSUME Once(seq), Once(more), \A e \in S : ~(In(e, seq) /\ In(e, more)) PROVE Once(new)
  <2> SUFFICES ASSUME NEW i \in 1 .. n + m, NEW j \in 1 .. n + m, new[i] = new[j] PROVE i = j
    BY <1>1 DEF Once
  <2>1. CASE i <= n /\ j <= n
    <3>1. seq[i] = seq[j] /\ i \in 1 .. n /\ j \in 1 .. n
      BY <1>1, <1>8, <2>1
    <3> QED BY <1>5, <1>11, <3>1
  <2>2. CASE ~(i <= n) /\ ~(j <= n)
    <3>1. more[i - n] = more[j - n] /\ i - n \in 1 .. m /\ j - n \in 1 .. m
      BY <1>1, <1>8, <2>2
    <3>2. i - n = j - n
      BY <1>5, <1>11, <3>1
    <3> QED BY <1>1, <3>2
  <2>3. CASE i <= n /\ ~(j <= n)
    <3>1. seq[i] = more[j - n] /\ i \in 1 .. n /\ j - n \in 1 .. m
      BY <1>1, <1>8, <2>3
    <3> QED BY <1>2, <1>3, <1>11, <3>1
  <2>4. CASE ~(i <= n) /\ j <= n
    <3>1. more[i - n] = seq[j] /\ j \in 1 .. n /\ i - n \in 1 .. m
      BY <1>1, <1>8, <2>4
    <3> QED BY <1>2, <1>3, <1>11, <3>1
  <2> QED BY <2>1, <2>2, <2>3, <2>4
<1> QED BY <1>10, <1>11 DEF new

LEMMA AlStarts == AlInit => AlIInv
<1> SUFFICES ASSUME AlInit PROVE AlIInv
  OBVIOUS
<1>1. alBuffer = <<>> /\ alRows = <<>> /\ alLogged = {} /\ alEarly = {} /\ alLost = {} /\ alPhase = "up" /\ alTask = [t \in AuditTasks |-> IdleTask]
  BY DEF AlInit
<1>2. <<>> \in Seq(AuditEvents) /\ <<>> \in Seq([event : AuditEvents, timestamp : Int, signature : Int]) /\ Len(<<>>) = 0
  OBVIOUS
<1>3. AlTypes
  BY <1>1, <1>2, IdleTaskFields DEF AlTypes
<1>4. \A t \in AuditTasks : alTask[t].events = <<>>
  BY <1>1, IdleTaskFields
<1>5. RowsAreSigned /\ \A e : ~RowFor(e)
  BY <1>1, <1>2 DEF RowsAreSigned, RowFor
<1>6. \A e : ~InTask(e)
  BY <1>4, NothingIn DEF InTask
<1>7. AlPlaces
  <2>1. \A t \in AuditTasks : Once(alTask[t].events)
    BY <1>4, NothingIn
  <2>2. \A t \in AuditTasks : \A e \in AuditEvents : ~In(e, alTask[t].events)
    BY <1>4, NothingIn
  <2> QED BY <1>1, <1>2, <1>4, <1>5, <1>6, <2>1, <2>2, NothingIn DEF AlPlaces
<1>8. EarlyIsStored
  BY <1>1 DEF EarlyIsStored
<1> QED BY <1>3, <1>5, <1>7, <1>8 DEF AlIInv

\* An event more is in memory; the task of who logged it only begins to flush.
LEMMA EventIsLogged == ASSUME AlIInv, NEW c \in AuditCallers, NEW e \in AuditEvents, LogEvent(c, e) PROVE AlIInv'
<1> USE DEF AlIInv
<1>1. e \notin alLogged /\ alBuffer' = Append(alBuffer, e) /\ alLogged' = alLogged \cup {e} /\ UNCHANGED <<alRows, alPhase, alLost>>
      /\ alEarly' = (IF alPhase = "up" THEN alEarly \cup {e} ELSE alEarly) /\ alTask[c].at = "idle" /\ c \in AuditTasks
  BY DEF LogEvent, AuditTasks
<1>2. alTask' = alTask \/ \E again \in BOOLEAN : alTask' = [alTask EXCEPT ![c] = [alTask[c] EXCEPT !.at = "flush", !.again = again]]
  BY DEF LogEvent
<1>3. /\ alTask' \in [AuditTasks -> [at : TaskPlaces, events : Seq(AuditEvents), again : BOOLEAN]]
      /\ \A t \in AuditTasks : /\ alTask'[t].events = alTask[t].events
                               /\ alTask'[t].at = alTask[t].at \/ (alTask'[t].at = "flush" /\ alTask[t].at = "idle")
  <2>1. CASE alTask' = alTask
    BY <2>1 DEF AlTypes
  <2>2. ASSUME NEW again \in BOOLEAN, alTask' = [alTask EXCEPT ![c] = [alTask[c] EXCEPT !.at = "flush", !.again = again]]
        PROVE  /\ alTask' \in [AuditTasks -> [at : TaskPlaces, events : Seq(AuditEvents), again : BOOLEAN]]
               /\ \A t \in AuditTasks : /\ alTask'[t].events = alTask[t].events
                                        /\ alTask'[t].at = alTask[t].at \/ (alTask'[t].at = "flush" /\ alTask[t].at = "idle")
    <3> DEFINE new == [alTask[c] EXCEPT !.at = "flush", !.again = again]
    <3>1. new \in [at : TaskPlaces, events : Seq(AuditEvents), again : BOOLEAN] /\ new.events = alTask[c].events /\ new.at = "flush"
      BY <1>1 DEF AlTypes, TaskPlaces
    <3> HIDE DEF new
    <3> QED BY <1>1, <2>2, <3>1 DEF AlTypes, new
  <2> QED BY <1>2, <2>1, <2>2
<1>4. alBuffer \in Seq(AuditEvents) /\ Append(alBuffer, e) \in Seq(AuditEvents)
  BY DEF AlTypes
<1>5. ~In(e, alBuffer) /\ ~InTask(e) /\ ~RowFor(e) /\ e \notin alLost
  BY <1>1 DEF AlPlaces
<1>6. (\A f : In(f, alBuffer') <=> In(f, alBuffer) \/ f = e) /\ Once(alBuffer')
  BY <1>1, <1>4, <1>5, AddedOne DEF AlPlaces
<1>7. \A f : (InTask(f)' <=> InTask(f)) /\ (RowFor(f)' <=> RowFor(f))
  BY <1>1, <1>3 DEF InTask, RowFor
<1>8. AlTypes'
  BY <1>1, <1>3, <1>4 DEF AlTypes
<1>9. RowsAreSigned'
  BY <1>1 DEF RowsAreSigned
<1>10. AlPlaces'
  <2>1. \A i, j \in 1 .. Len(alRows') : alRows'[i].event = alRows'[j].event => i = j
    BY <1>1 DEF AlPlaces
  <2>2. \A t \in AuditTasks : Once(alTask'[t].events) /\ (alTask'[t].at # "store" => alTask'[t].events = <<>>)
    BY <1>3 DEF AlPlaces
  <2>3. \A t, u \in AuditTasks : \A f \in AuditEvents : In(f, alTask'[t].events) /\ In(f, alTask'[u].events) => t = u
    BY <1>3 DEF AlPlaces
  <2>4. ASSUME NEW f \in AuditEvents
        PROVE  /\ f \in alLogged' <=> In(f, alBuffer') \/ InTask(f)' \/ RowFor(f)' \/ f \in alLost'
               /\ In(f, alBuffer') => ~InTask(f)' /\ ~RowFor(f)' /\ f \notin alLost'
               /\ InTask(f)' => ~RowFor(f)' /\ f \notin alLost'
               /\ RowFor(f)' => f \notin alLost'
    BY <1>1, <1>5, <1>6, <1>7 DEF AlPlaces
  <2> QED BY <1>6, <2>1, <2>2, <2>3, <2>4 DEF AlPlaces
<1>11. EarlyIsStored'
  <2> SUFFICES ASSUME alPhase' = "closed", alTask'[Flusher].at # "flush", NEW f \in alEarly' PROVE ~In(f, alBuffer')
    BY DEF EarlyIsStored
  <2>1. f \in alEarly /\ f # e /\ Flusher \in AuditTasks
    BY <1>1 DEF AlTypes, AuditTasks
  <2>2. alTask[Flusher].at # "flush"
    BY <1>3, <2>1
  <2> QED BY <1>1, <1>6, <2>1, <2>2 DEF EarlyIsStored
<1> QED BY <1>8, <1>9, <1>10, <1>11

LEMMA FlusherMoves == ASSUME AlIInv, BackgroundFlush \/ AuditClose PROVE AlIInv'
<1> USE DEF AlIInv
<1>1. UNCHANGED <<alBuffer, alRows, alLogged, alEarly, alLost>> /\ alPhase' \in {"up", "stopping", "closed"} /\ Flusher \in AuditTasks
      /\ (alTask' = alTask \/ (alTask[Flusher].at = "idle" /\ alTask' = [alTask EXCEPT ![Flusher].at = "flush"]))
  BY DEF BackgroundFlush, AuditClose, AuditTasks, AlTypes
<1>2. /\ alTask' \in [AuditTasks -> [at : TaskPlaces, events : Seq(AuditEvents), again : BOOLEAN]]
      /\ \A t \in AuditTasks : /\ alTask'[t].events = alTask[t].events
                               /\ alTask'[t].at = alTask[t].at \/ (alTask'[t].at = "flush" /\ alTask[t].at = "idle")
  <2>1. CASE alTask' = alTask
    BY <2>1 DEF AlTypes
  <2>2. CASE alTask[Flusher].at = "idle" /\ alTask' = [alTask EXCEPT ![Flusher].at = "flush"]
    <3> DEFINE new == [alTask[Flusher] EXCEPT !.at = "flush"]
    <3>1. new \in [at : TaskPlaces, events : Seq(AuditEvents), again : BOOLEAN] /\ new.events = alTask[Flusher].events /\ new.at = "flush"
      BY <1>1 DEF AlTypes, TaskPlaces
    <3>2. alTask' = [alTask EXCEPT ![Flusher] = new]
      BY <2>2
    <3> HIDE DEF new
    <3> QED BY <1>1, <2>2, <3>1, <3>2 DEF AlTypes
  <2> QED BY <1>1, <2>1, <2>2
<1>3. \A f : (InTask(f)' <=> InTask(f)) /\ (RowFor(f)' <=> RowFor(f))
  BY <1>1, <1>2 DEF InTask, RowFor
<1>4. AlTypes' /\ RowsAreSigned'
  BY <1>1, <1>2 DEF AlTypes, RowsAreSigned
<1>5. AlPlaces'
  <2>1. \A t \in AuditTasks : Once(alTask'[t].events) /\ (alTask'[t].at # "store" => alTask'[t].events = <<>>)
    BY <1>2 DEF AlPlaces
  <2>2. \A t, u \in AuditTasks : \A f \in AuditEvents : In(f, alTask'[t].events) /\ In(f, alTask'[u].events) => t = u
    BY <1>2 DEF AlPlaces
  <2> QED BY <1>1, <1>3, <2>1, <2>2 DEF AlPlaces
<1>6. EarlyIsStored'
  <2>1. CASE BackgroundFlush
    <3>1. alTask'[Flusher].at = "flush"
      BY <1>1, <2>1 DEF BackgroundFlush, AlTypes
    <3> QED BY <3>1 DEF EarlyIsStored
  <2>2. CASE AuditClose
    BY <2>2 DEF AuditClose, EarlyIsStored
  <2> QED BY <2>1, <2>2
<1> QED BY <1>4, <1>5, <1>6

LEMMA BufferIsTaken == ASSUME AlIInv, NEW t \in AuditTasks, TakeBuffer(t) PROVE AlIInv'
<1> USE DEF AlIInv
<1> DEFINE new == IF alBuffer = <<>> THEN IdleTask ELSE [alTask[t] EXCEPT !.at = "store", !.events = alBuffer]
<1>1. alTask[t].at = "flush" /\ alTask[t].events = <<>> /\ alBuffer' = <<>> /\ alTask' = [alTask EXCEPT ![t] = new]
      /\ UNCHANGED <<alRows, alPhase, alLogged, alEarly, alLost>>
  BY DEF TakeBuffer, AlPlaces
<1>2. new \in [at : TaskPlaces, events : Seq(AuditEvents), again : BOOLEAN] /\ new.events = alBuffer
      /\ (new.at # "store" => new.events = <<>>)
  BY IdleTaskFields DEF AlTypes, TaskPlaces
<1> HIDE DEF new
<1>3. alTask' \in [AuditTasks -> [at : TaskPlaces, events : Seq(AuditEvents), again : BOOLEAN]]
      /\ alTask'[t] = new /\ \A u \in AuditTasks \ {t} : alTask'[u] = alTask[u]
  BY <1>1, <1>2 DEF AlTypes
<1>4. \A f : (InTask(f)' <=> InTask(f) \/ In(f, alBuffer)) /\ (RowFor(f)' <=> RowFor(f)) /\ ~In(f, alBuffer')
  <2>1. \A f : ~In(f, alTask[t].events)
    BY <1>1, NothingIn
  <2>2. \A f : InTask(f)' <=> \E u \in AuditTasks : In(f, alTask'[u].events)
    BY DEF InTask
  <2> QED BY <1>1, <1>2, <1>3, <2>1, <2>2, NothingIn DEF InTask, RowFor
<1>5. AlTypes' /\ RowsAreSigned'
  <2>1. <<>> \in Seq(AuditEvents)
    OBVIOUS
  <2> QED BY <1>1, <1>3, <2>1 DEF AlTypes, RowsAreSigned
<1>6. AlPlaces'
  <2>1. \A u \in AuditTasks : Once(alTask'[u].events) /\ (alTask'[u].at # "store" => alTask'[u].events = <<>>)
    BY <1>2, <1>3 DEF AlPlaces
  <2>2. ASSUME NEW u \in AuditTasks, NEW v \in AuditTasks, NEW f \in AuditEvents, In(f, alTask'[u].events), In(f, alTask'[v].events)
        PROVE  u = v
    <3>1. CASE u # t /\ v # t
      BY <1>3, <2>2, <3>1 DEF AlPlaces
    <3>2. CASE u = t /\ v # t
      BY <1>2, <1>3, <2>2, <3>2 DEF AlPlaces, InTask
    <3>3. CASE u # t /\ v = t
      BY <1>2, <1>3, <2>2, <3>3 DEF AlPlaces, InTask
    <3> QED BY <3>1, <3>2, <3>3
  <2>3. \A i, j \in 1 .. Len(alRows') : alRows'[i].event = alRows'[j].event => i = j
    BY <1>1 DEF AlPlaces
  <2>4. ASSUME NEW f \in AuditEvents
        PROVE  /\ f \in alLogged' <=> In(f, alBuffer') \/ InTask(f)' \/ RowFor(f)' \/ f \in alLost'
               /\ In(f, alBuffer') => ~InTask(f)' /\ ~RowFor(f)' /\ f \notin alLost'
               /\ InTask(f)' => ~RowFor(f)' /\ f \notin alLost'
               /\ RowFor(f)' => f \notin alLost'
    BY <1>1, <1>4 DEF AlPlaces
  <2>5. Once(alBuffer')
    BY <1>1, NothingIn
  <2> QED BY <2>1, <2>2, <2>3, <2>4, <2>5 DEF AlPlaces
<1>7. EarlyIsStored'
  BY <1>4 DEF EarlyIsStored
<1> QED BY <1>5, <1>6, <1>7

LEMMA RowFields == ASSUME NEW e \in AuditEvents
    PROVE  /\ AuditRow(e) \in [event : AuditEvents, timestamp : Int, signature : Int] /\ AuditRow(e).event = e
           /\ VerifyEventIntegrity(AuditRow(e)) = (AuditTimes[e] % Micro = 0)
<1> DEFINE x == AuditTimes[e]
<1>1. x \in Nat /\ Micro \in Nat \ {0}
  BY MonitoringAssumption DEF AuditEvents
<1>2. x % Micro \in Int
  BY <1>1
<1> DEFINE y == x % Micro
<1>3. AuditRow(e) = [event |-> e, timestamp |-> x - y, signature |-> x]
  BY DEF AuditRow, CalculateSignature
<1> HIDE DEF x, y
<1>4. x - y \in Int /\ x \in Int /\ (x = x - y <=> y = 0)
  BY <1>1, <1>2 DEF y
<1>5. VerifyEventIntegrity(AuditRow(e)) = (x = x - y)
  BY <1>3 DEF VerifyEventIntegrity, CalculateSignature
<1>6. VerifyEventIntegrity(AuditRow(e)) = (y = 0)
  BY <1>4, <1>5, Zenon
<1> QED BY <1>3, <1>4, <1>6 DEF x, y

LEMMA BatchIsStored == ASSUME AlIInv, NEW t \in AuditTasks, StoreBatch(t) PROVE AlIInv'
<1> USE DEF AlIInv
<1> DEFINE old == alTask[t].events
           more == [i \in DOMAIN old |-> AuditRow(old[i])]
           Row0 == [event : AuditEvents, timestamp : Int, signature : Int]
<1>1. alTask[t].at = "store" /\ UNCHANGED <<alBuffer, alPhase, alLogged, alEarly>>
  BY DEF StoreBatch
<1>2. \/ alRows' = alRows \o more /\ alLost' = alLost
      \/ alRows' = alRows /\ alLost' = alLost \cup ToSet(old)
  BY DEF StoreBatch
<1>3. PICK new \in {IdleTask, [IdleTask EXCEPT !.at = "flush"]} : alTask' = [alTask EXCEPT ![t] = new]
  BY DEF StoreBatch
<1>4. new \in [at : TaskPlaces, events : Seq(AuditEvents), again : BOOLEAN] /\ new.events = <<>> /\ new.at # "store"
  BY <1>3, IdleTaskFields DEF TaskPlaces, IdleTask
<1>5. alTask' \in [AuditTasks -> [at : TaskPlaces, events : Seq(AuditEvents), again : BOOLEAN]]
      /\ alTask'[t].events = <<>> /\ alTask'[t].at # "store" /\ \A u \in AuditTasks \ {t} : alTask'[u] = alTask[u]
  BY <1>3, <1>4 DEF AlTypes
<1>6. old \in Seq(AuditEvents) /\ DOMAIN old = 1 .. Len(old) /\ Len(old) \in Nat /\ Once(old)
      /\ \A i \in 1 .. Len(old) : old[i] \in AuditEvents /\ In(old[i], old) /\ InTask(old[i])
  <2>1. old \in Seq(AuditEvents) /\ Once(old)
    BY DEF AlTypes, AlPlaces
  <2>2. \A i \in 1 .. Len(old) : old[i] \in AuditEvents /\ In(old[i], old)
    BY <2>1 DEF In
  <2> QED BY <2>1, <2>2 DEF InTask
<1>7. more \in Seq(Row0) /\ Len(more) = Len(old) /\ \A i \in 1 .. Len(old) : more[i] = AuditRow(old[i]) /\ more[i].event = old[i]
  <2>1. \A i \in 1 .. Len(old) : AuditRow(old[i]) \in Row0 /\ AuditRow(old[i]).event = old[i]
    BY <1>6, RowFields
  <2> HIDE DEF old, Row0
  <2>2. more \in [1 .. Len(old) -> Row0] /\ \A i \in 1 .. Len(old) : more[i] = AuditRow(old[i])
    BY <1>6, <2>1
  <2> QED BY <1>6, <2>1, <2>2, SeqDef
<1> HIDE DEF more
<1>8. alRows \in Seq(Row0)
  BY DEF AlTypes
<1> HIDE DEF Row0
<1> DEFINE n == Len(alRows)
<1>9. /\ alRows \o more \in Seq(Row0) /\ Len(alRows \o more) = n + Len(old) /\ n \in Nat
      /\ \A i \in 1 .. n + Len(old) : (alRows \o more)[i] = IF i <= n THEN alRows[i] ELSE more[i - n]
  <2> HIDE DEF old, n
  <2>1. /\ alRows \o more \in Seq(Row0) /\ Len(alRows \o more) = Len(alRows) + Len(more) /\ Len(alRows) \in Nat
        /\ \A i \in 1 .. Len(alRows) + Len(more) : (alRows \o more)[i] = IF i <= Len(alRows) THEN alRows[i] ELSE more[i - Len(alRows)]
    <3>1. alRows \in Seq(Row0) /\ more \in Seq(Row0)
      BY <1>7, <1>8
    <3>2. Len(alRows) \in Nat
      BY <3>1
    <3> HIDE DEF AlIInv
    <3>3. /\ alRows \o more \in Seq(Row0) /\ Len(alRows \o more) = Len(alRows) + Len(more)
          /\ \A i \in 1 .. Len(alRows) + Len(more) : (alRows \o more)[i] = IF i <= Len(alRows) THEN alRows[i] ELSE more[i - Len(alRows)]
      BY <3>1, ConcatProperties
    <3> QED BY <3>2, <3>3
  <2> QED BY <1>7, <2>1 DEF n
<1>10. \A i \in 1 .. n + Len(old) : (i <= n /\ i \in 1 .. n) \/ (~(i <= n) /\ i - n \in 1 .. Len(old))
  BY <1>6, <1>9
<1>11. /\ \A i \in 1 .. n : i \in 1 .. n + Len(old) /\ i <= n
       /\ \A i \in 1 .. Len(old) : n + i \in 1 .. n + Len(old) /\ ~(n + i <= n) /\ (n + i) - n = i
  BY <1>6, <1>9
<1>12. \A f : InTask(f)' <=> (InTask(f) /\ ~In(f, old)) \/ \E u \in AuditTasks \ {t} : In(f, alTask[u].events)
  <2>1. \A f : InTask(f)' <=> \E u \in AuditTasks : In(f, alTask'[u].events)
    BY DEF InTask
  <2>2. \A f : ~In(f, alTask'[t].events)
    BY <1>5, NothingIn
  <2> QED BY <1>5, <2>1, <2>2 DEF InTask
<1>13. \A f \in AuditEvents : InTask(f)' <=> InTask(f) /\ ~In(f, old)
  BY <1>12 DEF AlPlaces, InTask
<1>14. \A t1, t2 \in AuditTasks : \A f \in AuditEvents : In(f, alTask'[t1].events) /\ In(f, alTask'[t2].events) => t1 = t2
  <2>1. \A f : ~In(f, alTask'[t].events)
    BY <1>5, NothingIn
  <2> QED BY <1>5, <2>1 DEF AlPlaces
<1>15. \A u \in AuditTasks : Once(alTask'[u].events) /\ (alTask'[u].at # "store" => alTask'[u].events = <<>>)
  BY <1>5, NothingIn DEF AlPlaces
<1>16. EarlyIsStored'
  <2>1. ASSUME alPhase' = "closed", alTask'[Flusher].at # "flush" PROVE alTask[Flusher].at # "flush"
    BY <1>1, <1>5, <2>1 DEF AuditTasks
  <2> QED BY <1>1, <2>1 DEF EarlyIsStored
<1>17. \A f : In(f, old) <=> f \in ToSet(old)
  BY <1>6 DEF In, ToSet
<1>18. \A f : In(f, old) => InTask(f)
  BY DEF InTask
<1>19. CASE alRows' = alRows \o more /\ alLost' = alLost
  <2>1. \A f : RowFor(f)' <=> RowFor(f) \/ In(f, old)
    <3>1. \A f : RowFor(f)' <=> \E i \in 1 .. n + Len(old) : (alRows \o more)[i].event = f
      BY <1>9, <1>19 DEF RowFor
    <3>2. (\A f : RowFor(f) <=> \E i \in 1 .. n : alRows[i].event = f) /\ (\A f : In(f, old) <=> \E i \in 1 .. Len(old) : old[i] = f)
      BY DEF RowFor, In
    <3> HIDE DEF n, old
    <3> TAKE f
    <3>3. ASSUME RowFor(f)' PROVE RowFor(f) \/ In(f, old)
      <4>1. PICK i \in 1 .. n + Len(old) : (alRows \o more)[i].event = f
        BY <3>1, <3>3
      <4> QED BY <1>7, <1>9, <1>10, <3>2, <4>1
    <3>4. ASSUME RowFor(f) PROVE RowFor(f)'
      BY <1>9, <1>11, <3>1, <3>2, <3>4
    <3>5. ASSUME In(f, old) PROVE RowFor(f)'
      <4>1. PICK i \in 1 .. Len(old) : old[i] = f
        BY <3>2, <3>5
      <4>2. (alRows \o more)[n + i].event = f /\ n + i \in 1 .. n + Len(old)
        BY <1>7, <1>9, <1>11, <4>1
      <4> QED BY <3>1, <4>2
    <3> QED BY <3>3, <3>4, <3>5
  <2>2. \A i \in 1 .. n : alRows[i].event \in AuditEvents /\ RowFor(alRows[i].event)
    <3>1. \A i \in 1 .. n : alRows[i] \in Row0
      BY <1>8
    <3>2. \A i \in 1 .. n : RowFor(alRows[i].event)
      BY DEF RowFor
    <3> HIDE DEF n
    <3> QED BY <3>1, <3>2 DEF Row0
  <2>3. ASSUME NEW i \in 1 .. n + Len(old), NEW j \in 1 .. n + Len(old), (alRows \o more)[i].event = (alRows \o more)[j].event PROVE i = j
    <3>1. \A k \in 1 .. Len(old) : InTask(old[k]) /\ old[k] \in AuditEvents
      BY <1>6
    <3>2. CASE i <= n /\ j <= n
      <4>1. i \in 1 .. n /\ j \in 1 .. n /\ alRows[i].event = alRows[j].event
        BY <1>9, <1>10, <2>3, <3>2
      <4> QED BY <4>1 DEF AlPlaces
    <3>3. CASE ~(i <= n) /\ ~(j <= n)
      <4>1. i - n \in 1 .. Len(old) /\ j - n \in 1 .. Len(old)
        BY <1>10, <3>3
      <4>2. old[i - n] = old[j - n]
        BY <1>7, <1>9, <2>3, <3>3, <4>1
      <4>3. i - n = j - n
        BY <1>6, <4>1, <4>2 DEF Once
      <4> QED BY <1>6, <1>9, <4>3
    <3>4. CASE i <= n /\ ~(j <= n)
      <4>1. i \in 1 .. n /\ j - n \in 1 .. Len(old)
        BY <1>10, <3>4
      <4>2. alRows[i].event = old[j - n]
        BY <1>7, <1>9, <2>3, <3>4, <4>1
      <4> QED BY <2>2, <3>1, <4>1, <4>2 DEF AlPlaces
    <3>5. CASE ~(i <= n) /\ j <= n
      <4>1. j \in 1 .. n /\ i - n \in 1 .. Len(old)
        BY <1>10, <3>5
      <4>2. alRows[j].event = old[i - n]
        BY <1>7, <1>9, <2>3, <3>5, <4>1
      <4> QED BY <2>2, <3>1, <4>1, <4>2 DEF AlPlaces
    <3> QED BY <3>2, <3>3, <3>4, <3>5
  <2>4. \A i, j \in 1 .. Len(alRows') : alRows'[i].event = alRows'[j].event => i = j
    BY <1>9, <1>19, <2>3
  <2>5. AlPlaces'
    <3>1. ASSUME NEW f \in AuditEvents
          PROVE  /\ f \in alLogged' <=> In(f, alBuffer') \/ InTask(f)' \/ RowFor(f)' \/ f \in alLost'
                 /\ In(f, alBuffer') => ~InTask(f)' /\ ~RowFor(f)' /\ f \notin alLost'
                 /\ InTask(f)' => ~RowFor(f)' /\ f \notin alLost'
                 /\ RowFor(f)' => f \notin alLost'
      BY <1>1, <1>13, <1>18, <1>19, <2>1 DEF AlPlaces
    <3>2. Once(alBuffer')
      BY <1>1 DEF AlPlaces
    <3> QED BY <1>14, <1>15, <2>4, <3>1, <3>2 DEF AlPlaces
  <2>6. RowsAreSigned'
    <3>1. \A i \in 1 .. n : alRows[i] = AuditRow(alRows[i].event)
      BY DEF RowsAreSigned
    <3>2. \A i \in 1 .. Len(old) : more[i] = AuditRow(more[i].event)
      BY <1>7
    <3>3. \A i \in 1 .. n + Len(old) : (alRows \o more)[i] = AuditRow((alRows \o more)[i].event)
      BY <1>9, <1>10, <3>1, <3>2
    <3> QED BY <1>9, <1>19, <3>3 DEF RowsAreSigned
  <2>7. AlTypes'
    BY <1>1, <1>5, <1>9, <1>19 DEF AlTypes, Row0
  <2> QED BY <1>16, <2>5, <2>6, <2>7
<1>20. CASE alRows' = alRows /\ alLost' = alLost \cup ToSet(old)
  <2>1. \A f : RowFor(f)' <=> RowFor(f)
    BY <1>20 DEF RowFor
  <2>2. AlPlaces'
    <3>1. ASSUME NEW f \in AuditEvents
          PROVE  /\ f \in alLogged' <=> In(f, alBuffer') \/ InTask(f)' \/ RowFor(f)' \/ f \in alLost'
                 /\ In(f, alBuffer') => ~InTask(f)' /\ ~RowFor(f)' /\ f \notin alLost'
                 /\ InTask(f)' => ~RowFor(f)' /\ f \notin alLost'
                 /\ RowFor(f)' => f \notin alLost'
      BY <1>1, <1>13, <1>17, <1>18, <1>20, <2>1 DEF AlPlaces
    <3>2. Once(alBuffer') /\ \A i, j \in 1 .. Len(alRows') : alRows'[i].event = alRows'[j].event => i = j
      BY <1>1, <1>20 DEF AlPlaces
    <3> QED BY <1>14, <1>15, <3>1, <3>2 DEF AlPlaces
  <2>3. AlTypes'
    <3>1. ToSet(old) \subseteq alLogged
      BY <1>6, <1>17, <1>18 DEF AlPlaces, ToSet
    <3> QED BY <1>1, <1>5, <1>20, <3>1 DEF AlTypes
  <2>4. RowsAreSigned'
    BY <1>20 DEF RowsAreSigned
  <2> QED BY <1>16, <2>2, <2>3, <2>4
<1> QED BY <1>2, <1>19, <1>20

LEMMA AlStep == AlIInv /\ [AlNext]_alVars => AlIInv'
<1> SUFFICES ASSUME AlIInv, [AlNext]_alVars PROVE AlIInv'
  OBVIOUS
<1>1. CASE UNCHANGED alVars
  <2>1. UNCHANGED <<alBuffer, alTask, alRows, alPhase, alLogged, alEarly, alLost>>
    BY <1>1 DEF alVars
  <2> QED BY <2>1 DEF AlIInv, AlTypes, RowsAreSigned, AlPlaces, EarlyIsStored, InTask, RowFor
<1> QED BY <1>1, EventIsLogged, FlusherMoves, BufferIsTaken, BatchIsStored DEF AlNext

LEMMA OneOrNone == ASSUME NEW T, \A x, y \in T : x = y PROVE Cardinality(T) = IF T = {} THEN 0 ELSE 1
<1>1. CASE T = {}
  BY <1>1, FS_EmptySet
<1>2. CASE T # {}
  <2>1. PICK x \in T : TRUE
    BY <1>2
  <2>2. T = {x}
    BY <2>1
  <2>3. Cardinality({x}) = 1
    BY FS_Singleton
  <2> QED BY <1>2, <2>2, <2>3
<1> QED BY <1>1, <1>2

LEMMA TimesIs == ASSUME NEW S, NEW seq \in Seq(S), Once(seq), NEW e PROVE Times(e, seq) = IF In(e, seq) THEN 1 ELSE 0
<1> DEFINE T == {i \in DOMAIN seq : seq[i] = e}
<1>1. DOMAIN seq = 1 .. Len(seq)
  OBVIOUS
<1>2. \A x, y \in T : x = y
  BY <1>1 DEF Once
<1>3. T = {} <=> ~In(e, seq)
  BY <1>1 DEF In
<1> HIDE DEF T
<1>4. Cardinality(T) = IF T = {} THEN 0 ELSE 1
  BY <1>2, OneOrNone
<1> QED BY <1>3, <1>4 DEF T, Times

LEMMA AuditHolds == AlIInv => AuditIsKept /\ SignatureSurvives
<1> SUFFICES ASSUME AlIInv PROVE AuditIsKept /\ SignatureSurvives
  OBVIOUS
<1> USE DEF AlIInv
<1>1. alBuffer \in Seq(AuditEvents) /\ alRows \in Seq([event : AuditEvents, timestamp : Int, signature : Int])
      /\ \A t \in AuditTasks : alTask[t].events \in Seq(AuditEvents)
  BY DEF AlTypes
<1>2. ASSUME NEW e \in alLogged
      PROVE  LET held == Cardinality({t \in AuditTasks : Times(e, alTask[t].events) > 0})
                 stored == Cardinality({i \in DOMAIN alRows : alRows[i].event = e})
             IN  Times(e, alBuffer) + held + stored + Cardinality(alLost \cap {e}) = 1
  <2> DEFINE H == {t \in AuditTasks : Times(e, alTask[t].events) > 0}
             R == {i \in DOMAIN alRows : alRows[i].event = e}
             L == alLost \cap {e}
  <2>1. e \in AuditEvents
    BY <1>2 DEF AlTypes
  <2>2. Times(e, alBuffer) = IF In(e, alBuffer) THEN 1 ELSE 0
    BY <1>1, TimesIs DEF AlPlaces
  <2>3. \A t \in AuditTasks : Times(e, alTask[t].events) = IF In(e, alTask[t].events) THEN 1 ELSE 0
    BY <1>1, TimesIs DEF AlPlaces
  <2>4. H = {t \in AuditTasks : In(e, alTask[t].events)}
    BY <2>3
  <2>5. (\A x, y \in H : x = y) /\ (H = {} <=> ~InTask(e))
    BY <2>1, <2>4 DEF AlPlaces, InTask
  <2>6. (\A x, y \in R : x = y) /\ (R = {} <=> ~RowFor(e))
    <3>1. DOMAIN alRows = 1 .. Len(alRows)
      BY <1>1
    <3> QED BY <3>1 DEF AlPlaces, RowFor
  <2>7. (\A x, y \in L : x = y) /\ (L = {} <=> e \notin alLost)
    OBVIOUS
  <2> HIDE DEF H, R, L
  <2>8. Cardinality(H) = (IF H = {} THEN 0 ELSE 1) /\ Cardinality(R) = (IF R = {} THEN 0 ELSE 1) /\ Cardinality(L) = (IF L = {} THEN 0 ELSE 1)
    BY <2>5, <2>6, <2>7, OneOrNone
  <2>9. /\ In(e, alBuffer) \/ InTask(e) \/ RowFor(e) \/ e \in alLost
        /\ In(e, alBuffer) => ~InTask(e) /\ ~RowFor(e) /\ e \notin alLost
        /\ InTask(e) => ~RowFor(e) /\ e \notin alLost
        /\ RowFor(e) => e \notin alLost
    BY <1>2, <2>1 DEF AlPlaces
  <2>10. Times(e, alBuffer) + Cardinality(H) + Cardinality(R) + Cardinality(L) = 1
    <3>1. CASE In(e, alBuffer)
      <4>1. Times(e, alBuffer) = 1 /\ Cardinality(H) = 0 /\ Cardinality(R) = 0 /\ Cardinality(L) = 0
        BY <2>2, <2>5, <2>6, <2>7, <2>8, <2>9, <3>1
      <4> QED BY <4>1
    <3>2. CASE InTask(e)
      <4>1. Times(e, alBuffer) = 0 /\ Cardinality(H) = 1 /\ Cardinality(R) = 0 /\ Cardinality(L) = 0
        BY <2>2, <2>5, <2>6, <2>7, <2>8, <2>9, <3>2
      <4> QED BY <4>1
    <3>3. CASE RowFor(e)
      <4>1. Times(e, alBuffer) = 0 /\ Cardinality(H) = 0 /\ Cardinality(R) = 1 /\ Cardinality(L) = 0
        BY <2>2, <2>5, <2>6, <2>7, <2>8, <2>9, <3>3
      <4> QED BY <4>1
    <3>4. CASE e \in alLost
      <4>1. Times(e, alBuffer) = 0 /\ Cardinality(H) = 0 /\ Cardinality(R) = 0 /\ Cardinality(L) = 1
        BY <2>2, <2>5, <2>6, <2>7, <2>8, <2>9, <3>4
      <4> QED BY <4>1
    <3> QED BY <2>9, <3>1, <3>2, <3>3, <3>4
  <2> QED BY <2>10 DEF H, R, L
<1>3. alPhase = "closed" /\ alTask[Flusher].at # "flush" => alEarly \cap ToSet(alBuffer) = {}
  <2>1. \A e : e \in ToSet(alBuffer) => In(e, alBuffer)
    BY <1>1 DEF ToSet, In
  <2> QED BY <2>1 DEF EarlyIsStored
<1>4. SignatureSurvives
  <2> SUFFICES ASSUME NEW i \in DOMAIN alRows
               PROVE  VerifyEventIntegrity(alRows[i]) = (AuditTimes[alRows[i].event] % Micro = 0)
    BY DEF SignatureSurvives
  <2>1. DOMAIN alRows = 1 .. Len(alRows) /\ alRows[i] \in [event : AuditEvents, timestamp : Int, signature : Int]
    <3> DEFINE R == [event : AuditEvents, timestamp : Int, signature : Int]
    <3>1. alRows \in Seq(R)
      BY <1>1
    <3> HIDE DEF R, AlIInv
    <3>2. DOMAIN alRows = 1 .. Len(alRows)
      BY <3>1
    <3>3. alRows[i] \in R
      BY <3>1
    <3> QED BY <3>2, <3>3 DEF R
  <2>2. alRows[i].event \in AuditEvents /\ alRows[i] = AuditRow(alRows[i].event)
    BY <2>1 DEF RowsAreSigned
  <2> DEFINE e == alRows[i].event
  <2>3. VerifyEventIntegrity(AuditRow(e)) = (AuditTimes[e] % Micro = 0)
    BY <2>2, RowFields
  <2> QED BY <2>2, <2>3
<1>5. AuditIsKept
  BY <1>2, <1>3 DEF AuditIsKept
<1> QED BY <1>4, <1>5

----------------------------------------------------------------------------
(***************************************************************************)
(* The buffer in front of the SIEM endpoint.                               *)
(***************************************************************************)
SiemPlaces == {"idle", "append", "copy", "clear", "send", "read again", "put back"}
SiemWork == [at : SiemPlaces, seen : Seq(AuditEvents), events : Seq(AuditEvents)]
SiTypes ==
    /\ siBuffer \in Seq(AuditEvents) /\ siTask \in [SiemTasks -> SiemWork] /\ siHeld \subseteq AuditEvents
    /\ siSent \in [AuditEvents -> Nat] /\ siStake \subseteq siHeld /\ moFaults \in Nat
    /\ \A e : In(e, siBuffer) => e \in siHeld
    /\ \A t \in SiemTasks : \A e : In(e, siTask[t].events) \/ In(e, siTask[t].seen) => e \in siHeld
    /\ \A e \in AuditEvents : siSent[e] > 0 => e \in siHeld
\* What is to be cleared is what was copied, unless somebody has written the buffer since.
SiemShape ==
    /\ \A t \in SiemTasks : /\ siTask[t].at \in {"idle", "copy"} => siTask[t].events = <<>>
                            /\ siTask[t].at = "clear" /\ t \notin siStale => siTask[t].events = siBuffer
    /\ siPhase = "up" => siTask[Closer].events = <<>>
\* Who has an event that is in the buffer no more, or not yet.
Carries(t, e) == siTask[t].at \in {"append", "send"} /\ In(e, siTask[t].events)
OnlyOnce(e, seq) == \A i, j \in 1 .. Len(seq) : seq[i] = e /\ seq[j] = e => i = j
\* An event is in the buffer, with one task or sent, and there once ...
EventOnce(e) ==
    /\ OnlyOnce(e, siBuffer) /\ siSent[e] <= 1 /\ (In(e, siBuffer) => siSent[e] = 0)
    /\ \A t \in SiemTasks : /\ siTask[t].at \in {"append", "send"} => OnlyOnce(e, siTask[t].events)
                            /\ Carries(t, e) => ~In(e, siBuffer) /\ siSent[e] = 0
    /\ \A t, u \in SiemTasks : Carries(t, e) /\ Carries(u, e) => t = u
NoneFailed == \A t \in SiemTasks : siTask[t].at \notin {"read again", "put back"}
\* ... before the first failure and before Close.
SiemOnce == moFaults = 0 /\ siPhase = "up" => NoneFailed /\ \A e \in AuditEvents \ siStake : EventOnce(e)
Somewhere(e) == siSent[e] > 0 \/ e \in siDropped \/ In(e, siBuffer) \/ \E t \in SiemTasks : In(e, siTask[t].events)
SiemKept == siPhase # "down" => \A e \in siHeld \ siStake : Somewhere(e)
SiIInv == SiTypes /\ SiemShape /\ SiemOnce /\ SiemKept

LEMMA IdleSiemFields ==
    /\ IdleSiem \in SiemWork /\ IdleSiem.at = "idle" /\ IdleSiem.events = <<>> /\ IdleSiem.seen = <<>>
    /\ [IdleSiem EXCEPT !.at = "copy"] = [at |-> "copy", seen |-> <<>>, events |-> <<>>]
<1>1. <<>> \in Seq(AuditEvents)
  OBVIOUS
<1> QED BY <1>1 DEF IdleSiem, SiemWork, SiemPlaces

LEMMA OnlyOnceIn ==
    ASSUME NEW S, NEW e
    PROVE  /\ OnlyOnce(e, <<>>) /\ \A f : OnlyOnce(e, <<f>>)
           /\ \A seq \in Seq(S) : ~In(e, seq) => OnlyOnce(e, seq)
           /\ \A seq, more \in Seq(S) :
                 OnlyOnce(e, seq) /\ OnlyOnce(e, more) /\ ~(In(e, seq) /\ In(e, more)) => OnlyOnce(e, seq \o more)
<1>1. OnlyOnce(e, <<>>)
  <2>1. Len(<<>>) = 0 /\ 1 .. 0 = {}
    OBVIOUS
  <2> QED BY <2>1 DEF OnlyOnce
<1>2. \A f : OnlyOnce(e, <<f>>)
  <2>1. \A f : Len(<<f>>) = 1
    OBVIOUS
  <2>2. \A i, j \in 1 .. 1 : i = j
    OBVIOUS
  <2> QED BY <2>1, <2>2 DEF OnlyOnce
<1>3. \A seq \in Seq(S) : ~In(e, seq) => OnlyOnce(e, seq)
  BY DEF In, OnlyOnce
<1>4. ASSUME NEW seq \in Seq(S), NEW more \in Seq(S), OnlyOnce(e, seq), OnlyOnce(e, more), ~(In(e, seq) /\ In(e, more))
      PROVE  OnlyOnce(e, seq \o more)
  <2> DEFINE n == Len(seq)  m == Len(more)  both == seq \o more
  <2>1. n \in Nat /\ m \in Nat /\ Len(both) = n + m /\ \A i \in 1 .. n + m : both[i] = IF i <= n THEN seq[i] ELSE more[i - n]
    OBVIOUS
  <2> HIDE DEF n, m, both
  <2>2. \A i \in 1 .. n + m : (i <= n => i \in 1 .. n) /\ (~(i <= n) => i - n \in 1 .. m)
    BY <2>1
  <2>3. (\A i, j \in 1 .. n : seq[i] = e /\ seq[j] = e => i = j) /\ (\A i, j \in 1 .. m : more[i] = e /\ more[j] = e => i = j)
    BY <1>4 DEF OnlyOnce, n, m
  <2>4. ~((\E i \in 1 .. n : seq[i] = e) /\ (\E j \in 1 .. m : more[j] = e))
    BY <1>4 DEF In, n, m
  <2>5. ASSUME NEW i \in 1 .. n + m, NEW j \in 1 .. n + m, both[i] = e, both[j] = e PROVE i = j
    <3>1. CASE i <= n /\ j <= n
      BY <2>1, <2>2, <2>3, <2>5, <3>1
    <3>2. CASE ~(i <= n) /\ ~(j <= n)
      <4>1. i - n = j - n
        BY <2>1, <2>2, <2>3, <2>5, <3>2
      <4> QED BY <2>1, <4>1
    <3>3. CASE (i <= n /\ ~(j <= n)) \/ (~(i <= n) /\ j <= n)
      BY <2>1, <2>2, <2>4, <2>5, <3>3
    <3> QED BY <3>1, <3>2, <3>3
  <2> QED BY <2>1, <2>5 DEF OnlyOnce, both
<1> QED BY <1>1, <1>2, <1>3, <1>4

LEMMA SiStarts == SiInit /\ MoInit => SiIInv
<1> SUFFICES ASSUME SiInit, MoInit PROVE SiIInv
  OBVIOUS
<1>1. siBuffer = <<>> /\ siTask = [t \in SiemTasks |-> IdleSiem] /\ siSent = [e \in AuditEvents |-> 0] /\ siHeld = {}
      /\ siStake = {} /\ moFaults = 0
  BY DEF SiInit, MoInit
<1>2. <<>> \in Seq(AuditEvents) /\ Closer \in SiemTasks
  BY DEF SiemTasks
<1>3. \A t \in SiemTasks : siTask[t].events = <<>> /\ siTask[t].at = "idle" /\ siTask[t] \in SiemWork
  BY <1>1, IdleSiemFields
<1>4. siTask \in [SiemTasks -> SiemWork]
  BY <1>1, IdleSiemFields
<1>5. \A t \in SiemTasks : \A e : ~In(e, siTask[t].events) /\ ~In(e, siTask[t].seen)
  BY <1>1, IdleSiemFields, NothingIn
<1>6. SiTypes
  BY <1>1, <1>2, <1>4, <1>5, NothingIn DEF SiTypes
<1>7. SiemShape
  BY <1>2, <1>3 DEF SiemShape
<1>8. SiemOnce
  <2>1. NoneFailed /\ \A t \in SiemTasks : siTask[t].at \notin {"append", "send"}
    BY <1>3 DEF NoneFailed
  <2>2. \A t \in SiemTasks : \A e : ~Carries(t, e)
    BY <2>1 DEF Carries
  <2>3. \A e \in AuditEvents : siSent[e] = 0 /\ siSent[e] <= 1
    BY <1>1
  <2>4. \A e : OnlyOnce(e, siBuffer)
    BY <1>1, OnlyOnceIn
  <2> QED BY <2>1, <2>2, <2>3, <2>4 DEF SiemOnce, EventOnce
<1>9. SiemKept
  BY <1>1 DEF SiemKept
<1> QED BY <1>6, <1>7, <1>8, <1>9 DEF SiIInv

LEMMA SiemTask == ASSUME SiIInv, NEW t \in SiemTasks
    PROVE  /\ siTask[t] \in SiemWork /\ siTask[t].at \in SiemPlaces /\ siTask[t].seen \in Seq(AuditEvents) /\ siTask[t].events \in Seq(AuditEvents)
           /\ siTask[t] = IdleSiem => siTask[t].at = "idle"
BY IdleSiemFields DEF SiIInv, SiTypes, SiemWork

\* An event that was never held is nowhere.
LEMMA NotHeld == ASSUME SiTypes', NEW e \in AuditEvents, e \notin siHeld' PROVE EventOnce(e)'
<1>1. ~In(e, siBuffer') /\ (\A t \in SiemTasks : ~In(e, siTask'[t].events)) /\ siSent'[e] = 0
  BY DEF SiTypes
<1>2. \A t \in SiemTasks : ~Carries(t, e)'
  BY <1>1 DEF Carries
<1>3. OnlyOnce(e, siBuffer') /\ \A t \in SiemTasks : OnlyOnce(e, siTask'[t].events)
  <2>1. siBuffer' \in Seq(AuditEvents) /\ \A t \in SiemTasks : siTask'[t].events \in Seq(AuditEvents)
    BY DEF SiTypes, SiemWork
  <2> QED BY <1>1, <2>1, OnlyOnceIn
<1> QED BY <1>1, <1>2, <1>3 DEF EventOnce

\* So a write over another's, which puts at stake whatever is held, leaves no more to show.
LEMMA AllIsAtStake == ASSUME SiTypes', SiemShape', siStake' = siHeld', moFaults' = 0 /\ siPhase' = "up" => NoneFailed'
                      PROVE  SiIInv'
<1>1. SiemOnce'
  BY NotHeld DEF SiemOnce
<1>2. SiemKept'
  BY DEF SiemKept
<1> QED BY <1>1, <1>2 DEF SiIInv

\* What an append leaves in the buffer.
LEMMA Appended ==
    ASSUME SiIInv, NEW t \in SiemTasks, siTask[t].at \in Accesses, Appends(t), siHeld' = siHeld
    PROVE  /\ siBuffer' \in Seq(AuditEvents) /\ \A e : In(e, siBuffer') => e \in siHeld
           /\ t \in siStale => siStake' = siHeld
           /\ t \notin siStale => /\ siStake' = siStake /\ siBuffer' = siBuffer \o siTask[t].events
                                  /\ \A e : In(e, siBuffer') <=> In(e, siBuffer) \/ In(e, siTask[t].events)
           /\ \A u \in SiemTasks \ {t} : siTask[u].at = "clear" => u \in siStale'
<1> DEFINE more == siTask[t].events  seen == siTask[t].seen
<1>1. more \in Seq(AuditEvents) /\ seen \in Seq(AuditEvents) /\ siBuffer \in Seq(AuditEvents)
  BY SiemTask DEF SiIInv, SiTypes
<1>2. \A e : In(e, more) \/ In(e, seen) \/ In(e, siBuffer) => e \in siHeld
  BY DEF SiIInv, SiTypes
<1>3. InPlace(seen) \in Seq(AuditEvents) /\ \A e : In(e, InPlace(seen)) => In(e, siBuffer) \/ In(e, seen)
  <2> DEFINE front == [i \in 1 .. Len(seen) |-> IF i <= Len(siBuffer) THEN siBuffer[i] ELSE seen[i]]
  <2>1. InPlace(seen) = front /\ Len(seen) \in Nat /\ Len(siBuffer) \in Nat
    BY <1>1 DEF InPlace
  <2>2. \A i \in 1 .. Len(seen) : i <= Len(siBuffer) => i \in 1 .. Len(siBuffer)
    BY <2>1
  <2>3. \A i \in 1 .. Len(seen) : front[i] \in AuditEvents
    <3>1. \A i \in 1 .. Len(seen) : seen[i] \in AuditEvents
      BY <1>1
    <3>2. \A i \in 1 .. Len(siBuffer) : siBuffer[i] \in AuditEvents
      BY <1>1
    <3> QED BY <2>2, <3>1, <3>2
  <2>4. front \in Seq(AuditEvents) /\ Len(front) = Len(seen)
    <3> DEFINE n == Len(seen)
    <3>1. n \in Nat /\ front = [i \in 1 .. n |-> front[i]] /\ \A i \in 1 .. n : front[i] \in AuditEvents
      BY <2>1, <2>3
    <3>2. front \in [1 .. n -> AuditEvents]
      BY <3>1
    <3> HIDE DEF front, n
    <3>3. front \in Seq(AuditEvents) /\ Len(front) = n
      BY <3>1, <3>2
    <3> QED BY <3>3 DEF n
  <2> HIDE DEF seen
  <2>5. \A e : In(e, front) => In(e, siBuffer) \/ In(e, seen)
    <3> TAKE e
    <3> HAVE In(e, front)
    <3>1. PICK i \in 1 .. Len(seen) : front[i] = e
      BY <2>4 DEF In
    <3>2. front[i] = IF i <= Len(siBuffer) THEN siBuffer[i] ELSE seen[i]
      OBVIOUS
    <3> HIDE DEF front
    <3> QED BY <2>2, <3>1, <3>2 DEF In
  <2> QED BY <2>1, <2>4, <2>5
<1>4. PICK front \in {siBuffer, seen, InPlace(seen)} : siBuffer' = front \o more /\ (t \notin siStale => front = siBuffer)
  BY DEF Appends
<1>5. front \in Seq(AuditEvents) /\ \A e : In(e, front) => e \in siHeld
  BY <1>1, <1>2, <1>3, <1>4
<1> HIDE DEF more, seen
<1>6. siBuffer' \in Seq(AuditEvents) /\ \A e : In(e, siBuffer') <=> In(e, front) \/ In(e, more)
  BY <1>1, <1>4, <1>5, JoinedTwo
<1>7. \A u \in SiemTasks \ {t} : siTask[u].at = "clear" => u \in siStale'
  BY DEF Appends, Overtaken, Accesses
<1>8. (t \in siStale => siStake' = siHeld) /\ (t \notin siStale => siStake' = siStake)
  BY DEF Appends
<1> QED BY <1>2, <1>4, <1>5, <1>6, <1>7, <1>8 DEF more

LEMMA EventIsRead == ASSUME SiIInv, NEW c \in SiemCallers, NEW e \in AuditEvents, ReadsBuffer(c, e) PROVE SiIInv'
<1> USE DEF SiIInv
<1> DEFINE new == [at |-> "append", seen |-> siBuffer, events |-> <<e>>]
<1>1. siTask[c] = IdleSiem /\ e \notin siHeld /\ siHeld' = siHeld \cup {e} /\ siTask' = [siTask EXCEPT ![c] = new]
      /\ UNCHANGED <<siBuffer, siPhase, siSent, siDropped, siStale, siStake, moFaults>> /\ c \in SiemTasks
  BY DEF ReadsBuffer, SiemGoes, SiemTasks
<1>2. <<e>> \in Seq(AuditEvents) /\ Len(<<e>>) = 1 /\ <<e>>[1] = e
  OBVIOUS
<1>3. \A f : In(f, <<e>>) <=> f = e
  BY <1>2 DEF In
<1>4. new \in SiemWork /\ new.at = "append" /\ new.events = <<e>> /\ new.seen = siBuffer
  BY <1>2 DEF SiemWork, SiemPlaces, SiTypes
<1> HIDE DEF new
<1>5. siTask' \in [SiemTasks -> SiemWork] /\ siTask'[c] = new /\ \A t \in SiemTasks \ {c} : siTask'[t] = siTask[t]
  BY <1>1, <1>4 DEF SiTypes
<1>6. \A t \in SiemTasks : \A f : In(f, siTask'[t].events) <=> (t = c /\ f = e) \/ (t # c /\ In(f, siTask[t].events))
  BY <1>3, <1>4, <1>5
<1>7. \A f : ~In(f, siTask[c].events)
  BY <1>1, IdleSiemFields, NothingIn
<1>8. SiTypes'
  BY <1>1, <1>4, <1>5, <1>6 DEF SiTypes
<1>9. SiemShape'
  <2>1. c # Closer
    BY MonitoringAssumption DEF Closer
  <2> QED BY <1>1, <1>4, <1>5, <2>1 DEF SiemShape, SiemTasks
<1>10. SiemKept'
  <2> SUFFICES ASSUME siPhase # "down", NEW f \in siHeld' \ siStake PROVE Somewhere(f)'
    BY <1>1 DEF SiemKept
  <2>1. CASE f = e
    BY <1>1, <1>6, <2>1 DEF Somewhere
  <2>2. CASE f # e
    BY <1>1, <1>6, <1>7, <2>2 DEF Somewhere, SiemKept
  <2> QED BY <2>1, <2>2
<1>11. SiemOnce'
  <2> SUFFICES ASSUME moFaults' = 0, siPhase' = "up" PROVE NoneFailed' /\ \A f \in AuditEvents \ siStake' : EventOnce(f)'
    BY DEF SiemOnce
  <2>1. NoneFailed /\ \A f \in AuditEvents \ siStake : EventOnce(f)
    BY <1>1 DEF SiemOnce
  <2>2. NoneFailed'
    BY <1>4, <1>5, <2>1 DEF NoneFailed
  <2>3. ASSUME NEW f \in AuditEvents \ siStake' PROVE EventOnce(f)'
    <3>1. EventOnce(f)
      BY <1>1, <2>1, <2>3
    <3>2. \A t \in SiemTasks : Carries(t, f)' <=> (t = c /\ f = e) \/ (t # c /\ Carries(t, f))
      BY <1>4, <1>5, <1>6 DEF Carries
    <3>3. f = e => ~In(f, siBuffer) /\ siSent[f] = 0 /\ \A t \in SiemTasks : ~Carries(t, f)
      BY <1>1 DEF SiTypes, Carries
    <3>4. \A t \in SiemTasks : siTask'[t].at \in {"append", "send"} => OnlyOnce(f, siTask'[t].events)
      <4>1. OnlyOnce(f, <<e>>)
        BY OnlyOnceIn
      <4>2. \A t \in SiemTasks : siTask[t].at \in {"append", "send"} => OnlyOnce(f, siTask[t].events)
        BY <3>1 DEF EventOnce
      <4> QED BY <1>4, <1>5, <4>1, <4>2
    <3>5. \A t \in SiemTasks : Carries(t, f)' => ~In(f, siBuffer') /\ siSent'[f] = 0
      BY <1>1, <3>1, <3>2, <3>3 DEF EventOnce
    <3>6. \A t, u \in SiemTasks : Carries(t, f)' /\ Carries(u, f)' => t = u
      BY <3>1, <3>2, <3>3 DEF EventOnce
    <3> QED BY <1>1, <3>1, <3>4, <3>5, <3>6 DEF EventOnce
  <2> QED BY <2>2, <2>3
<1> QED BY <1>8, <1>9, <1>10, <1>11

LEMMA EventIsBuffered == ASSUME SiIInv, NEW c \in SiemCallers, BufferEvent(c) PROVE SiIInv'
<1> USE DEF SiIInv
<1> DEFINE more == siTask[c].events
           copying == [IdleSiem EXCEPT !.at = "copy"]
<1>1. siTask[c].at = "append" /\ Appends(c) /\ c \in SiemTasks /\ c # Closer
      /\ UNCHANGED <<siPhase, siSent, siHeld, siDropped, moFaults>>
  BY MonitoringAssumption DEF BufferEvent, SiemTasks, Closer
<1>2. \/ siTask' = [siTask EXCEPT ![c] = IdleSiem]
      \/ \E s \in SiemSenders : siTask[s] = IdleSiem /\ siTask' = [siTask EXCEPT ![c] = IdleSiem, ![s] = copying]
  BY DEF BufferEvent, SiemGoes
<1>3. copying \in SiemWork /\ copying.at = "copy" /\ copying.events = <<>> /\ copying.seen = <<>>
  <2>1. <<>> \in Seq(AuditEvents)
    OBVIOUS
  <2> QED BY <2>1, IdleSiemFields DEF SiemWork, SiemPlaces
<1> HIDE DEF copying
<1>4. siTask \in [SiemTasks -> SiemWork]
  BY DEF SiTypes
<1>5. /\ siTask' \in [SiemTasks -> SiemWork] /\ siTask'[c] = IdleSiem
      /\ \A t \in SiemTasks \ {c} : siTask'[t] = siTask[t] \/ (siTask[t] = IdleSiem /\ siTask'[t] = copying)
  <2>1. CASE siTask' = [siTask EXCEPT ![c] = IdleSiem]
    BY <1>1, <1>4, <2>1, IdleSiemFields
  <2>2. ASSUME NEW s \in SiemSenders, siTask[s] = IdleSiem, siTask' = [siTask EXCEPT ![c] = IdleSiem, ![s] = copying]
        PROVE  /\ siTask' \in [SiemTasks -> SiemWork] /\ siTask'[c] = IdleSiem
               /\ \A t \in SiemTasks \ {c} : siTask'[t] = siTask[t] \/ (siTask[t] = IdleSiem /\ siTask'[t] = copying)
    <3>1. s \in SiemTasks /\ s # c
      BY MonitoringAssumption DEF SiemTasks
    <3> QED BY <1>1, <1>3, <1>4, <2>2, <3>1, IdleSiemFields
  <2> QED BY <1>2, <2>1, <2>2
<1>6. more \in Seq(AuditEvents) /\ siBuffer \in Seq(AuditEvents)
  BY <1>1, SiemTask DEF SiTypes
<1> HIDE DEF more
<1>7. /\ siBuffer' \in Seq(AuditEvents) /\ \A e : In(e, siBuffer') => e \in siHeld
      /\ c \in siStale => siStake' = siHeld
      /\ c \notin siStale => /\ siStake' = siStake /\ siBuffer' = siBuffer \o more
                             /\ \A e : In(e, siBuffer') <=> In(e, siBuffer) \/ In(e, more)
      /\ \A u \in SiemTasks \ {c} : siTask[u].at = "clear" => u \in siStale'
  BY <1>1, Appended DEF Accesses, more
<1>8. \A t \in SiemTasks \ {c} :
         /\ siTask'[t].events = siTask[t].events /\ siTask'[t].seen = siTask[t].seen
         /\ \/ siTask'[t].at = siTask[t].at
            \/ siTask[t].at = "idle" /\ siTask'[t].at = "copy" /\ siTask'[t].events = <<>>
  BY <1>3, <1>5, IdleSiemFields
<1>9. siTask'[c].events = <<>> /\ siTask'[c].at = "idle" /\ siTask'[c].seen = <<>> /\ \A e : ~In(e, <<>>)
  BY <1>5, IdleSiemFields, NothingIn
<1>10. SiTypes'
  <2>1. \A t \in SiemTasks : \A e : In(e, siTask'[t].events) \/ In(e, siTask'[t].seen) => e \in siHeld
    BY <1>8, <1>9 DEF SiTypes
  <2>2. siStake' \subseteq siHeld
    BY <1>7 DEF SiTypes
  <2> QED BY <1>1, <1>5, <1>7, <2>1, <2>2 DEF SiTypes
<1>11. SiemShape'
  <2>1. ASSUME NEW t \in SiemTasks \ {c}, siTask'[t].at = "clear" PROVE t \in siStale'
    BY <1>7, <1>8, <2>1
  <2>2. \A t \in SiemTasks : siTask'[t].at \in {"idle", "copy"} => siTask'[t].events = <<>>
    BY <1>8, <1>9 DEF SiemShape
  <2>3. siPhase' = "up" => siTask'[Closer].events = <<>>
    BY <1>1, <1>8 DEF SiemShape, SiemTasks
  <2> QED BY <1>9, <2>1, <2>2, <2>3 DEF SiemShape
<1>12. ASSUME moFaults' = 0, siPhase' = "up" PROVE NoneFailed'
  BY <1>1, <1>8, <1>9, <1>12 DEF SiemOnce, NoneFailed
<1>13. CASE c \in siStale
  BY <1>1, <1>7, <1>10, <1>11, <1>12, <1>13, AllIsAtStake
<1>14. CASE c \notin siStale
  <2>1. SiemKept'
    <3> SUFFICES ASSUME siPhase' # "down", NEW e \in siHeld' \ siStake' PROVE Somewhere(e)'
      BY DEF SiemKept
    <3>1. Somewhere(e)
      BY <1>1, <1>7, <1>14 DEF SiemKept
    <3>2. ASSUME NEW t \in SiemTasks, In(e, siTask[t].events) PROVE In(e, siBuffer') \/ \E u \in SiemTasks : In(e, siTask'[u].events)
      BY <1>7, <1>8, <1>14, <3>2 DEF more
    <3> QED BY <1>1, <1>7, <1>14, <3>1, <3>2 DEF Somewhere
  <2>2. SiemOnce'
    <3> SUFFICES ASSUME moFaults' = 0, siPhase' = "up", NEW e \in AuditEvents \ siStake' PROVE EventOnce(e)'
      BY <1>12 DEF SiemOnce
    <3>1. EventOnce(e) /\ siSent' = siSent
      BY <1>1, <1>7, <1>14 DEF SiemOnce
    <3>2. \A t \in SiemTasks : Carries(t, e)' <=> t # c /\ Carries(t, e)
      BY <1>8, <1>9, NothingIn DEF Carries
    <3>3. Carries(c, e) <=> In(e, more)
      BY <1>1 DEF Carries, more
    <3>4. OnlyOnce(e, siBuffer')
      <4>1. OnlyOnce(e, siBuffer) /\ OnlyOnce(e, more) /\ ~(In(e, siBuffer) /\ In(e, more))
        BY <1>1, <3>1, <3>3 DEF EventOnce, more
      <4> QED BY <1>6, <1>7, <1>14, <4>1, OnlyOnceIn
    <3>5. \A t \in SiemTasks : siTask'[t].at \in {"append", "send"} => OnlyOnce(e, siTask'[t].events)
      BY <1>8, <1>9, <3>1 DEF EventOnce
    <3>6. \A t, u \in SiemTasks : Carries(t, e)' /\ Carries(u, e)' => t = u
      BY <3>1, <3>2 DEF EventOnce
    <3>7. ASSUME NEW t \in SiemTasks, Carries(t, e)' PROVE ~In(e, siBuffer') /\ siSent'[e] = 0
      <4>1. t # c /\ Carries(t, e)
        BY <3>2, <3>7
      <4>2. ~In(e, siBuffer) /\ siSent[e] = 0 /\ ~Carries(c, e)
        BY <1>1, <3>1, <4>1 DEF EventOnce
      <4> QED BY <1>7, <1>14, <3>1, <3>3, <4>2
    <3>8. siSent'[e] <= 1 /\ (In(e, siBuffer') => siSent'[e] = 0)
      <4>1. siSent[e] <= 1 /\ (In(e, siBuffer) => siSent[e] = 0) /\ (Carries(c, e) => siSent[e] = 0)
        BY <1>1, <3>1 DEF EventOnce
      <4> QED BY <1>7, <1>14, <3>1, <3>3, <4>1
    <3> QED BY <3>4, <3>5, <3>6, <3>7, <3>8 DEF EventOnce
  <2> QED BY <1>10, <1>11, <2>1, <2>2
<1> QED BY <1>13, <1>14

\* A copy of the buffer is taken, and the buffer left as it is.
LEMMA BufferIsCopied == ASSUME SiIInv, NEW t \in SiemTasks, CopiesBuffer(t) PROVE SiIInv'
<1> USE DEF SiIInv
<1> DEFINE new == [at |-> "clear", seen |-> siBuffer, events |-> siBuffer]
<1>1. siTask' = [siTask EXCEPT ![t] = new] /\ UNCHANGED <<siBuffer, siPhase, siSent, siHeld, siDropped, siStale, siStake, moFaults>>
  BY DEF CopiesBuffer, SiemGoes
<1>2. t # Closer /\ siTask[t].at \in {"idle", "copy"}
  BY MonitoringAssumption, SiemTask DEF CopiesBuffer, Closer, Loop
<1>3. siTask[t].events = <<>>
  BY <1>2 DEF SiemShape
<1>4. new \in SiemWork /\ new.at = "clear" /\ new.events = siBuffer /\ new.seen = siBuffer
  BY DEF SiemWork, SiemPlaces, SiTypes
<1> HIDE DEF new
<1>5. siTask' \in [SiemTasks -> SiemWork] /\ siTask'[t] = new /\ \A u \in SiemTasks \ {t} : siTask'[u] = siTask[u]
  BY <1>1, <1>4 DEF SiTypes
<1>6. SiTypes'
  BY <1>1, <1>4, <1>5 DEF SiTypes
<1>7. SiemShape'
  BY <1>1, <1>2, <1>4, <1>5 DEF SiemShape, SiemTasks
<1>8. SiemKept'
  <2>1. \A e : ~In(e, siTask[t].events)
    BY <1>3, NothingIn
  <2>2. \A e : Somewhere(e) => Somewhere(e)'
    BY <1>1, <1>5, <2>1 DEF Somewhere
  <2> QED BY <1>1, <2>2 DEF SiemKept
<1>9. SiemOnce'
  <2>1. \A u \in SiemTasks : \A e : Carries(u, e)' <=> u # t /\ Carries(u, e)
    BY <1>2, <1>4, <1>5 DEF Carries
  <2>2. \A u \in SiemTasks : siTask'[u].at \in {"append", "send", "read again", "put back"} => siTask'[u] = siTask[u]
    BY <1>4, <1>5
  <2>3. ASSUME NEW e \in AuditEvents, EventOnce(e) PROVE EventOnce(e)'
    BY <1>1, <2>1, <2>2, <2>3 DEF EventOnce
  <2> QED BY <1>1, <2>2, <2>3 DEF SiemOnce, NoneFailed
<1> QED BY <1>6, <1>7, <1>8, <1>9

\* What was copied is the task's alone when the buffer is emptied.
LEMMA BufferIsCleared == ASSUME SiIInv, NEW t \in SiemTasks, ClearsBuffer(t) PROVE SiIInv'
<1> USE DEF SiIInv
<1> DEFINE task == siTask[t]
           sending == [siTask[t] EXCEPT !.at = "send"]
           new == IF siTask[t].events = <<>> THEN IdleSiem ELSE sending
<1>1. task.at = "clear" /\ siBuffer' = <<>> /\ siStake' = (IF t \in siStale THEN siHeld ELSE siStake) /\ Overtaken(t)
      /\ siTask' = [siTask EXCEPT ![t] = new] /\ UNCHANGED <<siPhase, siSent, siHeld, siDropped, moFaults>>
  BY DEF ClearsBuffer, SiemGoes
<1>2. task \in SiemWork /\ task.events \in Seq(AuditEvents) /\ (t \notin siStale => task.events = siBuffer)
  BY <1>1, SiemTask DEF SiemShape
<1>3. /\ new \in SiemWork /\ new.events = task.events /\ new.at \in {"idle", "send"}
      /\ (new.at = "idle" => new.events = <<>>) /\ (new.seen = <<>> \/ new.seen = task.seen)
  <2>1. sending \in SiemWork /\ sending.events = task.events /\ sending.at = "send" /\ sending.seen = task.seen
    BY <1>2 DEF SiemWork, SiemPlaces
  <2> QED BY <2>1, IdleSiemFields
<1> HIDE DEF new
<1>4. siTask' \in [SiemTasks -> SiemWork] /\ siTask'[t] = new /\ \A u \in SiemTasks \ {t} : siTask'[u] = siTask[u]
  BY <1>1, <1>3 DEF SiTypes
<1>5. <<>> \in Seq(AuditEvents) /\ (\A e : OnlyOnce(e, <<>>)) /\ \A e : ~In(e, <<>>)
  BY NothingIn, OnlyOnceIn
<1>6. SiTypes'
  <2>1. \A u \in SiemTasks : \A e : In(e, siTask'[u].events) \/ In(e, siTask'[u].seen) => e \in siHeld
    BY <1>3, <1>4, <1>5 DEF SiTypes
  <2>2. siStake' \subseteq siHeld
    BY <1>1 DEF SiTypes
  <2> QED BY <1>1, <1>4, <1>5, <2>1, <2>2 DEF SiTypes
<1>7. SiemShape'
  <2>1. \A u \in SiemTasks \ {t} : siTask[u].at = "clear" => u \in siStale'
    BY <1>1 DEF Overtaken, Accesses
  <2> QED BY <1>1, <1>3, <1>4, <2>1 DEF SiemShape, SiemTasks
<1>8. ASSUME moFaults' = 0, siPhase' = "up" PROVE NoneFailed'
  BY <1>1, <1>3, <1>4, <1>8 DEF SiemOnce, NoneFailed
<1>9. CASE t \in siStale
  BY <1>1, <1>6, <1>7, <1>8, <1>9, AllIsAtStake
<1>10. CASE t \notin siStale
  <2>1. siStake' = siStake /\ task.events = siBuffer
    BY <1>1, <1>2, <1>10
  <2> HIDE DEF task
  <2>2. SiemKept'
    <3>1. \A u \in SiemTasks : siTask'[u].events = siTask[u].events
      BY <1>3, <1>4 DEF task
    <3>2. siTask'[t].events = siBuffer
      BY <2>1, <3>1 DEF task
    <3>3. \A e : Somewhere(e) => Somewhere(e)'
      BY <1>1, <3>1, <3>2 DEF Somewhere
    <3> QED BY <1>1, <2>1, <3>3 DEF SiemKept
  <2>3. SiemOnce'
    <3> SUFFICES ASSUME moFaults' = 0, siPhase' = "up", NEW e \in AuditEvents \ siStake' PROVE EventOnce(e)'
      BY <1>8 DEF SiemOnce
    <3>1. EventOnce(e) /\ siSent' = siSent
      BY <1>1, <2>1 DEF SiemOnce
    <3>2. \A u \in SiemTasks : Carries(u, e)' <=> (u = t /\ In(e, siBuffer)) \/ (u # t /\ Carries(u, e))
      BY <1>3, <1>4, <1>5, <2>1 DEF Carries
    <3>3. \A u \in SiemTasks : siTask'[u].at \in {"append", "send"} => OnlyOnce(e, siTask'[u].events)
      BY <1>3, <1>4, <2>1, <3>1 DEF EventOnce
    <3>4. \A u, v \in SiemTasks : Carries(u, e)' /\ Carries(v, e)' => u = v
      BY <3>1, <3>2 DEF EventOnce
    <3>5. \A u \in SiemTasks : Carries(u, e)' => ~In(e, siBuffer') /\ siSent'[e] = 0
      BY <1>1, <1>5, <3>1, <3>2 DEF EventOnce
    <3>6. OnlyOnce(e, siBuffer') /\ siSent'[e] <= 1 /\ (In(e, siBuffer') => siSent'[e] = 0)
      BY <1>1, <1>5, <3>1 DEF EventOnce
    <3> QED BY <3>3, <3>4, <3>5, <3>6 DEF EventOnce
  <2> QED BY <1>6, <1>7, <2>2, <2>3
<1> QED BY <1>9, <1>10

\* How often the endpoint receives an event of a batch.
Count(e, batch, taken) == Cardinality({i \in DOMAIN batch : batch[i] = e} \cap taken)
LEMMA CountReceived ==
    ASSUME NEW batch \in Seq(AuditEvents), NEW taken \in SUBSET (1 .. Len(batch)), NEW e
    PROVE  /\ Count(e, batch, taken) \in Nat /\ (Count(e, batch, taken) > 0 <=> \E i \in taken : batch[i] = e)
           /\ OnlyOnce(e, batch) => Count(e, batch, taken) <= 1
<1> DEFINE n == Len(batch)  T == {i \in DOMAIN batch : batch[i] = e} \cap taken
<1>1. DOMAIN batch = 1 .. n /\ n \in Int /\ 1 \in Int
  OBVIOUS
<1>2. T \subseteq 1 .. n /\ (T = {} <=> ~\E i \in taken : batch[i] = e)
  BY <1>1
<1>3. OnlyOnce(e, batch) => \A i, j \in T : i = j
  BY <1>1 DEF OnlyOnce
<1> HIDE DEF n, T
<1>4. IsFiniteSet(T)
  BY <1>1, <1>2, FS_Interval, FS_Subset
<1>5. Cardinality(T) \in Nat /\ (Cardinality(T) = 0 <=> T = {})
  BY <1>4, FS_CardinalityType, FS_EmptySet
<1>6. ASSUME OnlyOnce(e, batch) PROVE Cardinality(T) <= 1
  <2>1. CASE T = {}
    BY <1>5, <2>1
  <2>2. CASE T # {}
    <3>1. PICK i \in T : TRUE
      BY <2>2
    <3>2. T = {i}
      BY <1>3, <1>6, <3>1
    <3>3. Cardinality({i}) = 1
      BY FS_Singleton
    <3> QED BY <3>2, <3>3
  <2> QED BY <2>1, <2>2
<1> QED BY <1>2, <1>5, <1>6 DEF T, Count

LEMMA SumOfTwo == ASSUME NEW a \in Nat, NEW b \in Nat PROVE a + b \in Nat /\ (a + b > 0 <=> a > 0 \/ b > 0)
OBVIOUS

\* What the endpoint receives is what the task held, all of it or some of its events.
LEMMA BatchIsSent == ASSUME SiIInv, NEW t \in SiemTasks, SendSiemBatch(t) PROVE SiIInv'
<1> USE DEF SiIInv
<1> DEFINE batch == siTask[t].events
           again == [siTask[t] EXCEPT !.at = "read again"]
           count(e, taken) == Count(e, batch, taken)
           gone(taken) == siDropped \cup {batch[i] : i \in DOMAIN batch \ taken}
<1>1. siTask[t].at = "send" /\ batch \in Seq(AuditEvents) /\ siTask[t] \in SiemWork
      /\ UNCHANGED <<siBuffer, siPhase, siHeld, siStale, siStake>>
  BY SiemTask DEF SendSiemBatch
<1>2. again \in SiemWork /\ again.at = "read again" /\ again.events = batch /\ again.seen = siTask[t].seen
  BY <1>1 DEF SiemWork, SiemPlaces
<1>3. DOMAIN batch = 1 .. Len(batch) /\ Len(batch) \in Nat
  BY <1>1
<1>4. Received(Len(batch)) \subseteq SUBSET (1 .. Len(batch)) /\ 1 .. Len(batch) \in SUBSET (1 .. Len(batch))
  <2> DEFINE n == Len(batch)
  <2>1. n \in Nat /\ \A k \in 0 .. n : 1 .. k \subseteq 1 .. n
    BY <1>3
  <2> HIDE DEF n
  <2> QED BY <2>1 DEF Received, n
<1>5. \E taken \in SUBSET (1 .. Len(batch)), new \in {IdleSiem, again} :
         /\ siSent' = [e \in AuditEvents |-> siSent[e] + count(e, taken)]
         /\ siTask' = [siTask EXCEPT ![t] = new]
         /\ \/ new = IdleSiem /\ siDropped' = gone(taken) /\ moFaults' = moFaults + 1
            \/ new = IdleSiem /\ siDropped' = siDropped /\ moFaults' = moFaults /\ taken = DOMAIN batch
            \/ new = IdleSiem /\ siDropped' = gone({}) /\ moFaults' = moFaults + 1
            \/ new = again /\ siDropped' = siDropped /\ moFaults' = moFaults + 1
  <2>1. \/ siSent' = [e \in AuditEvents |-> siSent[e] + count(e, DOMAIN batch)]
           /\ siTask' = [siTask EXCEPT ![t] = IdleSiem] /\ siDropped' = siDropped /\ moFaults' = moFaults
        \/ \E taken \in Received(Len(batch)) :
             /\ siSent' = [e \in AuditEvents |-> siSent[e] + count(e, taken)] /\ moFaults' = moFaults + 1
             /\ \/ siTask' = [siTask EXCEPT ![t] = IdleSiem] /\ (siDropped' = gone(taken) \/ siDropped' = gone({}))
                \/ siTask' = [siTask EXCEPT ![t] = again] /\ siDropped' = siDropped
    BY DEF SendSiemBatch, SiemGoes, MonitorFault, Count
  <2> HIDE DEF count, gone, again, batch
  <2> QED BY <1>3, <1>4, <2>1
<1>6. PICK taken \in SUBSET (1 .. Len(batch)), new \in {IdleSiem, again} :
         /\ siSent' = [e \in AuditEvents |-> siSent[e] + count(e, taken)]
         /\ siTask' = [siTask EXCEPT ![t] = new]
         /\ \/ new = IdleSiem /\ siDropped' = gone(taken) /\ moFaults' = moFaults + 1
            \/ new = IdleSiem /\ siDropped' = siDropped /\ moFaults' = moFaults /\ taken = DOMAIN batch
            \/ new = IdleSiem /\ siDropped' = gone({}) /\ moFaults' = moFaults + 1
            \/ new = again /\ siDropped' = siDropped /\ moFaults' = moFaults + 1
  BY <1>5
<1>7. new \in SiemWork /\ new.at \in {"idle", "read again"} /\ (new = IdleSiem => new.events = <<>> /\ new.at = "idle" /\ new.seen = <<>>)
      /\ (new # IdleSiem => new.events = batch /\ new.at = "read again" /\ new.seen = siTask[t].seen)
  BY <1>2, <1>6, IdleSiemFields
<1>8. siTask' \in [SiemTasks -> SiemWork] /\ siTask'[t] = new /\ \A u \in SiemTasks \ {t} : siTask'[u] = siTask[u]
  BY <1>6, <1>7 DEF SiTypes
<1>9. \A e \in AuditEvents : count(e, taken) \in Nat /\ (count(e, taken) > 0 <=> \E i \in taken : batch[i] = e)
                             /\ (OnlyOnce(e, batch) => count(e, taken) <= 1)
  <2>1. batch \in Seq(AuditEvents)
    BY <1>1
  <2> HIDE DEF batch
  <2>2. ASSUME NEW e \in AuditEvents
        PROVE  /\ count(e, taken) \in Nat /\ (count(e, taken) > 0 <=> \E i \in taken : batch[i] = e)
               /\ OnlyOnce(e, batch) => count(e, taken) <= 1
    BY <2>1, CountReceived
  <2> QED BY <2>2
<1> HIDE DEF count
<1>10. siSent' \in [AuditEvents -> Nat] /\ \A e \in AuditEvents :
          siSent'[e] = siSent[e] + count(e, taken) /\ (siSent'[e] > 0 <=> siSent[e] > 0 \/ \E i \in taken : batch[i] = e)
  <2>1. \A e \in AuditEvents : siSent'[e] = siSent[e] + count(e, taken) /\ siSent[e] \in Nat
    BY <1>6 DEF SiTypes
  <2>2. \A e \in AuditEvents : siSent'[e] \in Nat /\ (siSent'[e] > 0 <=> siSent[e] > 0 \/ count(e, taken) > 0)
    <3> TAKE e \in AuditEvents
    <3> DEFINE a == siSent[e]  b == count(e, taken)
    <3>1. a \in Nat /\ b \in Nat /\ siSent'[e] = a + b
      BY <1>9, <2>1
    <3> HIDE DEF a, b
    <3>2. a + b \in Nat /\ (a + b > 0 <=> a > 0 \/ b > 0)
      BY <3>1, SumOfTwo
    <3> QED BY <3>1, <3>2 DEF a, b
  <2> QED BY <1>6, <1>9, <2>1, <2>2
<1>11. \A e : (\E i \in taken : batch[i] = e) => In(e, batch)
  BY DEF In
<1> HIDE DEF batch, again
<1>12. SiTypes'
  <2>1. moFaults' \in Nat
    BY <1>6 DEF SiTypes
  <2>2. \A u \in SiemTasks : \A e : In(e, siTask'[u].events) \/ In(e, siTask'[u].seen) => e \in siHeld
    BY <1>7, <1>8, NothingIn DEF SiTypes, batch
  <2>3. \A e \in AuditEvents : siSent'[e] > 0 => e \in siHeld
    BY <1>10, <1>11 DEF SiTypes, batch
  <2> QED BY <1>1, <1>8, <1>10, <2>1, <2>2, <2>3 DEF SiTypes
<1>13. SiemShape'
  <2>1. siPhase = "up" => t # Closer \/ batch = <<>>
    BY DEF SiemShape, batch
  <2> QED BY <1>1, <1>7, <1>8, <2>1 DEF SiemShape, SiemTasks
<1>14. SiemKept'
  <2> SUFFICES ASSUME siPhase' # "down", NEW e \in siHeld' \ siStake' PROVE Somewhere(e)'
    BY DEF SiemKept
  <2>1. Somewhere(e) /\ e \in AuditEvents
    BY <1>1 DEF SiemKept, SiTypes
  <2>2. ASSUME In(e, batch) PROVE siSent'[e] > 0 \/ In(e, siTask'[t].events) \/ e \in siDropped'
    <3>1. PICK i \in DOMAIN batch : batch[i] = e
      BY <1>3, <2>2 DEF In, batch
    <3>2. CASE i \in taken
      BY <1>10, <2>1, <3>1, <3>2
    <3>3. CASE i \notin taken
      <4>1. e \in gone(taken) /\ e \in gone({})
        BY <3>1, <3>3
      <4>2. CASE new = again
        BY <1>2, <1>8, <2>2, <4>2 DEF batch, again
      <4>3. CASE new # again
        BY <1>6, <3>1, <3>3, <4>1, <4>3
      <4> QED BY <4>2, <4>3
    <3> QED BY <3>2, <3>3
  <2>3. \A u \in SiemTasks \ {t} : siTask'[u].events = siTask[u].events
    BY <1>8
  <2>4. siDropped \subseteq siDropped'
    BY <1>6
  <2>5. siSent[e] > 0 => siSent'[e] > 0
    BY <1>10, <2>1
  <2> QED BY <1>1, <2>1, <2>2, <2>3, <2>4, <2>5 DEF Somewhere, batch
<1>15. SiemOnce'
  <2> SUFFICES ASSUME moFaults' = 0, siPhase' = "up" PROVE NoneFailed' /\ \A e \in AuditEvents \ siStake' : EventOnce(e)'
    BY DEF SiemOnce
  <2>1. moFaults \in Nat
    BY DEF SiTypes
  <2>2. new = IdleSiem /\ moFaults = 0
    BY <1>6, <2>1
  <2>3. NoneFailed'
    BY <1>1, <1>7, <1>8, <2>2 DEF SiemOnce, NoneFailed
  <2>4. ASSUME NEW e \in AuditEvents \ siStake' PROVE EventOnce(e)'
    <3>1. EventOnce(e)
      BY <1>1, <2>2 DEF SiemOnce
    <3>2. Carries(t, e) <=> In(e, batch)
      BY <1>1 DEF Carries, batch
    <3>3. \A u \in SiemTasks : Carries(u, e)' <=> u # t /\ Carries(u, e)
      BY <1>7, <1>8, <2>2 DEF Carries
    <3>4. siSent[e] \in Nat /\ siSent[e] <= 1 /\ siSent'[e] = siSent[e] + count(e, taken) /\ count(e, taken) \in Nat
      BY <1>9, <1>10, <3>1 DEF SiTypes, EventOnce
    <3>5. In(e, batch) => ~In(e, siBuffer) /\ siSent[e] = 0 /\ count(e, taken) <= 1
      BY <1>1, <1>9, <3>1, <3>2 DEF EventOnce, batch
    <3>6. ~In(e, batch) => siSent'[e] = siSent[e]
      BY <1>9, <1>11, <3>4
    <3>7. siSent'[e] <= 1
      <4>1. CASE In(e, batch)
        BY <3>4, <3>5, <4>1
      <4>2. CASE ~In(e, batch)
        BY <3>4, <3>6, <4>2
      <4> QED BY <4>1, <4>2
    <3>8. OnlyOnce(e, siBuffer') /\ (In(e, siBuffer') => siSent'[e] = 0)
      BY <1>1, <3>1, <3>5, <3>6 DEF EventOnce
    <3>9. \A u \in SiemTasks : siTask'[u].at \in {"append", "send"} => OnlyOnce(e, siTask'[u].events)
      BY <1>7, <1>8, <2>2, <3>1 DEF EventOnce
    <3>10. \A u, v \in SiemTasks : Carries(u, e)' /\ Carries(v, e)' => u = v
      BY <3>1, <3>3 DEF EventOnce
    <3>11. ASSUME NEW u \in SiemTasks, Carries(u, e)' PROVE ~In(e, siBuffer') /\ siSent'[e] = 0
      <4>1. u # t /\ Carries(u, e)
        BY <3>3, <3>11
      <4>2. ~In(e, batch) /\ ~In(e, siBuffer) /\ siSent[e] = 0
        BY <3>1, <3>2, <4>1 DEF EventOnce
      <4> QED BY <1>1, <3>6, <4>2
    <3> QED BY <3>7, <3>8, <3>9, <3>10, <3>11 DEF EventOnce
  <2> QED BY <2>3, <2>4
<1> QED BY <1>12, <1>13, <1>14, <1>15

\* Nobody has anything when the process has ended.
LEMMA ProcessEnds == ASSUME SiIInv, NEW t \in SiemTasks, NilIsSent(t) PROVE SiIInv'
<1>1. siPhase' = "down" /\ siTask' = [u \in SiemTasks |-> IdleSiem] /\ siBuffer' = <<>>
      /\ UNCHANGED <<siSent, siHeld, siDropped, siStake, moFaults>>
  BY DEF NilIsSent
<1>2. siTask' \in [SiemTasks -> SiemWork] /\ \A u \in SiemTasks : siTask'[u] = IdleSiem
  BY <1>1, IdleSiemFields
<1>3. <<>> \in Seq(AuditEvents) /\ \A e : ~In(e, <<>>)
  BY NothingIn
<1>4. SiTypes'
  BY <1>1, <1>2, <1>3, IdleSiemFields DEF SiIInv, SiTypes
<1>5. SiemShape'
  BY <1>1, <1>2, IdleSiemFields DEF SiemShape
<1> QED BY <1>1, <1>4, <1>5 DEF SiIInv, SiemOnce, SiemKept

\* The loop puts its batch back, in two steps, after a failure.
LEMMA BatchIsPutBack == ASSUME SiIInv, PutsBack PROVE SiIInv'
<1> USE DEF SiIInv
<1> DEFINE task == siTask[Loop]
           reading == [siTask[Loop] EXCEPT !.at = "put back", !.seen = siBuffer]
<1>1. UNCHANGED <<siPhase, siSent, siHeld, siDropped, moFaults>> /\ task.at \in {"read again", "put back"} /\ Loop \in SiemTasks /\ Loop # Closer
  BY DEF PutsBack, SiemTasks, Loop, Closer
<1>2. task \in SiemWork /\ task.events \in Seq(AuditEvents) /\ task.seen \in Seq(AuditEvents)
  BY <1>1, SiemTask
<1>3. reading \in SiemWork /\ reading.at = "put back" /\ reading.events = task.events /\ reading.seen = siBuffer
  BY <1>2 DEF SiemWork, SiemPlaces, SiTypes
<1>4. ~(moFaults = 0 /\ siPhase = "up")
  BY <1>1 DEF SiemOnce, NoneFailed
<1>5. SiemOnce'
  BY <1>1, <1>4 DEF SiemOnce
<1>6. CASE UNCHANGED <<siBuffer, siStale, siStake>> /\ siTask' = [siTask EXCEPT ![Loop] = reading]
  <2> HIDE DEF reading
  <2>1. siTask' \in [SiemTasks -> SiemWork] /\ siTask'[Loop] = reading /\ \A u \in SiemTasks \ {Loop} : siTask'[u] = siTask[u]
    BY <1>1, <1>3, <1>6 DEF SiTypes
  <2>2. SiTypes'
    BY <1>1, <1>3, <1>6, <2>1 DEF SiTypes
  <2>3. SiemShape'
    BY <1>1, <1>3, <1>6, <2>1 DEF SiemShape, SiemTasks
  <2>4. SiemKept'
    <3>1. \A u \in SiemTasks : siTask'[u].events = siTask[u].events
      BY <1>3, <2>1
    <3> QED BY <1>1, <1>6, <3>1 DEF SiemKept, Somewhere
  <2> QED BY <1>5, <2>2, <2>3, <2>4
<1>7. CASE task.at = "put back" /\ Appends(Loop) /\ siTask' = [siTask EXCEPT ![Loop] = IdleSiem]
  <2>1. siTask' \in [SiemTasks -> SiemWork] /\ siTask'[Loop] = IdleSiem /\ \A u \in SiemTasks \ {Loop} : siTask'[u] = siTask[u]
    BY <1>1, <1>7, IdleSiemFields DEF SiTypes
  <2>2. /\ siBuffer' \in Seq(AuditEvents) /\ \A e : In(e, siBuffer') => e \in siHeld
        /\ Loop \in siStale => siStake' = siHeld
        /\ Loop \notin siStale => /\ siStake' = siStake
                                  /\ \A e : In(e, siBuffer') <=> In(e, siBuffer) \/ In(e, task.events)
        /\ \A u \in SiemTasks \ {Loop} : siTask[u].at = "clear" => u \in siStale'
    BY <1>1, <1>7, Appended DEF Accesses
  <2> HIDE DEF task
  <2>3. SiTypes'
    <3>1. siStake' \subseteq siHeld
      BY <2>2 DEF SiTypes
    <3>2. \A u \in SiemTasks : \A e : In(e, siTask'[u].events) \/ In(e, siTask'[u].seen) => e \in siHeld
      BY <2>1, IdleSiemFields, NothingIn DEF SiTypes
    <3> QED BY <1>1, <2>1, <2>2, <3>1, <3>2 DEF SiTypes
  <2>4. SiemShape'
    BY <1>1, <2>1, <2>2, IdleSiemFields DEF SiemShape, SiemTasks
  <2>5. SiemKept'
    <3>1. CASE Loop \in siStale
      BY <1>1, <2>2, <3>1 DEF SiemKept
    <3>2. CASE Loop \notin siStale
      <4>1. \A u \in SiemTasks \ {Loop} : siTask'[u].events = siTask[u].events
        BY <2>1
      <4>2. \A e : Somewhere(e) => Somewhere(e)'
        BY <1>1, <2>2, <3>2, <4>1 DEF Somewhere, task
      <4> QED BY <1>1, <2>2, <3>2, <4>2 DEF SiemKept
    <3> QED BY <3>1, <3>2
  <2> QED BY <1>5, <2>3, <2>4, <2>5
<1> QED BY <1>6, <1>7 DEF PutsBack, SiemGoes

\* Close sends the buffer and leaves it; the loop ends without touching it.
LEMMA SiemIsClosed == ASSUME SiIInv, SiemClose \/ LoopEnds PROVE SiIInv'
<1> USE DEF SiIInv
<1> DEFINE sending == [at |-> "send", seen |-> <<>>, events |-> siBuffer]
           new == IF siBuffer = <<>> THEN IdleSiem ELSE sending
<1>1. UNCHANGED <<siBuffer, siSent, siHeld, siDropped, siStale, siStake, moFaults>> /\ siPhase' # "up" /\ siPhase # "down"
  BY DEF SiemClose, LoopEnds
<1>2. SiemOnce'
  BY <1>1 DEF SiemOnce
<1>3. CASE SiemClose
  <2>1. siTask' = [siTask EXCEPT ![Closer] = new] /\ siTask[Closer].events = <<>> /\ Closer \in SiemTasks
    BY <1>3 DEF SiemClose, SiemGoes, SiemShape, SiemTasks
  <2>2. new \in SiemWork /\ new.at \in {"idle", "send"} /\ (new.at = "idle" => new.events = <<>>) /\ new.seen = <<>> /\ (new.events = <<>> \/ new.events = siBuffer)
    <3>1. <<>> \in Seq(AuditEvents)
      OBVIOUS
    <3>2. sending \in SiemWork /\ sending.at = "send" /\ sending.seen = <<>> /\ sending.events = siBuffer
      BY <3>1 DEF SiemWork, SiemPlaces, SiTypes
    <3> HIDE DEF sending
    <3> QED BY <3>2, IdleSiemFields
  <2> HIDE DEF new
  <2>3. siTask' \in [SiemTasks -> SiemWork] /\ siTask'[Closer] = new /\ \A u \in SiemTasks \ {Closer} : siTask'[u] = siTask[u]
    BY <2>1, <2>2 DEF SiTypes
  <2>4. SiTypes'
    <3>1. \A u \in SiemTasks : \A e : In(e, siTask'[u].events) \/ In(e, siTask'[u].seen) => e \in siHeld
      BY <2>2, <2>3, NothingIn DEF SiTypes
    <3> QED BY <1>1, <2>3, <3>1 DEF SiTypes
  <2>5. SiemShape'
    BY <1>1, <2>2, <2>3 DEF SiemShape
  <2>6. SiemKept'
    <3>1. \A e : ~In(e, siTask[Closer].events)
      BY <2>1, NothingIn
    <3>2. \A u \in SiemTasks : \A e : In(e, siTask[u].events) => In(e, siTask'[u].events)
      BY <2>3, <3>1
    <3> QED BY <1>1, <3>2 DEF SiemKept, Somewhere
  <2> QED BY <1>2, <2>4, <2>5, <2>6
<1>4. CASE LoopEnds
  <2>1. siTask' = siTask
    BY <1>4 DEF LoopEnds
  <2> QED BY <1>1, <1>2, <2>1 DEF SiTypes, SiemShape, SiemKept, Somewhere
<1> QED BY <1>3, <1>4

\* Failures of the other parts only end what SiemOnce says.
LEMMA SiStep == ASSUME SiIInv, (SiNext \/ (UNCHANGED siVars /\ (moFaults' = moFaults \/ moFaults' = moFaults + 1))) PROVE SiIInv'
<1>1. CASE UNCHANGED siVars /\ (moFaults' = moFaults \/ moFaults' = moFaults + 1)
  <2>1. UNCHANGED <<siBuffer, siTask, siPhase, siSent, siHeld, siDropped, siStale, siStake>>
    BY <1>1 DEF siVars
  <2>2. moFaults \in Nat
    BY DEF SiIInv, SiTypes
  <2>3. moFaults' \in Nat /\ (moFaults' = 0 => moFaults = 0)
    BY <1>1, <2>2
  <2>4. SiTypes' /\ SiemShape' /\ SiemKept'
    BY <2>1, <2>3 DEF SiIInv, SiTypes, SiemShape, SiemKept, Somewhere
  <2>5. NoneFailed' = NoneFailed /\ \A e : EventOnce(e)' = EventOnce(e)
    BY <2>1 DEF NoneFailed, EventOnce, Carries
  <2>6. SiemOnce'
    BY <2>1, <2>3, <2>5 DEF SiIInv, SiemOnce
  <2> QED BY <2>4, <2>6 DEF SiIInv
<1> QED BY <1>1, EventIsRead, EventIsBuffered, BufferIsCopied, BufferIsCleared, BatchIsSent, ProcessEnds, BatchIsPutBack,
           SiemIsClosed DEF SiNext

LEMMA SiemHolds == SiIInv => SiemIsKept /\ SiemSendsOnce
<1> SUFFICES ASSUME SiIInv PROVE SiemIsKept /\ SiemSendsOnce
  OBVIOUS
<1>1. \A seq \in Seq(AuditEvents) : \A e : In(e, seq) => e \in ToSet(seq)
  <2> TAKE seq \in Seq(AuditEvents)
  <2>1. DOMAIN seq = 1 .. Len(seq)
    OBVIOUS
  <2> QED BY <2>1 DEF In, ToSet
<1>2. siBuffer \in Seq(AuditEvents) /\ \A t \in SiemTasks : siTask[t].events \in Seq(AuditEvents)
  BY SiemTask DEF SiIInv, SiTypes
<1>3. SiemIsKept
  BY <1>1, <1>2 DEF SiIInv, SiemKept, Somewhere, SiemIsKept
<1>4. SiemSendsOnce
  BY DEF SiIInv, SiemOnce, EventOnce, SiemSendsOnce
<1> QED BY <1>3, <1>4

----------------------------------------------------------------------------
(***************************************************************************)
(* The incident, the gauges and the trend.                                 *)
(***************************************************************************)
Taken == (KnownActions \X {0}) \cup (Analysts \X (1 .. MaxIncidentUpdates))
IncidentType == [status : IncidentStatuses \cup {"none"}, triaged : BOOLEAN, resolved : BOOLEAN, actions : SUBSET Taken]
WorkType == [at : {"idle", "respond", "write"}, copy : IncidentType, base : IncidentType, made : SUBSET Taken]
InTypes ==
    /\ inRow \in IncidentType /\ inTask \in [Analysts \cup {Creator} -> WorkType] /\ inUpdates \in 0 .. MaxIncidentUpdates
    /\ inMade \subseteq Taken /\ inOverlap \in BOOLEAN
\* A status comes with its time, and a copy has the actions of the row it was made from and the new ones.
Timed(incident) == (incident.status = "triaged" => incident.triaged) /\ (incident.status = "resolved" => incident.resolved)
WorkFits(work) == Timed(work.copy) /\ work.made \subseteq work.copy.actions /\ work.base.actions \subseteq work.copy.actions
InIInv ==
    /\ InTypes /\ Timed(inRow) /\ \A x \in Analysts \cup {Creator} : WorkFits(inTask[x])
    /\ ~inOverlap => inMade \subseteq inRow.actions

LEMMA IdleWorkFits == /\ IdleWork \in WorkType /\ WorkFits(IdleWork) /\ NoIncident \in IncidentType /\ Timed(NoIncident) /\ NoIncident.actions = {}
                      /\ NewIncident \in IncidentType /\ Timed(NewIncident) /\ NewIncident.actions = {}
<1>1. NoIncident \in IncidentType /\ Timed(NoIncident) /\ NoIncident.actions = {}
  BY DEF NoIncident, IncidentType, Timed
<1>2. NewIncident \in IncidentType /\ Timed(NewIncident) /\ NewIncident.actions = {}
  BY DEF NoIncident, NewIncident, IncidentType, Timed, IncidentStatuses
<1>3. IdleWork \in WorkType /\ WorkFits(IdleWork)
  BY <1>1 DEF IdleWork, WorkType, WorkFits
<1> QED BY <1>1, <1>2, <1>3

LEMMA InStarts == InInit => InIInv
<1> SUFFICES ASSUME InInit PROVE InIInv
  OBVIOUS
<1>1. MaxIncidentUpdates \in Nat
  BY MonitoringAssumption
<1>2. inRow = NoIncident /\ inTask = [x \in Analysts \cup {Creator} |-> IdleWork] /\ inUpdates = 0 /\ inMade = {} /\ ~inOverlap
      /\ inOverlap \in BOOLEAN
  BY DEF InInit
<1>3. inTask \in [Analysts \cup {Creator} -> WorkType] /\ \A x \in Analysts \cup {Creator} : WorkFits(inTask[x])
  BY <1>2, IdleWorkFits
<1>4. inUpdates \in 0 .. MaxIncidentUpdates
  BY <1>1, <1>2
<1>5. InTypes /\ Timed(inRow)
  BY <1>2, <1>3, <1>4, IdleWorkFits DEF InTypes
<1> QED BY <1>2, <1>3, <1>5 DEF InIInv

\* Who works on the incident goes on with work that fits.
LEMMA WorkGoesOn ==
    ASSUME InIInv, NEW x \in Analysts \cup {Creator}, NEW work \in WorkType, WorkFits(work), inTask' = [inTask EXCEPT ![x] = work]
    PROVE  inTask' \in [Analysts \cup {Creator} -> WorkType] /\ \A y \in Analysts \cup {Creator} : WorkFits(inTask'[y])
BY DEF InIInv, InTypes

LEMMA IncidentIsCreated == ASSUME InIInv, CreateIncident PROVE InIInv'
<1> DEFINE work == [at |-> "respond", copy |-> NewIncident, base |-> NewIncident, made |-> {}]
<1>1. work \in WorkType /\ WorkFits(work)
  BY IdleWorkFits DEF WorkType, WorkFits
<1>2. inUpdates' = inUpdates /\ inMade' = inMade /\ inOverlap' = inOverlap /\ inRow = NoIncident
  BY DEF CreateIncident
<1>3. \/ inRow' = NewIncident /\ inTask' = [inTask EXCEPT ![Creator] = work]
      \/ inRow' = inRow /\ inTask' = inTask
  BY DEF CreateIncident
<1> HIDE DEF work
<1>4. CASE inRow' = NewIncident /\ inTask' = [inTask EXCEPT ![Creator] = work]
  <2>1. inTask' \in [Analysts \cup {Creator} -> WorkType] /\ \A y \in Analysts \cup {Creator} : WorkFits(inTask'[y])
    BY <1>1, <1>4, WorkGoesOn
  <2>2. ~inOverlap' => inMade' \subseteq inRow'.actions
    BY <1>2, <1>4, IdleWorkFits DEF InIInv
  <2>3. InTypes' /\ Timed(inRow')
    BY <1>2, <1>4, <2>1, IdleWorkFits DEF InIInv, InTypes
  <2> QED BY <2>1, <2>2, <2>3 DEF InIInv
<1>5. CASE inRow' = inRow /\ inTask' = inTask
  BY <1>2, <1>5 DEF InIInv, InTypes
<1> QED BY <1>3, <1>4, <1>5

LEMMA ResponseIsExecuted == ASSUME InIInv, ExecuteAutomatedResponse PROVE InIInv'
<1> DEFINE known == {<<Playbook[i], 0>> : i \in {j \in DOMAIN Playbook : Playbook[j] \in KnownActions}}
           old == inTask[Creator]
           answered == [old.copy EXCEPT !.actions = old.copy.actions \cup known]
           work == [old EXCEPT !.at = "write", !.copy = answered, !.made = known]
<1>1. UNCHANGED <<inRow, inUpdates, inMade, inOverlap>> /\ inTask' = [inTask EXCEPT ![Creator] = work]
  BY DEF ExecuteAutomatedResponse
<1>2. known \subseteq Taken
  BY DEF Taken
<1> HIDE DEF known
<1>3. old \in WorkType /\ WorkFits(old)
  BY DEF InIInv, InTypes
<1> HIDE DEF old
<1>4. answered \in IncidentType /\ answered.status = old.copy.status /\ answered.triaged = old.copy.triaged
      /\ answered.resolved = old.copy.resolved /\ answered.actions = old.copy.actions \cup known
  BY <1>2, <1>3 DEF WorkType, IncidentType
<1> HIDE DEF answered
<1>5. work \in WorkType /\ work.copy = answered /\ work.base = old.base /\ work.made = known
  BY <1>2, <1>3, <1>4 DEF WorkType
<1> HIDE DEF work
<1>6. WorkFits(work)
  BY <1>3, <1>4, <1>5 DEF WorkFits, Timed
<1>7. inTask' \in [Analysts \cup {Creator} -> WorkType] /\ \A y \in Analysts \cup {Creator} : WorkFits(inTask'[y])
  BY <1>1, <1>5, <1>6, WorkGoesOn
<1> QED BY <1>1, <1>7 DEF InIInv, InTypes

LEMMA IncidentIsRead == ASSUME InIInv, NEW a \in Analysts, ReadsIncident(a) PROVE InIInv'
<1>1. UNCHANGED <<inRow, inMade, inOverlap>> /\ inUpdates' = inUpdates + 1 /\ inUpdates < MaxIncidentUpdates /\ MaxIncidentUpdates \in Nat
  BY MonitoringAssumption DEF ReadsIncident
<1>2. inUpdates' \in 1 .. MaxIncidentUpdates
  BY <1>1 DEF InIInv, InTypes
<1>3. inUpdates' \in 0 .. MaxIncidentUpdates
  BY <1>1 DEF InIInv, InTypes
<1>4. PICK status \in IncidentStatuses, acts \in {{}, {<<a, inUpdates'>>}} :
         inTask' = [inTask EXCEPT ![a] =
              [at |-> "write", base |-> inRow, made |-> acts,
               copy |-> [status |-> status, triaged |-> inRow.triaged \/ status = "triaged",
                         resolved |-> inRow.resolved \/ status = "resolved", actions |-> inRow.actions \cup acts]]]
  BY DEF ReadsIncident
<1> DEFINE tri == inRow.triaged \/ status = "triaged"
           res == inRow.resolved \/ status = "resolved"
           copy == [status |-> status, triaged |-> tri, resolved |-> res, actions |-> inRow.actions \cup acts]
           work == [at |-> "write", base |-> inRow, made |-> acts, copy |-> copy]
<1>5. acts \subseteq Taken /\ inRow \in IncidentType /\ inRow.actions \subseteq Taken
  BY <1>2 DEF Taken, InIInv, InTypes, IncidentType
<1>6. tri \in BOOLEAN /\ res \in BOOLEAN /\ (status = "triaged" => tri) /\ (status = "resolved" => res)
  OBVIOUS
<1> HIDE DEF tri, res
<1>7. copy \in IncidentType /\ Timed(copy) /\ copy.actions = inRow.actions \cup acts
  <2>1. copy.status = status /\ copy.triaged = tri /\ copy.resolved = res /\ copy.actions = inRow.actions \cup acts
    OBVIOUS
  <2>2. copy \in IncidentType
    BY <1>5, <1>6 DEF IncidentType
  <2> HIDE DEF copy
  <2>3. Timed(copy)
    BY <1>6, <2>1, Zenon DEF Timed
  <2> QED BY <2>1, <2>2, <2>3
<1> HIDE DEF copy
<1>8. work \in WorkType /\ WorkFits(work)
  BY <1>5, <1>7 DEF WorkType, WorkFits
<1>9. inTask' = [inTask EXCEPT ![a] = work]
  BY <1>4 DEF copy, tri, res
<1> HIDE DEF work
<1>10. inTask' \in [Analysts \cup {Creator} -> WorkType] /\ \A y \in Analysts \cup {Creator} : WorkFits(inTask'[y])
  BY <1>8, <1>9, WorkGoesOn
<1> QED BY <1>1, <1>3, <1>10 DEF InIInv, InTypes

LEMMA IncidentIsUpdated == ASSUME InIInv, NEW x \in Analysts \cup {Creator}, UpdateIncident(x) PROVE InIInv'
<1> DEFINE work == inTask[x]
<1>1. work \in WorkType /\ WorkFits(work) /\ inUpdates' = inUpdates /\ inTask' = [inTask EXCEPT ![x] = IdleWork]
  BY DEF UpdateIncident, InIInv, InTypes
<1>2. inTask' \in [Analysts \cup {Creator} -> WorkType] /\ \A y \in Analysts \cup {Creator} : WorkFits(inTask'[y])
  BY <1>1, IdleWorkFits, WorkGoesOn
<1>3. CASE UNCHANGED <<inRow, inMade, inOverlap>>
  BY <1>1, <1>2, <1>3 DEF InIInv, InTypes
<1>4. CASE inRow' = work.copy /\ inMade' = inMade \cup work.made /\ inOverlap' = (inOverlap \/ inRow # work.base)
  <2>1. work.copy \in IncidentType /\ work.made \subseteq Taken /\ Timed(work.copy) /\ work.made \subseteq work.copy.actions
        /\ work.base.actions \subseteq work.copy.actions
    BY <1>1 DEF WorkType, WorkFits
  <2> HIDE DEF work
  <2>2. ASSUME ~inOverlap' PROVE ~inOverlap /\ inRow = work.base
    BY <1>4, <2>2
  <2>3. ~inOverlap' => inMade' \subseteq inRow'.actions
    BY <1>4, <2>1, <2>2 DEF InIInv
  <2>4. inOverlap' \in BOOLEAN
    BY <1>4
  <2> QED BY <1>1, <1>2, <1>4, <2>1, <2>3, <2>4 DEF InIInv, InTypes
<1> QED BY <1>3, <1>4 DEF UpdateIncident

LEMMA InStep == InIInv /\ [InNext]_inVars => InIInv'
<1> SUFFICES ASSUME InIInv, [InNext]_inVars PROVE InIInv'
  OBVIOUS
<1>1. CASE UNCHANGED inVars
  BY <1>1 DEF inVars, InIInv, InTypes
<1> QED BY <1>1, IncidentIsCreated, ResponseIsExecuted, IncidentIsRead, IncidentIsUpdated DEF InNext

LEMMA IncidentHolds == InIInv => IncidentIsKept
BY DEF InIInv, IncidentIsKept, Timed

\* The gauges beside the rows.
OmIInv ==
    /\ omQueue \in [QueueStatuses -> Nat] /\ omGauge \in [QueueStatuses -> Nat] /\ omFresh \subseteq QueueStatuses /\ GaugesLag

LEMMA OmStarts == OmInit => OmIInv
BY DEF OmInit, OmIInv, GaugesLag

LEMMA OmStep == OmIInv /\ [OmNext]_omVars => OmIInv'
<1> SUFFICES ASSUME OmIInv, [OmNext]_omVars PROVE OmIInv'
  OBVIOUS
<1> USE DEF OmIInv
<1>1. CASE UNCHANGED omVars
  BY <1>1 DEF omVars, GaugesLag
<1>2. CASE QueueMoves
  <2>1. ASSUME NEW from \in QueueStatuses, NEW to \in QueueStatuses, from # to, RowMoves(from, to), omGauge' = omGauge PROVE OmIInv'
    <3>1. omQueue' \in [QueueStatuses -> Nat] /\ omFresh' = omFresh \ {from, to} /\ \A s \in QueueStatuses \ {from, to} : omQueue'[s] = omQueue[s]
      BY <2>1 DEF RowMoves
    <3> QED BY <2>1, <3>1 DEF GaugesLag
  <2>2. ASSUME NEW s \in QueueStatuses, omQueue' = [omQueue EXCEPT ![s] = @ + 1] \/ (omQueue[s] > 0 /\ omQueue' = [omQueue EXCEPT ![s] = @ - 1]),
               omFresh' = omFresh \ {s}, omGauge' = omGauge PROVE OmIInv'
    <3>1. omQueue' \in [QueueStatuses -> Nat] /\ \A u \in QueueStatuses \ {s} : omQueue'[u] = omQueue[u]
      BY <2>2
    <3> QED BY <2>2, <3>1 DEF GaugesLag
  <2>3. {"pending", "processing", "published", "failed"} = QueueStatuses
    BY DEF QueueStatuses
  <2> QED BY <1>2, <2>1, <2>2, <2>3 DEF QueueMoves
<1>3. CASE CollectMetrics
  <2>1. CASE omGauge' = CollectQueueMetrics /\ omFresh' = QueueStatuses
    <3>1. omQueue' = omQueue
      BY <1>3 DEF CollectMetrics
    <3>2. \A s \in QueueStatuses : omGauge'[s] = IF omQueue[s] > 0 THEN omQueue[s] ELSE omGauge[s]
      BY <2>1 DEF CollectQueueMetrics
    <3>3. omGauge' \in [QueueStatuses -> Nat]
      BY <2>1 DEF CollectQueueMetrics
    <3> QED BY <2>1, <3>1, <3>2, <3>3 DEF GaugesLag
  <2>2. CASE UNCHANGED <<omGauge, omFresh>>
    BY <1>3, <2>2 DEF CollectMetrics, GaugesLag
  <2> QED BY <1>3, <2>1, <2>2 DEF CollectMetrics
<1> QED BY <1>1, <1>2, <1>3 DEF OmNext

\* The samples were taken in order.
TrIInv ==
    /\ omNow \in Nat /\ omTaken \in Seq(Nat) /\ TrendIsOfWindow
    /\ \A i \in 1 .. Len(omTaken) : omTaken[i] <= omNow
    /\ \A i, j \in 1 .. Len(omTaken) : i <= j => omTaken[i] <= omTaken[j]

LEMMA TrStarts == OmInit => TrIInv
<1> SUFFICES ASSUME OmInit PROVE TrIInv
  OBVIOUS
<1>1. omNow = 0 /\ omSeries = <<>> /\ omTaken = <<>> /\ Len(<<>>) = 0 /\ <<>> \in Seq(Nat) /\ DOMAIN <<>> = {}
  BY DEF OmInit
<1>2. SubSeq(<<>>, 1, 0) = <<>>
  OBVIOUS
<1>3. TrendIsOfWindow
  BY <1>1, <1>2 DEF TrendIsOfWindow
<1> QED BY <1>1, <1>3 DEF TrIInv

LEMMA EndOf ==
    ASSUME NEW seq \in Seq(Nat), NEW a \in Nat, NEW b \in Nat, a >= 1, b <= Len(seq)
    PROVE  /\ SubSeq(seq, a, b) \in Seq(Nat) /\ Len(SubSeq(seq, a, b)) = (IF a <= b THEN b - a + 1 ELSE 0)
           /\ \A i \in 1 .. b - a + 1 : SubSeq(seq, a, b)[i] = seq[a + i - 1]
<1>1. \A i \in a .. b : i \in 1 .. Len(seq)
  OBVIOUS
<1>2. \A i \in a .. b : seq[i] \in Nat
  BY <1>1
<1>3. a \in Int /\ b \in Int
  OBVIOUS
<1> QED BY <1>2, <1>3, SubSeqProperties

LEMMA PartOf ==
    ASSUME NEW seq \in Seq(Nat), NEW a \in Nat, NEW b \in Nat, a >= 1, a <= b, b <= Len(seq)
    PROVE  SubSeq(seq, a, b) \in Seq(Nat) /\ Len(SubSeq(seq, a, b)) = b - a + 1 /\ \A i \in 1 .. b - a + 1 : SubSeq(seq, a, b)[i] = seq[a + i - 1]
BY EndOf

LEMMA AddedTime ==
    ASSUME NEW seq \in Seq(Nat), NEW x \in Nat, NEW m \in Nat, Len(seq) = m
    PROVE  Append(seq, x) \in Seq(Nat) /\ Len(Append(seq, x)) = m + 1 /\ \A i \in 1 .. m + 1 : Append(seq, x)[i] = IF i = m + 1 THEN x ELSE seq[i]
OBVIOUS

\* The series stays the end of the samples that begins with the first one in the window.
LEMMA TrStep == TrIInv /\ [TrNext]_trVars => TrIInv'
<1> SUFFICES ASSUME TrIInv, [TrNext]_trVars PROVE TrIInv'
  OBVIOUS
<1> USE DEF TrIInv
<1>1. CASE UNCHANGED trVars
  BY <1>1 DEF trVars, TrendIsOfWindow
<1>2. CASE UpdatePerformanceData
  <2> DEFINE now == omNow'
             n == Len(omTaken)
             added == Append(omSeries, now)
             cutoff == now - TrendWindow
  <2>1. TrendWindow \in Nat /\ TrendWindow > 0 /\ omNow \in Nat
    BY MonitoringAssumption
  <2>2. now \in Nat /\ now > omNow /\ omTaken' = Append(omTaken, now)
    BY <1>2, <2>1 DEF UpdatePerformanceData
  <2>3. PICK first \in 1 .. Len(added) : /\ added[first] > cutoff /\ \A i \in 1 .. first - 1 : added[i] <= cutoff
                                         /\ omSeries' = SubSeq(added, first, Len(added))
    BY <1>2 DEF UpdatePerformanceData
  <2>4. PICK k \in 1 .. n + 1 : omSeries = SubSeq(omTaken, k, n) /\ \A i \in DOMAIN omTaken : omTaken[i] > omNow - TrendWindow <=> i >= k
    BY DEF TrendIsOfWindow
  <2>5. n \in Nat /\ omTaken \in Seq(Nat) /\ DOMAIN omTaken = 1 .. n /\ \A i \in 1 .. n : omTaken[i] \in Nat
    OBVIOUS
  <2> DEFINE taken == Append(omTaken, now)
  <2>6. taken \in Seq(Nat) /\ Len(taken) = n + 1 /\ DOMAIN taken = 1 .. n + 1 /\ \A i \in 1 .. n + 1 : taken[i] = IF i = n + 1 THEN now ELSE omTaken[i]
    BY <2>2, <2>5
  <2>7. omSeries \in Seq(Nat) /\ Len(omSeries) = n + 1 - k /\ \A i \in 1 .. n + 1 - k : omSeries[i] = omTaken[k + i - 1]
    <3>1. k \in Nat /\ k >= 1 /\ k <= n + 1 /\ n <= Len(omTaken)
      BY <2>5
    <3> HIDE DEF n, TrIInv
    <3>2. /\ SubSeq(omTaken, k, n) \in Seq(Nat) /\ Len(SubSeq(omTaken, k, n)) = (IF k <= n THEN n - k + 1 ELSE 0)
          /\ \A i \in 1 .. n - k + 1 : SubSeq(omTaken, k, n)[i] = omTaken[k + i - 1]
      BY <2>5, <3>1, EndOf
    <3>3. (IF k <= n THEN n - k + 1 ELSE 0) = n + 1 - k /\ n - k + 1 = n + 1 - k
      BY <2>5, <3>1
    <3> QED BY <2>4, <3>2, <3>3
  <2> DEFINE m == n + 1 - k
  <2>8. added \in Seq(Nat) /\ Len(added) = m + 1 /\ \A i \in 1 .. m + 1 : added[i] = IF i = m + 1 THEN now ELSE omSeries[i]
    <3>1. m \in Nat /\ omSeries \in Seq(Nat) /\ Len(omSeries) = m
      BY <2>4, <2>5, <2>7
    <3> HIDE DEF m, now
    <3> QED BY <2>2, <3>1, AddedTime
  <2> HIDE DEF added, taken, n, TrIInv
  <2>9. k \in Nat /\ k >= 1 /\ m \in Nat /\ first \in Nat /\ first >= 1 /\ first <= m + 1 /\ k + m = n + 1
    BY <2>3, <2>4, <2>5, <2>8
  <2>10. \A i \in 1 .. m + 1 : added[i] = taken[k + i - 1] /\ k + i - 1 \in 1 .. n + 1
    BY <2>5, <2>6, <2>7, <2>8, <2>9
  <2> DEFINE k2 == k + first - 1
  <2>11. k2 \in 1 .. n + 1 + 1 /\ k2 \in 1 .. n + 1 /\ k2 >= k
    BY <2>5, <2>9
  <2>12. \A i, j \in 1 .. n + 1 : i <= j => taken[i] <= taken[j]
    <3>1. \A i \in 1 .. n : omTaken[i] <= now
      BY <2>1, <2>2, <2>5 DEF TrIInv, n
    <3> TAKE i \in 1 .. n + 1, j \in 1 .. n + 1
    <3>2. CASE j = n + 1
      BY <2>2, <2>5, <2>6, <3>1, <3>2
    <3>3. CASE j # n + 1 /\ i <= j
      <4>1. i \in 1 .. n /\ j \in 1 .. n
        BY <2>5, <3>3
      <4>2. omTaken[i] <= omTaken[j]
        BY <3>3, <4>1 DEF TrIInv, n
      <4> QED BY <2>5, <2>6, <4>1, <4>2
    <3> QED BY <3>2, <3>3
  <2>13. \A i \in 1 .. n + 1 : taken[i] > cutoff <=> i >= k2
    <3> TAKE i \in 1 .. n + 1
    <3>1. taken[i] \in Nat /\ i \in Nat
      BY <2>5, <2>6
    <3>2. CASE i < k
      <4>1. i \in 1 .. n /\ ~(i >= k)
        BY <2>5, <2>9, <3>1, <3>2
      <4>2. ~(omTaken[i] > omNow - TrendWindow)
        BY <2>4, <2>5, <4>1
      <4>3. taken[i] = omTaken[i]
        BY <2>5, <2>6, <4>1
      <4>4. ~(taken[i] > cutoff)
        BY <2>1, <2>2, <2>5, <4>1, <4>2, <4>3
      <4> QED BY <2>9, <2>11, <3>1, <3>2, <4>4
    <3>3. CASE i >= k /\ i < k2
      <4> DEFINE j == i - k + 1
      <4>1. j \in 1 .. first - 1 /\ j \in 1 .. m + 1 /\ k + j - 1 = i
        BY <2>9, <3>1, <3>3
      <4>2. added[j] <= cutoff /\ added[j] = taken[i]
        BY <2>3, <2>10, <4>1
      <4> QED BY <2>1, <2>2, <2>9, <3>1, <3>3, <4>2
    <3>4. CASE i >= k2
      <4>1. taken[k2] > cutoff /\ taken[k2] <= taken[i] /\ taken[k2] \in Nat
        BY <2>3, <2>6, <2>8, <2>10, <2>11, <2>12, <3>4
      <4> QED BY <2>1, <2>2, <3>1, <3>4, <4>1
    <3> QED BY <2>9, <2>11, <3>1, <3>2, <3>3, <3>4
  <2> DEFINE all == n + 1  end == m + 1
  <2>14. /\ added \in Seq(Nat) /\ end \in Nat /\ first \in Nat /\ first >= 1 /\ first <= end /\ end <= Len(added) /\ Len(added) = end
         /\ taken \in Seq(Nat) /\ k2 \in Nat /\ all \in Nat /\ k2 >= 1 /\ k2 <= all /\ all <= Len(taken)
         /\ end - first + 1 = all - k2 + 1
         /\ \A i \in 1 .. end - first + 1 : first + i - 1 \in 1 .. m + 1 /\ k + (first + i - 1) - 1 = k2 + i - 1
    BY <2>5, <2>6, <2>8, <2>9, <2>11
  <2>15. \A i \in 1 .. end - first + 1 : added[first + i - 1] = taken[k2 + i - 1]
    BY <2>10, <2>14
  <2>16. SubSeq(added, first, Len(added)) = SubSeq(taken, k2, all)
    <3> DEFINE one == SubSeq(added, first, end)  two == SubSeq(taken, k2, all)
    <3> HIDE DEF m, k2, all, end
    <3>1. one \in Seq(Nat) /\ Len(one) = end - first + 1 /\ \A i \in 1 .. end - first + 1 : one[i] = added[first + i - 1]
      BY <2>14, PartOf
    <3>2. two \in Seq(Nat) /\ Len(two) = all - k2 + 1 /\ \A i \in 1 .. all - k2 + 1 : two[i] = taken[k2 + i - 1]
      BY <2>14, PartOf
    <3> HIDE DEF one, two
    <3>3. Len(one) = Len(two) /\ \A i \in 1 .. Len(one) : one[i] = two[i]
      BY <2>14, <2>15, <3>1, <3>2
    <3>4. one = two
      BY <3>1, <3>2, <3>3, SeqEqual
    <3> QED BY <2>14, <3>4 DEF one, two
  <2>17. TrendIsOfWindow'
    <3>1. omSeries' = SubSeq(omTaken', k2, Len(omTaken')) /\ DOMAIN omTaken' = 1 .. n + 1 /\ Len(omTaken') = n + 1
      BY <2>2, <2>3, <2>6, <2>16 DEF taken
    <3>2. \A i \in DOMAIN omTaken' : omTaken'[i] > omNow' - TrendWindow <=> i >= k2
      BY <2>2, <2>13, <3>1 DEF taken
    <3> HIDE DEF k2
    <3> QED BY <2>11, <3>1, <3>2 DEF TrendIsOfWindow
  <2>18. \A i \in 1 .. n + 1 : taken[i] <= now
    BY <2>2, <2>5, <2>6, <2>12
  <2> QED BY <2>2, <2>6, <2>12, <2>17, <2>18 DEF TrIInv, taken
<1> QED BY <1>1, <1>2 DEF TrNext

\* What the watchers keep follows from their invariants.
LEMMA WatchersAreSafe == AlIInv /\ SiIInv /\ InIInv /\ OmIInv /\ TrIInv => MonitoringSafety
BY AuditHolds, SiemHolds, IncidentHolds DEF OmIInv, TrIInv, MonitoringSafety
=============================================================================
