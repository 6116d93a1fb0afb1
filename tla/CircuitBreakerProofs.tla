------------------------ MODULE CircuitBreakerProofs ------------------------
(***************************************************************************)
(* The safety properties of CircuitBreaker, for any number of callers and    *)
(* any policy.  Each critical section is a function of the breaker, so the   *)
(* invariant is stated of a breaker b, the requests g in flight that began   *)
(* after it last opened and the evidence n since then.                      *)
(***************************************************************************)
EXTENDS CircuitBreaker, FiniteSetTheorems, TLAPS

Sums(b) ==
    b.counts.Requests =
        Cardinality(b.members) + b.counts.TotalSuccesses + b.counts.TotalFailures

\* In half-open the counts are the history: what began is what was admitted, and
\* the consecutive successes are all the evidence there is.
HalfOpenOK(b, g, n) ==
    /\ b.members = g
    /\ b.counts.Requests <= MaxRequests
    /\ b.counts.TotalFailures = 0
    /\ b.counts.TotalSuccesses = n
    /\ b.counts.ConsecutiveSuccesses = n

BreakerOK(b, g, n) ==
    /\ b \in Breaker
    /\ g \in SUBSET Callers /\ n \in 0 .. MaxRequests
    /\ b.members \subseteq g
    /\ Sums(b)
    /\ b.state = "closed" => n = MaxRequests
    /\ b.state = "open" => g = {} /\ n = 0
    /\ b.state = "half_open" => HalfOpenOK(b, g, n)

IInv == TypeOK /\ BreakerOK(cb, began, evidence)

\* A new generation starts with nothing counted and nobody admitted.
LEMMA FreshGeneration ==
    ASSUME NEW b \in Breaker, NEW s \in {"closed", "half_open", "open"},
           NEW f, f = NewGeneration([b EXCEPT !.state = s])
    PROVE  /\ f \in Breaker
           /\ f.state = s /\ f.counts = Cleared /\ f.members = {}
           /\ Sums(f)
<1>1. f = [state |-> s, counts |-> Cleared, expired |-> FALSE, members |-> {}]
  BY DEF NewGeneration, Breaker
<1>2. Cleared \in Counts
  BY BoundAssumption DEF Cleared, Counts
<1>3. Sums(f)
  BY <1>1, FS_EmptySet DEF Sums, Cleared
<1>4. [state |-> s, counts |-> Cleared, expired |-> FALSE, members |-> {}] \in Breaker
  BY <1>2 DEF Breaker
<1>5. f.state = s /\ f.counts = Cleared /\ f.members = {}
  BY <1>1
<1> QED BY <1>1, <1>3, <1>4, <1>5

\* currentState keeps the invariant, and opens nothing.
LEMMA CurrentOK ==
    ASSUME NEW b, NEW g, NEW n, BreakerOK(b, g, n)
    PROVE  /\ BreakerOK(CurrentState(b), g, n)
           /\ CurrentState(b).state = "open" => b.state = "open"
           /\ b.state = "closed" => CurrentState(b).state = "closed"
<1>1. CASE ~b.expired \/ b.state = "half_open"
  BY <1>1 DEF CurrentState
<1>2. CASE b.expired /\ b.state = "closed"
  <2> DEFINE f == NewGeneration([b EXCEPT !.state = "closed"])
  <2>1. CurrentState(b) = f
    BY <1>2 DEF CurrentState, NewGeneration, BreakerOK, Breaker
  <2>2. f \in Breaker /\ f.state = "closed" /\ f.members = {} /\ Sums(f)
    BY FreshGeneration DEF BreakerOK
  <2> QED BY <1>2, <2>1, <2>2 DEF BreakerOK
<1>3. CASE b.expired /\ b.state = "open"
  <2> DEFINE f == NewGeneration([b EXCEPT !.state = "half_open"])
  <2>1. CurrentState(b) = f
    BY <1>3 DEF CurrentState, SetState, BreakerOK
  <2>2. f \in Breaker /\ f.state = "half_open" /\ f.counts = Cleared /\ f.members = {} /\ Sums(f)
    BY FreshGeneration DEF BreakerOK
  <2>3. g = {} /\ n = 0
    BY <1>3 DEF BreakerOK
  <2>4. HalfOpenOK(f, g, n)
    BY <2>2, <2>3, MaxRequestsAssumption DEF HalfOpenOK, Cleared
  <2> QED BY <1>3, <2>1, <2>2, <2>3, <2>4 DEF BreakerOK
<1> QED BY <1>1, <1>2, <1>3 DEF BreakerOK, Breaker

\* Admitting a caller adds one request, which began after the last opening.
LEMMA AdmittedOK ==
    ASSUME NEW b, NEW g, NEW n, BreakerOK(b, g, n),
           NEW c \in Callers, c \notin g, Admits(b), b.counts.Requests < MaxCount
    PROVE  BreakerOK([b EXCEPT !.counts.Requests = @ + 1, !.members = @ \cup {c}],
                     g \cup {c}, n)
<1> DEFINE a == [b EXCEPT !.counts.Requests = @ + 1, !.members = @ \cup {c}]
<1>1. /\ b \in Breaker /\ b.members \subseteq g /\ Sums(b)
      /\ b.state # "open"
      /\ b.state = "half_open" => b.counts.Requests < MaxRequests
  BY MaxRequestsAssumption DEF BreakerOK, Admits, Breaker, Counts
<1>2. /\ a.state = b.state /\ a.members = b.members \cup {c}
      /\ a.counts = [b.counts EXCEPT !.Requests = @ + 1] /\ a.expired = b.expired
  BY <1>1 DEF Breaker
<1>3. /\ a.counts.Requests = b.counts.Requests + 1
      /\ a.counts.TotalSuccesses = b.counts.TotalSuccesses
      /\ a.counts.TotalFailures = b.counts.TotalFailures
      /\ a.counts.ConsecutiveSuccesses = b.counts.ConsecutiveSuccesses
      /\ a.counts \in Counts
  BY <1>1, <1>2, BoundAssumption DEF Breaker, Counts
<1>4. a \in Breaker
  BY <1>1, <1>2, <1>3 DEF Breaker
<1>5. Sums(a)
  <2>1. IsFiniteSet(b.members) /\ c \notin b.members
    BY <1>1, CallersAssumption, FS_Subset DEF Breaker
  <2>2. Cardinality(a.members) = Cardinality(b.members) + 1
    BY <1>2, <2>1, FS_AddElement
  <2>3. Cardinality(b.members) \in Nat
    BY <2>1, FS_CardinalityType
  <2> QED BY <1>1, <1>3, <2>2, <2>3 DEF Sums, Breaker, Counts
<1>6. a.state = "half_open" => HalfOpenOK(a, g \cup {c}, n)
  BY <1>1, <1>2, <1>3, MaxRequestsAssumption DEF BreakerOK, HalfOpenOK, Breaker, Counts
<1> QED BY <1>1, <1>2, <1>4, <1>5, <1>6 DEF BreakerOK
\* afterRequest, when it opens the breaker: nothing is left of the evidence.
LEMMA TrippedOK ==
    ASSUME NEW b \in Breaker
    PROVE  BreakerOK(NewGeneration([b EXCEPT !.state = "open"]), {}, 0)
<1> DEFINE f == NewGeneration([b EXCEPT !.state = "open"])
<1>1. f \in Breaker /\ f.state = "open" /\ f.members = {} /\ Sums(f)
  BY FreshGeneration
<1> QED BY <1>1, MaxRequestsAssumption DEF BreakerOK

\* Counting one success.
LEMMA SuccessCounts ==
    ASSUME NEW n \in Counts, NEW k, k = Succeeded(n)
    PROVE  /\ k \in Counts
           /\ k.Requests = n.Requests
           /\ k.TotalSuccesses = n.TotalSuccesses + 1
           /\ k.TotalFailures = n.TotalFailures
           /\ k.ConsecutiveSuccesses = n.ConsecutiveSuccesses + 1
<1>1. k = [Requests |-> n.Requests,
           TotalSuccesses |-> n.TotalSuccesses + 1,
           TotalFailures |-> n.TotalFailures,
           ConsecutiveSuccesses |-> n.ConsecutiveSuccesses + 1,
           ConsecutiveFailures |-> 0]
  BY DEF Succeeded, Counts
<1>2. /\ n.Requests \in 0 .. MaxCount /\ n.TotalSuccesses \in Nat /\ n.TotalFailures \in Nat
      /\ n.ConsecutiveSuccesses \in Nat
  BY DEF Counts
<1>3. [Requests |-> n.Requests,
       TotalSuccesses |-> n.TotalSuccesses + 1,
       TotalFailures |-> n.TotalFailures,
       ConsecutiveSuccesses |-> n.ConsecutiveSuccesses + 1,
       ConsecutiveFailures |-> 0] \in Counts
  BY <1>2 DEF Counts
<1>4. k \in Counts
  BY <1>1, <1>3
<1> QED BY <1>1, <1>4

\* Counting one failure.
LEMMA FailureCounts ==
    ASSUME NEW n \in Counts, NEW k, k = Failed(n)
    PROVE  /\ k \in Counts
           /\ k.Requests = n.Requests
           /\ k.TotalSuccesses = n.TotalSuccesses
           /\ k.TotalFailures = n.TotalFailures + 1
<1>1. k = [Requests |-> n.Requests,
           TotalSuccesses |-> n.TotalSuccesses,
           TotalFailures |-> n.TotalFailures + 1,
           ConsecutiveSuccesses |-> 0,
           ConsecutiveFailures |-> n.ConsecutiveFailures + 1]
  BY DEF Failed, Counts
<1>2. /\ n.Requests \in 0 .. MaxCount /\ n.TotalSuccesses \in Nat /\ n.TotalFailures \in Nat
      /\ n.ConsecutiveFailures \in Nat
  BY DEF Counts
<1>3. [Requests |-> n.Requests,
       TotalSuccesses |-> n.TotalSuccesses,
       TotalFailures |-> n.TotalFailures + 1,
       ConsecutiveSuccesses |-> 0,
       ConsecutiveFailures |-> n.ConsecutiveFailures + 1] \in Counts
  BY <1>2 DEF Counts
<1>4. k \in Counts
  BY <1>1, <1>3
<1> QED BY <1>1, <1>4

\* The breaker after the outcome of c made its counts k, before any change of state.
Left(b, c, k) == [b EXCEPT !.members = @ \ {c}, !.counts = k]

\* Counting an outcome of the current generation keeps the sums.
LEMMA OutcomeCounted ==
    ASSUME NEW b \in Breaker, Sums(b), NEW c \in b.members, NEW k,
           k = Succeeded(b.counts) \/ k = Failed(b.counts),
           NEW a, a = Left(b, c, k)
    PROVE  /\ a \in Breaker
           /\ Sums(a)
           /\ a.state = b.state /\ a.counts = k /\ a.members = b.members \ {c}
<1>1. a.state = b.state /\ a.counts = k /\ a.members = b.members \ {c} /\ a.expired = b.expired
  BY DEF Breaker, Left
<1>2. b.counts \in Counts
  BY DEF Breaker
<1>3. /\ k \in Counts
      /\ k.Requests = b.counts.Requests
      /\ k.TotalSuccesses + k.TotalFailures
            = b.counts.TotalSuccesses + b.counts.TotalFailures + 1
  <2>1. /\ b.counts.TotalSuccesses \in Nat
        /\ b.counts.TotalFailures \in Nat
    BY <1>2 DEF Counts
  <2>2. CASE k = Succeeded(b.counts)
    BY <1>2, <2>1, <2>2, SuccessCounts
  <2>3. CASE k = Failed(b.counts)
    BY <1>2, <2>1, <2>3, FailureCounts
  <2> QED BY <2>2, <2>3
<1>4. a \in Breaker
  BY <1>3 DEF Breaker, Left
<1>5. IsFiniteSet(b.members)
  BY CallersAssumption, FS_Subset DEF Breaker
<1>6. Cardinality(a.members) = Cardinality(b.members) - 1 /\ Cardinality(b.members) \in Nat
  BY <1>1, <1>5, FS_RemoveElement, FS_CardinalityType
<1>7. Sums(a)
  BY <1>1, <1>2, <1>3, <1>6 DEF Sums, Counts
<1> QED BY <1>1, <1>4, <1>7

\* The outcome of a request that began after the last opening.
Evidence(n, success) == IF success /\ n < MaxRequests THEN n + 1 ELSE n

\* A success: in half-open the last one needed closes the breaker with full evidence.
LEMMA SuccessOK ==
    ASSUME NEW b, NEW g, NEW n, BreakerOK(b, g, n), NEW c \in b.members
    PROVE  /\ BreakerOK(Counted(b, c, TRUE), g \ {c}, Evidence(n, TRUE))
           /\ Counted(b, c, TRUE).state # "open"
<1>0. PICK k, a : k = Succeeded(b.counts) /\ a = Left(b, c, k)
  OBVIOUS
<1>1. /\ b \in Breaker /\ Sums(b) /\ b.members \subseteq g /\ b.counts \in Counts
      /\ g \in SUBSET Callers /\ n \in 0 .. MaxRequests
      /\ b.state \in {"closed", "half_open"}
  BY DEF BreakerOK, Breaker
<1>2. a \in Breaker /\ Sums(a) /\ a.state = b.state /\ a.counts = k /\ a.members = b.members \ {c}
  BY <1>0, <1>1, OutcomeCounted
<1>3. Counted(b, c, TRUE) =
          IF b.state = "half_open" /\ k.ConsecutiveSuccesses >= MaxRequests
          THEN SetState(a, "closed") ELSE a
  BY <1>0, <1>1 DEF Counted, OnSuccess, Breaker, Left
<1>4. Evidence(n, TRUE) \in 0 .. MaxRequests
  BY <1>1, MaxRequestsAssumption DEF Evidence
<1>5. CASE b.state = "closed"
  <2>1. n = MaxRequests /\ Evidence(n, TRUE) = MaxRequests
    BY <1>5, MaxRequestsAssumption DEF BreakerOK, Evidence
  <2> QED BY <1>1, <1>2, <1>3, <1>4, <1>5, <2>1 DEF BreakerOK
<1>6. CASE b.state = "half_open"
  <2>1. /\ b.members = g /\ n = b.counts.ConsecutiveSuccesses
        /\ b.counts.Requests <= MaxRequests /\ b.counts.TotalFailures = 0
        /\ b.counts.TotalSuccesses = n
    BY <1>6 DEF BreakerOK, HalfOpenOK
  <2>2. /\ k.Requests = b.counts.Requests
        /\ k.TotalSuccesses = n + 1 /\ k.TotalFailures = 0
        /\ k.ConsecutiveSuccesses = n + 1
    BY <1>0, <1>1, <2>1, SuccessCounts
  <2>3. CASE k.ConsecutiveSuccesses >= MaxRequests
    <3> DEFINE f == NewGeneration([a EXCEPT !.state = "closed"])
    <3>1. Counted(b, c, TRUE) = f
      BY <1>2, <1>3, <1>6, <2>3 DEF SetState
    <3>2. f \in Breaker /\ f.state = "closed" /\ f.members = {} /\ Sums(f)
      BY <1>2, FreshGeneration
    <3>3. Evidence(n, TRUE) = MaxRequests
      BY <1>1, <2>2, <2>3, MaxRequestsAssumption DEF Evidence
    <3> QED BY <1>1, <1>4, <3>1, <3>2, <3>3 DEF BreakerOK
  <2>4. CASE ~(k.ConsecutiveSuccesses >= MaxRequests)
    <3>1. Counted(b, c, TRUE) = a
      BY <1>3, <2>4
    <3>2. Evidence(n, TRUE) = n + 1
      BY <1>1, <2>2, <2>4, MaxRequestsAssumption DEF Evidence
    <3>3. HalfOpenOK(a, g \ {c}, n + 1)
      BY <1>2, <2>1, <2>2 DEF HalfOpenOK
    <3> QED BY <1>1, <1>2, <1>4, <1>6, <3>1, <3>2, <3>3 DEF BreakerOK
  <2> QED BY <2>3, <2>4
<1> QED BY <1>1, <1>5, <1>6

\* A failure: in half-open, and in closed if the policy says so, it opens the breaker.
LEMMA FailureOK ==
    ASSUME NEW b, NEW g, NEW n, BreakerOK(b, g, n), NEW c \in b.members
    PROVE  \/ /\ Counted(b, c, FALSE).state = "open"
              /\ BreakerOK(Counted(b, c, FALSE), {}, 0)
           \/ /\ Counted(b, c, FALSE).state # "open"
              /\ BreakerOK(Counted(b, c, FALSE), g \ {c}, n)
<1>0. PICK k, a : k = Failed(b.counts) /\ a = Left(b, c, k)
  OBVIOUS
<1>1. /\ b \in Breaker /\ Sums(b) /\ b.members \subseteq g
      /\ g \in SUBSET Callers /\ n \in 0 .. MaxRequests
      /\ b.state \in {"closed", "half_open"}
  BY DEF BreakerOK, Breaker
<1>2. a \in Breaker /\ Sums(a) /\ a.state = b.state /\ a.members = b.members \ {c}
  BY <1>0, <1>1, OutcomeCounted
<1>3. Counted(b, c, FALSE) =
          IF b.state = "half_open" \/ (b.state = "closed" /\ ReadyToTrip(k))
          THEN SetState(a, "open") ELSE a
  BY <1>0, <1>1 DEF Counted, OnFailure, Breaker, Left
<1>4. CASE b.state = "half_open" \/ (b.state = "closed" /\ ReadyToTrip(k))
  <2>1. Counted(b, c, FALSE) = NewGeneration([a EXCEPT !.state = "open"])
    BY <1>1, <1>2, <1>3, <1>4 DEF SetState
  <2>2. Counted(b, c, FALSE).state = "open"
    BY <1>2, <2>1, FreshGeneration
  <2> QED BY <1>2, <2>1, <2>2, TrippedOK
<1>5. CASE b.state = "closed" /\ ~ReadyToTrip(k)
  <2>1. Counted(b, c, FALSE) = a
    BY <1>3, <1>5
  <2> QED BY <1>1, <1>2, <1>5, <2>1 DEF BreakerOK
<1> QED BY <1>1, <1>4, <1>5

\* The initial breaker is closed, has counted nothing and owes no evidence.
LEMMA InvariantInitially == Init => IInv
<1> SUFFICES ASSUME Init PROVE IInv
  OBVIOUS
<1>1. cb = [state |-> "closed", counts |-> Cleared, expired |-> FALSE, members |-> {}]
  BY DEF Init
<1>2. Cleared \in Counts
  BY BoundAssumption DEF Cleared, Counts
<1>3. cb \in Breaker
  BY <1>1, <1>2 DEF Breaker
<1>4. Sums(cb)
  BY <1>1, FS_EmptySet DEF Sums, Cleared
<1>5. TypeOK
  BY <1>3, MaxRequestsAssumption DEF Init, TypeOK
<1>6. BreakerOK(cb, began, evidence)
  BY <1>1, <1>3, <1>4, MaxRequestsAssumption DEF Init, BreakerOK
<1> QED BY <1>5, <1>6 DEF IInv

\* What an outcome does to the invariant, and why it can open the breaker: only on a
\* failure of a request that began after the last opening.
LEMMA OutcomeStep ==
    ASSUME IInv, NEW c \in Callers, NEW success \in BOOLEAN, AfterRequest(c, success)
    PROVE  IInv' /\ (cb.state # "open" /\ cb'.state = "open" => c \in began)
<1> DEFINE b == CurrentState(cb)
<1>1. /\ BreakerOK(b, began, evidence)
      /\ b.state = "open" => cb.state = "open"
      /\ cb' = Counted(b, c, success)
      /\ inFlight' = inFlight \ {c} /\ healthy' = healthy
      /\ began \subseteq inFlight
  BY CurrentOK DEF IInv, AfterRequest, TypeOK
<1>2. \/ /\ cb.state # "open" /\ cb'.state = "open" /\ began' = {} /\ evidence' = 0
      \/ /\ cb.state = "open" \/ cb'.state # "open"
         /\ began' = began \ {c}
         /\ evidence' = IF success /\ c \in began /\ evidence < MaxRequests
                        THEN evidence + 1 ELSE evidence
  BY DEF AfterRequest
<1>3. BreakerOK(cb', began', evidence') /\ (cb.state # "open" /\ cb'.state = "open" => c \in began)
  <2>1. CASE c \notin b.members
    <3>1. cb' = b
      BY <1>1, <2>1 DEF Counted
    <3>2. began' = began \ {c}
          /\ evidence' = IF success /\ c \in began /\ evidence < MaxRequests
                         THEN evidence + 1 ELSE evidence
      BY <1>1, <1>2, <3>1
    <3>3. c \in began => evidence = MaxRequests
      BY <1>1, <2>1 DEF BreakerOK, HalfOpenOK, Breaker
    <3>4. evidence' = evidence
      BY <3>2, <3>3, MaxRequestsAssumption
    <3>5. b.state = "half_open" => began' = began
      BY <1>1, <2>1, <3>2 DEF BreakerOK, HalfOpenOK
    <3>6. b.state = "half_open" => HalfOpenOK(b, began', evidence')
      BY <1>1, <3>4, <3>5 DEF BreakerOK
    <3> QED BY <1>1, <2>1, <3>1, <3>2, <3>4, <3>6 DEF BreakerOK
  <2>2. CASE c \in b.members /\ success
    <3>1. /\ BreakerOK(cb', began \ {c}, Evidence(evidence, TRUE))
          /\ cb'.state # "open"
      BY <1>1, <2>2, SuccessOK
    <3>2. c \in began
      BY <1>1, <2>2 DEF BreakerOK
    <3>3. began' = began \ {c} /\ evidence' = Evidence(evidence, TRUE)
      BY <1>2, <2>2, <3>1, <3>2 DEF Evidence
    <3> QED BY <3>1, <3>2, <3>3
  <2>3. CASE c \in b.members /\ ~success
    <3>1. c \in began /\ b.state # "open"
      BY <1>1, <2>3 DEF BreakerOK
    <3>2. CASE /\ cb'.state = "open"
               /\ BreakerOK(cb', {}, 0)
      <4>1. cb.state = "open" => began = {}
        BY DEF IInv, BreakerOK
      <4>2. began' = {} /\ evidence' = 0
        BY <1>2, <3>1, <3>2, <4>1
      <4> QED BY <3>1, <3>2, <4>2
    <3>3. CASE /\ cb'.state # "open"
               /\ BreakerOK(cb', began \ {c}, evidence)
      <4>1. began' = began \ {c} /\ evidence' = evidence
        BY <1>2, <2>3, <3>3
      <4> QED BY <3>3, <4>1
    <3> QED BY <1>1, <2>3, <3>2, <3>3, FailureOK
  <2> QED BY <2>1, <2>2, <2>3
<1>4. TypeOK'
  BY <1>1, <1>2, <1>3 DEF TypeOK, BreakerOK, IInv
<1> QED BY <1>3, <1>4 DEF IInv

\* Every step keeps the invariant.
LEMMA InvariantStep == IInv /\ [Next]_vars => IInv'
<1> SUFFICES ASSUME IInv, [Next]_vars PROVE IInv'
  OBVIOUS
<1>0. TypeOK /\ BreakerOK(cb, began, evidence)
  BY DEF IInv
<1>1. ASSUME NEW c \in Callers, BeforeRequest(c)
      PROVE  IInv'
  <2> DEFINE b == CurrentState(cb)
  <2>1. BreakerOK(b, began, evidence) /\ Admits(b) /\ b.counts.Requests < MaxCount
    BY <1>0, <1>1, CurrentOK DEF BeforeRequest
  <2>2. c \notin began
    BY <1>0, <1>1 DEF BeforeRequest, TypeOK
  <2>3. BreakerOK(cb', began', evidence')
    BY <1>1, <2>1, <2>2, AdmittedOK DEF BeforeRequest
  <2>4. TypeOK'
    BY <1>0, <1>1, <2>3 DEF BeforeRequest, TypeOK, BreakerOK
  <2> QED BY <2>3, <2>4 DEF IInv
<1>2. ASSUME NEW c \in Callers, NEW success \in BOOLEAN, AfterRequest(c, success)
      PROVE  IInv'
  BY <1>2, OutcomeStep
<1>3. CASE State
  <2>1. BreakerOK(cb', began', evidence')
    BY <1>0, <1>3, CurrentOK DEF State
  <2>2. TypeOK'
    BY <1>0, <1>3, <2>1 DEF State, TypeOK, BreakerOK
  <2> QED BY <2>1, <2>2 DEF IInv
<1>4. CASE ExpiryPasses
  <2>1. /\ cb' \in Breaker /\ cb'.state = cb.state /\ cb'.counts = cb.counts
        /\ cb'.members = cb.members
    BY <1>0, <1>4 DEF ExpiryPasses, TypeOK, Breaker
  <2>2. Sums(cb')
    BY <1>0, <2>1 DEF BreakerOK, Sums
  <2>3. cb.state # "half_open"
    BY <1>4 DEF ExpiryPasses
  <2>4. BreakerOK(cb', began', evidence')
    BY <1>0, <1>4, <2>1, <2>2, <2>3 DEF ExpiryPasses, BreakerOK
  <2>5. TypeOK'
    BY <1>0, <1>4, <2>1 DEF ExpiryPasses, TypeOK
  <2> QED BY <2>4, <2>5 DEF IInv
<1>5. CASE ServiceChanges
  BY <1>0, <1>5 DEF ServiceChanges, IInv, TypeOK
<1>6. CASE UNCHANGED vars
  BY <1>0, <1>6 DEF vars, IInv, TypeOK
<1> QED BY <1>1, <1>2, <1>3, <1>4, <1>5, <1>6 DEF Next

\* IInv holds in every reachable state.
THEOREM Invariance == Spec => []IInv
BY InvariantInitially, InvariantStep, PTL DEF Spec

\* Type correctness of the breaker.
THEOREM TypeCorrect == Spec => []TypeOK
BY Invariance, PTL DEF IInv

\* Requests of other generations never disturb the counts.
THEOREM CountsAddUpAlways == Spec => []CountsAddUp
<1>1. IInv => CountsAddUp
  BY DEF IInv, BreakerOK, Sums, CountsAddUp
<1> QED BY <1>1, Invariance, PTL

\* A service that is being tried out sees at most MaxRequests requests.
THEOREM HalfOpenLimitAlways == Spec => []HalfOpenLimit
<1>1. IInv => HalfOpenLimit
  <2> SUFFICES ASSUME IInv PROVE HalfOpenLimit
    OBVIOUS
  <2>1. BreakerOK(cb, began, evidence)
    BY DEF IInv
  <2>2. ASSUME cb.state = "half_open"
        PROVE  evidence + Cardinality(began) <= MaxRequests
    <3>1. HalfOpenOK(cb, began, evidence) /\ Sums(cb)
      BY <2>1, <2>2 DEF BreakerOK
    <3>2. IsFiniteSet(began) /\ evidence \in Nat
      BY <2>1, CallersAssumption, FS_Subset, MaxRequestsAssumption DEF BreakerOK
    <3>3. Cardinality(began) \in Nat
      BY <3>2, FS_CardinalityType
    <3> QED BY <3>1, <3>2, <3>3, MaxRequestsAssumption DEF HalfOpenOK, Sums
  <2> QED BY <2>1, <2>2 DEF HalfOpenLimit, BreakerOK
<1> QED BY <1>1, Invariance, PTL

\* The breaker closes only on MaxRequests successes since it opened.
THEOREM ClosedOnEvidenceAlways == Spec => []ClosedOnEvidence
<1>1. IInv => ClosedOnEvidence
  BY DEF IInv, BreakerOK, ClosedOnEvidence
<1> QED BY <1>1, Invariance, PTL

\* A late failure never opens the breaker.
THEOREM NoLateTripAlways == Spec => NoLateTrip
<1>1. IInv /\ [Next]_vars
         => [cb.state # "open" /\ cb'.state = "open" => began \ inFlight' # {}]_vars
  <2> SUFFICES ASSUME IInv, Next, cb.state # "open", cb'.state = "open"
               PROVE  began \ inFlight' # {}
    BY DEF vars
  <2>0. BreakerOK(cb, began, evidence)
    BY DEF IInv
  <2>1. ASSUME NEW c \in Callers, NEW success \in BOOLEAN, AfterRequest(c, success)
        PROVE  began \ inFlight' # {}
    <3>1. c \in began
      BY <2>1, OutcomeStep
    <3> QED BY <2>1, <3>1 DEF AfterRequest
  <2>2. ASSUME NEW c \in Callers, BeforeRequest(c)
        PROVE  FALSE
    <3> DEFINE b == CurrentState(cb)
    <3>1. b.state # "open" /\ b \in Breaker
      BY <2>0, CurrentOK DEF BreakerOK
    <3>2. cb'.state = b.state
      BY <2>2, <3>1 DEF BeforeRequest, Breaker
    <3> QED BY <3>1, <3>2
  <2>3. CASE State
    BY <2>0, <2>3, CurrentOK DEF State
  <2>4. CASE ExpiryPasses
    BY <2>0, <2>4 DEF ExpiryPasses, BreakerOK, Breaker
  <2>5. CASE ServiceChanges
    BY <2>5 DEF ServiceChanges
  <2> QED BY <2>1, <2>2, <2>3, <2>4, <2>5 DEF Next
<1> QED BY <1>1, Invariance, PTL DEF Spec, NoLateTrip
=============================================================================
