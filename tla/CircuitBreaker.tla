--------------------------- MODULE CircuitBreaker ---------------------------
(***************************************************************************)
(* The circuit breaker of pkg/circuitbreaker/circuit_breaker.go, shared by   *)
(* concurrent callers of one external service.                              *)
(*                                                                         *)
(* A caller takes the mutex twice: in beforeRequest, which admits or rejects *)
(* it, and in afterRequest, which counts its outcome.  Between the two the   *)
(* request runs unlocked, and the breaker may have moved to another          *)
(* generation, whose counts the late outcome must not touch.  Of generation  *)
(* numbers only equality with the current one is ever tested, so the model   *)
(* keeps the callers that hold the current number (members).                *)
(***************************************************************************)
EXTENDS Integers, FiniteSets

CONSTANTS
    Callers,            \* goroutines that execute requests through the breaker
    MaxRequests,        \* requests let through in half-open (Config.MaxRequests)
    MinRequests,        \* readyToTrip: requests before the failure rate counts
    FailurePercent,     \* readyToTrip: the failure rate that trips, in percent
    ConsecutiveLimit,   \* readyToTrip: consecutive failures that trip, 0 for no such rule
    HasInterval,        \* Config.Interval is positive
    MaxCount            \* bound on the requests of one generation

ASSUME CallersAssumption == IsFiniteSet(Callers)
ASSUME MaxRequestsAssumption == MaxRequests \in Nat \ {0}
ASSUME TripAssumption ==
    MinRequests \in Nat /\ FailurePercent \in Nat /\ ConsecutiveLimit \in Nat
ASSUME IntervalAssumption == HasInterval \in BOOLEAN
ASSUME BoundAssumption == MaxCount \in Nat /\ MaxRequests <= MaxCount

VARIABLES
    cb,         \* the breaker: its state, counts, expiry and current generation
    inFlight,   \* callers between beforeRequest and afterRequest
    healthy,    \* the service answers, and no caller cancels
    began,      \* history: the requests in flight that began after the breaker last opened
    evidence    \* history: how many such requests succeeded, counted up to MaxRequests

vars == <<cb, inFlight, healthy, began, evidence>>

Counts == [Requests : 0 .. MaxCount, TotalSuccesses : Nat, TotalFailures : Nat,
           ConsecutiveSuccesses : Nat, ConsecutiveFailures : Nat]

Breaker == [state : {"closed", "half_open", "open"}, counts : Counts,
            expired : BOOLEAN, members : SUBSET Callers]

\* Types of the breaker and its callers.
TypeOK ==
    /\ cb \in Breaker
    /\ inFlight \subseteq Callers
    /\ healthy \in BOOLEAN
    /\ began \subseteq inFlight
    /\ evidence \in 0 .. MaxRequests

----------------------------------------------------------------------------
(* The critical sections, as functions of the breaker.                      *)

Cleared == [Requests |-> 0, TotalSuccesses |-> 0, TotalFailures |-> 0,
            ConsecutiveSuccesses |-> 0, ConsecutiveFailures |-> 0]

Succeeded(n) == [n EXCEPT !.TotalSuccesses = @ + 1, !.ConsecutiveSuccesses = @ + 1,
                          !.ConsecutiveFailures = 0]

Failed(n) == [n EXCEPT !.TotalFailures = @ + 1, !.ConsecutiveFailures = @ + 1,
                       !.ConsecutiveSuccesses = 0]

\* The shipped policies: a failure rate over enough requests, or a run of failures.
ReadyToTrip(n) ==
    \/ /\ ConsecutiveLimit > 0
       /\ n.ConsecutiveFailures >= ConsecutiveLimit
    \/ /\ n.Requests >= MinRequests
       /\ n.TotalFailures > 0
       /\ 100 * n.TotalFailures >= FailurePercent * n.Requests

\* Mutants: the counts survive a new generation; so do the admissions of the old one.
NewGenerationKeepsCounts(b) == [b EXCEPT !.expired = FALSE, !.members = {}]
NewGenerationKeepsNumber(b) == [b EXCEPT !.counts = Cleared, !.expired = FALSE]

\* toNewGeneration: everyone admitted so far holds an old number now.
NewGeneration(b) == [b EXCEPT !.counts = Cleared, !.expired = FALSE, !.members = {}]

SetState(b, s) == IF b.state = s THEN b ELSE NewGeneration([b EXCEPT !.state = s])

\* Mutant: the expiry of the open state is not looked at.
CurrentStateStaysOpen(b) ==
    IF b.expired /\ b.state = "closed" THEN NewGeneration(b) ELSE b

\* currentState: what every call finds after taking the mutex.
CurrentState(b) ==
    IF ~b.expired \/ b.state = "half_open" THEN b
    ELSE IF b.state = "closed" THEN NewGeneration(b)
    ELSE SetState(b, "half_open")

\* Mutant: one success too many is asked for.
OnSuccessOffByOne(b) ==
    LET n == Succeeded(b.counts)
        counted == [b EXCEPT !.counts = n]
    IN  IF b.state = "half_open" /\ n.ConsecutiveSuccesses > MaxRequests
        THEN SetState(counted, "closed") ELSE counted

OnSuccess(b) ==
    LET n == Succeeded(b.counts)
        counted == [b EXCEPT !.counts = n]
    IN  IF b.state = "half_open" /\ n.ConsecutiveSuccesses >= MaxRequests
        THEN SetState(counted, "closed") ELSE counted

OnFailure(b) ==
    LET n == Failed(b.counts)
        counted == [b EXCEPT !.counts = n]
    IN  IF b.state = "half_open" \/ (b.state = "closed" /\ ReadyToTrip(n))
        THEN SetState(counted, "open") ELSE counted

\* Mutant: afterRequest does not compare generations.
CountedInAnyGeneration(b, c, success) ==
    LET left == [b EXCEPT !.members = @ \ {c}]
    IN  IF success THEN OnSuccess(left) ELSE OnFailure(left)

\* A result counts only in the generation that admitted its request.
Counted(b, c, success) ==
    IF c \notin b.members THEN b
    ELSE LET left == [b EXCEPT !.members = @ \ {c}]
         IN  IF success THEN OnSuccess(left) ELSE OnFailure(left)

\* Mutant: one request too many in half-open.
AdmitsOneMore(b) ==
    /\ b.state # "open"
    /\ ~(b.state = "half_open" /\ b.counts.Requests > MaxRequests)

Admits(b) ==
    /\ b.state # "open"
    /\ ~(b.state = "half_open" /\ b.counts.Requests >= MaxRequests)

----------------------------------------------------------------------------

Init ==
    /\ cb = [state |-> "closed", counts |-> Cleared, expired |-> FALSE, members |-> {}]
    /\ inFlight = {}
    /\ healthy \in BOOLEAN
    /\ began = {}
    /\ evidence = MaxRequests

\* Mutant: rejected requests are counted too.
BeforeRequestCountsAll(c) ==
    /\ c \notin inFlight
    /\ LET b == CurrentState(cb)
           counted == [b EXCEPT !.counts.Requests = @ + 1]
       IN  IF Admits(b)
           THEN /\ b.counts.Requests < MaxCount
                /\ cb' = [counted EXCEPT !.members = @ \cup {c}]
                /\ inFlight' = inFlight \cup {c} /\ began' = began \cup {c}
           ELSE cb' = counted /\ UNCHANGED <<inFlight, began>>
    /\ UNCHANGED <<healthy, evidence>>

\* beforeRequest, when it admits.  (When it rejects, currentState changed nothing.)
BeforeRequest(c) ==
    /\ c \notin inFlight
    /\ LET b == CurrentState(cb)
       IN  /\ Admits(b)
           /\ b.counts.Requests < MaxCount
           /\ cb' = [b EXCEPT !.counts.Requests = @ + 1, !.members = @ \cup {c}]
    /\ inFlight' = inFlight \cup {c}
    /\ began' = began \cup {c}
    /\ UNCHANGED <<healthy, evidence>>

\* afterRequest.  A panic and a context cancelled before the call count as failures.
AfterRequest(c, success) ==
    /\ c \in inFlight
    /\ ~success => ~healthy
    /\ cb' = Counted(CurrentState(cb), c, success)
    /\ inFlight' = inFlight \ {c}
    /\ IF cb.state # "open" /\ cb'.state = "open"
       THEN began' = {} /\ evidence' = 0
       ELSE /\ began' = began \ {c}
            /\ evidence' = IF success /\ c \in began /\ evidence < MaxRequests
                           THEN evidence + 1 ELSE evidence
    /\ UNCHANGED healthy

\* The State() getter moves the breaker on too.
State ==
    /\ cb' = CurrentState(cb)
    /\ UNCHANGED <<inFlight, healthy, began, evidence>>

\* The clock passes expiry: the open state's timeout or the closed state's interval.
ExpiryPasses ==
    /\ cb.state = "open" \/ (cb.state = "closed" /\ HasInterval)
    /\ ~cb.expired
    /\ cb' = [cb EXCEPT !.expired = TRUE]
    /\ UNCHANGED <<inFlight, healthy, began, evidence>>

\* The external service fails, or comes back.
ServiceChanges ==
    /\ healthy' = ~healthy
    /\ UNCHANGED <<cb, inFlight, began, evidence>>

Next ==
    \/ \E c \in Callers : BeforeRequest(c)
    \/ \E c \in Callers, success \in BOOLEAN : AfterRequest(c, success)
    \/ State
    \/ ExpiryPasses
    \/ ServiceChanges

Spec == Init /\ [][Next]_vars

\* The callers keep calling, their requests end, and time passes.
Fairness ==
    /\ \A c \in Callers : WF_vars(BeforeRequest(c))
    /\ \A c \in Callers : WF_vars(\E success \in BOOLEAN : AfterRequest(c, success))
    /\ WF_vars(ExpiryPasses)

FairSpec == Spec /\ Fairness

----------------------------------------------------------------------------
(* Properties.                                                             *)

\* The counts describe the current generation and nothing else: each request it
\* admitted is still running, has succeeded or has failed, however many requests
\* of earlier generations end in between.
CountsAddUp ==
    cb.counts.Requests =
        Cardinality(cb.members) + cb.counts.TotalSuccesses + cb.counts.TotalFailures

\* From opening until closing again the service sees at most MaxRequests requests
\* that began after the opening, ended ones included.
HalfOpenLimit ==
    /\ cb.state = "half_open" => evidence + Cardinality(began) <= MaxRequests
    /\ cb.state = "open" => began = {}

\* A breaker that opened is closed again only after MaxRequests requests that began
\* after the opening succeeded: a late success of an earlier request is no evidence.
ClosedOnEvidence == cb.state = "closed" => evidence = MaxRequests

\* A failure of a request that began before the breaker last opened never opens it again.
NoLateTrip ==
    [][cb.state # "open" /\ cb'.state = "open" => began \ inFlight' # {}]_vars

\* A half-open breaker decides: it neither waits for requests it does not admit nor
\* admits requests without coming to a decision.
Decides == cb.state = "half_open" ~> cb.state # "half_open"

\* Once the service is healthy for good, the breaker ends up closed for good.
Recovers == <>[]healthy => <>[](cb.state = "closed")
=============================================================================
