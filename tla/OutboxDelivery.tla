--------------------------- MODULE OutboxDelivery ---------------------------
(***************************************************************************)
(* What the transactional outbox promises, without tables or workers: an    *)
(* entry owed since its business transaction is settled only after it was   *)
(* received, a settled entry stays settled, and a parked (dead-lettered)    *)
(* one is never lost.  Receiving an entry again is allowed at any time: the *)
(* promise is at least once.                                                *)
(***************************************************************************)
CONSTANT Events

VARIABLES
    stage,      \* where each entry stands
    received    \* the entries the downstream system has received

vars == <<stage, received>>

Init ==
    /\ stage = [e \in Events |-> "none"]
    /\ received = {}

Move(S, from, to) ==
    /\ \A e \in S : stage[e] \in from
    /\ stage' = [e \in Events |-> IF e \in S THEN to ELSE stage[e]]

Commit(S) == Move(S, {"none"}, "owed") /\ UNCHANGED received

Receive(e) ==
    /\ stage[e] # "none"
    /\ received' = received \cup {e}
    /\ UNCHANGED stage

Settle(S) ==
    /\ S \subseteq received
    /\ Move(S, {"owed", "parked"}, "settled")
    /\ UNCHANGED received

Park(S) == Move(S, {"owed"}, "parked") /\ UNCHANGED received

Revive(S) == Move(S, {"parked"}, "owed") /\ UNCHANGED received

Next ==
    \/ \E S \in SUBSET Events : Commit(S) \/ Settle(S) \/ Park(S) \/ Revive(S)
    \/ \E e \in Events : Receive(e)

Spec == Init /\ [][Next]_vars
============================================================================
