------------------------------ MODULE EventLog ------------------------------
(***************************************************************************)
(* What an event store promises its writers, without transactions: the log  *)
(* of an aggregate only grows, by whole saves, and whoever saves has seen    *)
(* everything that comes before its events.                                 *)
(***************************************************************************)
EXTENDS Integers

CONSTANTS
    Aggregates,     \* aggregates with a log
    Existing,       \* those whose log has one entry at the start
    Clients,        \* who may save
    MaxBatch,       \* events one save may hold
    MaxVersion      \* bound on the length of a log

VARIABLE log        \* per aggregate, the writer and save of versions 1, 2, ...

Entry(c, basis, size) == [by |-> c, basis |-> basis, size |-> size]

Init ==
    \E c \in Clients :
        log = [a \in Aggregates |->
                  IF a \in Existing THEN [v \in 1 .. 1 |-> Entry(c, 0, 1)] ELSE [v \in 1 .. 0 |-> {}]]

\* A save of n events by a client that has seen the first len versions, all there are.
Append(a, c, len, n) ==
    /\ DOMAIN log[a] = 1 .. len
    /\ log' = [log EXCEPT ![a] =
                  [v \in 1 .. len + n |-> IF v <= len THEN log[a][v] ELSE Entry(c, len, n)]]

Next ==
    \E a \in Aggregates, c \in Clients :
        \E len \in 0 .. MaxVersion, n \in 1 .. MaxBatch : Append(a, c, len, n)

Spec == Init /\ [][Next]_log
=============================================================================
