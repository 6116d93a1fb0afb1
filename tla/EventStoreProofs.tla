-------------------------- MODULE EventStoreProofs --------------------------
(***************************************************************************)
(* Proofs about the event store: for any number of clients and aggregates   *)
(* the optimistic check and the unique constraint together make SaveEvents  *)
(* an atomic append to the log of its aggregate.                            *)
(***************************************************************************)
EXTENDS EventStore, TLAPS

\* The log of an aggregate: no hole, and whole saves that saw all before them.
LogOK(a) ==
    /\ LastVersion(a) \in 0 .. MaxVersion
    /\ DOMAIN stored[a] = 1 .. LastVersion(a)
    /\ \A v \in DOMAIN stored[a] :
          /\ stored[a][v].basis < v
          /\ \A u \in stored[a][v].basis + 1 .. v : stored[a][u] = stored[a][v]

\* An aggregate with the given base is new and will not be stored, or was stored up to its
\* base: with an event at least, if new ones do not start where the store begins to count.
NewInVain(base, last) == NewVersion # 0 /\ base = NewVersion /\ last = 0
Known(base, last) == base <= last /\ (NewVersion # 0 => base # 0)

\* A client.  Once a transaction has inserted a row, the log ends at its base.
ClientOK(c) ==
    /\ events[c] <= version[c]
    /\ pc[c] # "inserting" => done[c] = 0
    /\ pc[c] # "idle" => agg[c] \in Aggregates
    /\ pc[c] = "inserting" => events[c] > 0 /\ done[c] <= events[c]
    /\ \A a \in Aggregates :
          a = agg[c] /\ pc[c] # "idle" =>
              /\ pc[c] = "inserting" => Base(c) <= LastVersion(a)
              /\ pc[c] = "inserting" /\ done[c] > 0 => Base(c) = LastVersion(a)
              /\ Known(Base(c), LastVersion(a)) \/ NewInVain(Base(c), LastVersion(a))
              /\ pc[c] = "refused" => Base(c) < LastVersion(a) \/ NewInVain(Base(c), LastVersion(a))

\* Two transactions do not both have rows of one aggregate inserted.
Exclusive(c, d) ==
    pc[c] = "inserting" /\ pc[d] = "inserting" /\ done[c] > 0 /\ done[d] > 0 => agg[c] # agg[d]

IInv ==
    /\ TypeOK
    /\ \A a \in Aggregates : LogOK(a)
    /\ \A c \in Clients : ClientOK(c)
    /\ \A c, d \in Clients : c # d => Exclusive(c, d)

----------------------------------------------------------------------------
(* Lemmas.                                                                 *)

\* MAX(version) of a log without holes is its length.
LEMMA LastOfRange ==
    ASSUME NEW a, NEW k \in Nat, DOMAIN stored[a] = 1 .. k
    PROVE  LastVersion(a) = k
<1>1. CASE k = 0
    BY <1>1 DEF LastVersion
<1>2. CASE k # 0
    <2>1. k \in DOMAIN stored[a] /\ \A v \in DOMAIN stored[a] : v <= k
        BY <1>2
    <2>2. \A m \in DOMAIN stored[a] : (\A v \in DOMAIN stored[a] : v <= m) => m = k
        BY <2>1
    <2>3. (CHOOSE m \in DOMAIN stored[a] : \A v \in DOMAIN stored[a] : v <= m) = k
        BY <2>1, <2>2
    <2> QED
        BY <2>1, <2>3 DEF LastVersion
<1> QED
    BY <1>1, <1>2

\* The same of the table after a step.
LEMMA LastOfRangeNext ==
    ASSUME NEW a, NEW k \in Nat, DOMAIN stored'[a] = 1 .. k
    PROVE  LastVersion(a)' = k
<1>1. CASE k = 0
    BY <1>1 DEF LastVersion
<1>2. CASE k # 0
    <2>1. k \in DOMAIN stored'[a] /\ \A v \in DOMAIN stored'[a] : v <= k
        BY <1>2
    <2>2. \A m \in DOMAIN stored'[a] : (\A v \in DOMAIN stored'[a] : v <= m) => m = k
        BY <2>1
    <2>3. (CHOOSE m \in DOMAIN stored'[a] : \A v \in DOMAIN stored'[a] : v <= m) = k
        BY <2>1, <2>2
    <2> QED
        BY <2>1, <2>3 DEF LastVersion
<1> QED
    BY <1>1, <1>2

\* The types of a client's state.
LEMMA ClientTypes ==
    ASSUME IInv, NEW c \in Clients
    PROVE  /\ pc[c] \in {"idle", "memory", "inserting", "refused", "failed"}
           /\ agg[c] \in Aggregates \cup {NoAggregate}
           /\ version[c] \in 0 .. MaxVersion /\ events[c] \in 0 .. MaxBatch
           /\ done[c] \in 0 .. MaxBatch /\ faults \in 0 .. MaxFaults
           /\ Base(c) \in Nat
           /\ ClientOK(c)
           /\ \A a \in Aggregates : LastVersion(a) \in Nat
BY BoundsAssumption DEF IInv, TypeOK, ClientOK, Base, LogOK

\* What a commit makes of the log: it appends the transaction's events.
LEMMA CommitAppends ==
    ASSUME IInv, NEW c \in Clients, pc[c] = "inserting", ~MoreEvents(c)
    PROVE  LET a == agg[c]
               len == Base(c)
           IN  /\ a \in Aggregates
               /\ len \in Nat /\ events[c] \in 1 .. MaxBatch
               /\ LastVersion(a) = len
               /\ DOMAIN stored[a] = 1 .. len
               /\ Committed(c) =
                     [stored EXCEPT ![a] =
                         [v \in 1 .. len + events[c] |->
                             IF v <= len THEN stored[a][v] ELSE Rows(c)]]
<1> DEFINE a == agg[c]
           len == Base(c)
<1>1. /\ a \in Aggregates /\ events[c] \in 1 .. MaxBatch /\ done[c] = events[c]
      /\ version[c] \in Nat /\ events[c] <= version[c] /\ len = LastVersion(a)
    <2>1. /\ ClientOK(c) /\ version[c] \in Nat /\ events[c] \in 0 .. MaxBatch
          /\ done[c] \in 0 .. MaxBatch
        BY ClientTypes, BoundsAssumption
    <2>2. /\ a \in Aggregates /\ events[c] \in 1 .. MaxBatch /\ done[c] = events[c]
          /\ version[c] \in Nat /\ events[c] <= version[c]
        BY <2>1, BoundsAssumption DEF ClientOK, MoreEvents
    <2> QED
        BY <2>1, <2>2 DEF ClientOK
<1>2. len \in Nat
    BY <1>1, BoundsAssumption DEF Base
<1>3. DOMAIN stored[a] = 1 .. len
    BY <1>1 DEF IInv, LogOK
<1>4. Inserted(c) = len + 1 .. len + events[c]
    BY <1>1 DEF Inserted
<1>5. DOMAIN stored[a] \cup Inserted(c) = 1 .. len + events[c]
    BY <1>1, <1>2, <1>3, <1>4
<1>6. \A v \in 1 .. len + events[c] : v \in Inserted(c) <=> ~(v <= len)
    BY <1>1, <1>2, <1>4
<1>7. [v \in DOMAIN stored[a] \cup Inserted(c) |->
          IF v \in Inserted(c) THEN Rows(c) ELSE stored[a][v]]
      = [v \in 1 .. len + events[c] |-> IF v <= len THEN stored[a][v] ELSE Rows(c)]
    BY <1>5, <1>6
<1>8. Committed(c) = [stored EXCEPT ![a] =
          [v \in DOMAIN stored[a] \cup Inserted(c) |->
              IF v \in Inserted(c) THEN Rows(c) ELSE stored[a][v]]]
    BY DEF Committed
<1> QED
    BY <1>1, <1>2, <1>3, <1>7, <1>8

\* After a commit the logs are well formed and typed, longer by the events saved.
LEMMA CommittedLog ==
    ASSUME IInv, NEW c \in Clients, pc[c] = "inserting", ~MoreEvents(c), stored' = Committed(c),
           NEW b, b = agg[c]
    PROVE  /\ stored' = [a \in Aggregates |-> stored'[a]]
           /\ \A a \in Aggregates : /\ DOMAIN stored'[a] \subseteq 1 .. MaxVersion
                                    /\ stored'[a] \in [DOMAIN stored'[a] -> Row]
           /\ \A a \in Aggregates : LogOK(a)'
           /\ LastVersion(b)' = Base(c) + events[c]
           /\ \A a \in Aggregates \ {b} : LastVersion(a)' = LastVersion(a)
           /\ \A a \in Aggregates : LastVersion(a) <= LastVersion(a)'
<1> DEFINE len == Base(c)
           new == [v \in 1 .. len + events[c] |-> IF v <= len THEN stored[b][v] ELSE Rows(c)]
<1>1. /\ b \in Aggregates /\ len \in Nat /\ events[c] \in 1 .. MaxBatch
      /\ LastVersion(b) = len /\ DOMAIN stored[b] = 1 .. len
      /\ stored' = [stored EXCEPT ![b] = new]
    BY CommitAppends
<1>2. stored = [a \in Aggregates |-> stored[a]] /\ version[c] \in 0 .. MaxVersion
    BY DEF IInv, TypeOK
<1>3. stored' = [a \in Aggregates |-> IF a = b THEN new ELSE stored[a]]
    BY <1>1, <1>2
<1>4. stored'[b] = new /\ \A a \in Aggregates \ {b} : stored'[a] = stored[a]
    BY <1>1, <1>3
<1>5. len + events[c] = version[c]
    BY <1>1, <1>2, BoundsAssumption DEF Base
<1>6. Rows(c) \in Row
    BY <1>1, BoundsAssumption DEF Rows, Row
<1>7. stored[b] \in [1 .. len -> Row]
    BY <1>1 DEF IInv, TypeOK
<1>8. DOMAIN new = 1 .. len + events[c] /\ new \in [DOMAIN new -> Row]
    BY <1>1, <1>6, <1>7
<1>9. DOMAIN new \subseteq 1 .. MaxVersion
    BY <1>2, <1>5, <1>8, BoundsAssumption
<1>10. \A a \in Aggregates : /\ DOMAIN stored'[a] \subseteq 1 .. MaxVersion
                             /\ stored'[a] \in [DOMAIN stored'[a] -> Row]
    <2> TAKE a \in Aggregates
    <2>1. CASE a = b
        BY <2>1, <1>4, <1>8, <1>9
    <2>2. CASE a # b
        BY <2>2, <1>4 DEF IInv, TypeOK
    <2> QED
        BY <2>1, <2>2
<1>11. LastVersion(b)' = len + events[c]
    <2>1. DOMAIN stored'[b] = 1 .. len + events[c]
        BY <1>4, <1>8
    <2>2. len + events[c] \in Nat
        BY <1>1, BoundsAssumption
    <2> HIDE DEF len, new
    <2> QED
        BY <2>1, <2>2, LastOfRangeNext
<1>12. \A a \in Aggregates \ {b} : LastVersion(a)' = LastVersion(a)
    <2> TAKE a \in Aggregates \ {b}
    <2>1. DOMAIN stored[a] = 1 .. LastVersion(a) /\ LastVersion(a) \in Nat
        BY BoundsAssumption DEF IInv, LogOK
    <2>2. DOMAIN stored'[a] = 1 .. LastVersion(a)
        BY <2>1, <1>4
    <2> QED
        BY <2>1, <2>2, LastOfRangeNext
<1>13. LogOK(b)'
    <2>1. LastVersion(b)' \in 0 .. MaxVersion
        BY <1>1, <1>2, <1>5, <1>11
    <2>2. DOMAIN stored'[b] = 1 .. LastVersion(b)'
        BY <1>4, <1>8, <1>11
    <2>3. ASSUME NEW v \in 1 .. len + events[c]
          PROVE  /\ new[v].basis < v
                 /\ \A u \in new[v].basis + 1 .. v : new[u] = new[v]
        <3>1. CASE v <= len
            <4>1. new[v] = stored[b][v] /\ v \in 1 .. len
                BY <3>1, <1>1
            <4>2. /\ stored[b][v].basis < v
                  /\ \A u \in stored[b][v].basis + 1 .. v : stored[b][u] = stored[b][v]
                BY <4>1, <1>1 DEF IInv, LogOK
            <4>3. stored[b][v].basis \in Nat
                BY <4>1, <1>7 DEF Row
            <4>4. ASSUME NEW u \in stored[b][v].basis + 1 .. v
                  PROVE  new[u] = stored[b][u]
                BY <4>1, <4>3, <1>1
            <4> QED
                BY <4>1, <4>2, <4>4
        <3>2. CASE ~(v <= len)
            <4>1. new[v] = Rows(c) /\ new[v].basis = len
                BY <3>2 DEF Rows
            <4>2. ASSUME NEW u \in len + 1 .. v
                  PROVE  new[u] = Rows(c)
                BY <1>1
            <4> QED
                BY <3>2, <4>1, <4>2, <1>1
        <3> QED
            BY <3>1, <3>2
    <2>4. \A v \in DOMAIN stored'[b] :
             /\ stored'[b][v].basis < v
             /\ \A u \in stored'[b][v].basis + 1 .. v : stored'[b][u] = stored'[b][v]
        <3> HIDE DEF new
        <3> QED
            BY <2>3, <1>4, <1>8
    <2> QED
        BY <2>1, <2>2, <2>4 DEF LogOK
<1>14. \A a \in Aggregates \ {b} : LogOK(a)'
    BY <1>4, <1>12 DEF IInv, LogOK
<1>15. \A a \in Aggregates : LastVersion(a) <= LastVersion(a)'
    <2> TAKE a \in Aggregates
    <2>1. LastVersion(a) \in Int
        BY DEF IInv, LogOK
    <2>2. CASE a = b
        BY <2>2, <1>1, <1>11
    <2>3. CASE a # b
        BY <2>1, <2>3, <1>12
    <2> QED
        BY <2>2, <2>3
<1>16. stored' = [a \in Aggregates |-> stored'[a]]
    BY <1>3
<1> QED
    BY <1>10, <1>11, <1>12, <1>13, <1>14, <1>15, <1>16

----------------------------------------------------------------------------
(* Steps.                                                                  *)

\* Only c's entries change.
Local(c) ==
    /\ pc' = [pc EXCEPT ![c] = pc'[c]]
    /\ agg' = [agg EXCEPT ![c] = agg'[c]]
    /\ version' = [version EXCEPT ![c] = version'[c]]
    /\ events' = [events EXCEPT ![c] = events'[c]]
    /\ done' = [done EXCEPT ![c] = done'[c]]

LocalType(c) ==
    /\ pc'[c] \in {"idle", "memory", "inserting", "refused", "failed"}
    /\ agg'[c] \in Aggregates \cup {NoAggregate}
    /\ version'[c] \in 0 .. MaxVersion
    /\ events'[c] \in 0 .. MaxBatch
    /\ done'[c] \in 0 .. MaxBatch
    /\ faults' \in 0 .. MaxFaults

\* What a step of c leaves as it was.
LEMMA OthersUnchanged ==
    ASSUME IInv, NEW c \in Clients, Local(c), NEW d \in Clients \ {c}
    PROVE  /\ pc'[d] = pc[d] /\ agg'[d] = agg[d] /\ version'[d] = version[d]
           /\ events'[d] = events[d] /\ done'[d] = done[d] /\ Base(d)' = Base(d)
<1>1. /\ pc'[d] = pc[d] /\ agg'[d] = agg[d] /\ version'[d] = version[d]
      /\ events'[d] = events[d] /\ done'[d] = done[d]
    BY DEF IInv, TypeOK, Local
<1> QED
    BY <1>1 DEF Base

\* A client that does nothing keeps its invariant while other aggregates' logs, and
\* its own unless it has rows inserted, may grow.
LEMMA OtherOK ==
    ASSUME IInv, NEW c \in Clients, Local(c), NEW d \in Clients \ {c},
           \A a \in Aggregates : LastVersion(a)' \in Nat /\ LastVersion(a) <= LastVersion(a)',
           \A a \in Aggregates : NewVersion # 0 /\ LastVersion(a) = 0 => LastVersion(a)' = 0,
           \A a \in Aggregates :
               a = agg[d] /\ pc[d] = "inserting" /\ done[d] > 0
                   => LastVersion(a)' = LastVersion(a)
    PROVE  ClientOK(d)'
<1>1. /\ pc'[d] = pc[d] /\ agg'[d] = agg[d] /\ version'[d] = version[d]
      /\ events'[d] = events[d] /\ done'[d] = done[d] /\ Base(d)' = Base(d)
    BY OthersUnchanged
<1>2. ClientOK(d) /\ Base(d) \in Nat /\ \A a \in Aggregates : LastVersion(a) \in Nat
    BY ClientTypes
<1>3. ASSUME NEW a \in Aggregates, a = agg[d], pc[d] # "idle"
      PROVE  /\ pc[d] = "inserting" => Base(d) <= LastVersion(a)'
             /\ pc[d] = "inserting" /\ done[d] > 0 => Base(d) = LastVersion(a)'
             /\ Known(Base(d), LastVersion(a)') \/ NewInVain(Base(d), LastVersion(a)')
             /\ pc[d] = "refused" => Base(d) < LastVersion(a)' \/ NewInVain(Base(d), LastVersion(a)')
    BY <1>2, <1>3 DEF ClientOK, Known, NewInVain
<1> QED
    BY <1>1, <1>2, <1>3 DEF ClientOK

\* A step of c that leaves the table alone.
LEMMA TableKept ==
    ASSUME IInv, NEW c \in Clients, Local(c), LocalType(c), stored' = stored,
           ClientOK(c)', \A d \in Clients \ {c} : Exclusive(c, d)'
    PROVE  IInv'
<1>1. \A a : LastVersion(a)' = LastVersion(a)
    BY DEF LastVersion
<1>2. TypeOK'
    BY DEF IInv, TypeOK, Local, LocalType
<1>3. ASSUME NEW a \in Aggregates
      PROVE  LogOK(a)'
    BY <1>1 DEF IInv, LogOK
<1>4. ASSUME NEW d \in Clients
      PROVE  ClientOK(d)'
    <2>1. \A a \in Aggregates : LastVersion(a)' \in Nat /\ LastVersion(a) <= LastVersion(a)'
        BY <1>1, ClientTypes
    <2> QED
        BY <1>1, <2>1, OtherOK
<1>5. ASSUME NEW d \in Clients, NEW e \in Clients, d # e
      PROVE  Exclusive(d, e)'
    <2>1. CASE d = c
        BY <2>1, <1>5
    <2>2. CASE e = c
        BY <2>2, <1>5 DEF Exclusive
    <2>3. CASE d # c /\ e # c
        BY <2>3, <1>5, OthersUnchanged DEF Exclusive, IInv
    <2> QED
        BY <2>1, <2>2, <2>3
<1> QED
    BY <1>2, <1>3, <1>4, <1>5 DEF IInv

\* Loading, raising, ending a request and failing before COMMIT leave no rows inserted.
LEMMA NothingInserted ==
    ASSUME IInv, NEW c \in Clients, Local(c), LocalType(c), stored' = stored, done'[c] = 0,
           ClientOK(c)'
    PROVE  IInv'
BY TableKept DEF Exclusive

\* The initial state satisfies the invariant.
LEMMA InitHolds == Init => IInv
<1> SUFFICES ASSUME Init PROVE IInv
    OBVIOUS
<1> DEFINE length(a) == IF a \in Existing THEN 1 ELSE 0
<1>1. PICK f \in Clients :
         stored = [a \in Aggregates |->
                      IF a \in Existing THEN [v \in 1 .. 1 |-> [by |-> f, basis |-> 0, size |-> 1]]
                      ELSE [v \in 1 .. 0 |-> {}]]
    BY DEF Init
<1>2. ASSUME NEW a \in Aggregates
      PROVE  /\ DOMAIN stored[a] = 1 .. length(a) /\ length(a) \in 0 .. MaxVersion
             /\ \A v \in DOMAIN stored[a] :
                   v = 1 /\ stored[a][v] = [by |-> f, basis |-> 0, size |-> 1]
    <2>1. CASE a \in Existing
        <3>1. stored[a] = [v \in 1 .. 1 |-> [by |-> f, basis |-> 0, size |-> 1]]
            BY <2>1, <1>1
        <3>2. \A v \in 1 .. 1 : v = 1
            OBVIOUS
        <3> QED
            BY <2>1, <3>1, <3>2, BoundsAssumption
    <2>2. CASE a \notin Existing
        <3>1. stored[a] = [v \in 1 .. 0 |-> {}] /\ 1 .. 0 = {}
            BY <2>2, <1>1
        <3> QED
            BY <2>2, <3>1, BoundsAssumption
    <2> QED
        BY <2>1, <2>2
<1>3. TypeOK
    <2>1. [by |-> f, basis |-> 0, size |-> 1] \in Row
        BY DEF Row
    <2>2. stored = [a \in Aggregates |-> stored[a]]
        BY <1>1
    <2>3. ASSUME NEW a \in Aggregates
          PROVE  /\ DOMAIN stored[a] \subseteq 1 .. MaxVersion
                 /\ stored[a] \in [DOMAIN stored[a] -> Row]
        <3>1. DOMAIN stored[a] \subseteq 1 .. MaxVersion
            BY <1>2, BoundsAssumption
        <3>2. \A v \in DOMAIN stored[a] : stored[a][v] \in Row
            BY <1>2, <2>1
        <3>3. stored[a] = [v \in DOMAIN stored[a] |-> stored[a][v]]
            BY <1>1
        <3> HIDE <1>1
        <3> QED
            BY <3>1, <3>2, <3>3
    <2> QED
        BY <2>2, <2>3, BoundsAssumption DEF Init, TypeOK
<1>4. ASSUME NEW a \in Aggregates
      PROVE  LogOK(a)
    <2> DEFINE n == length(a)
    <2>1. n \in Nat /\ DOMAIN stored[a] = 1 .. n
        BY <1>2
    <2>2. LastVersion(a) = n
        <3> HIDE DEF n
        <3> QED
            BY <2>1, LastOfRange
    <2>3. \A v \in DOMAIN stored[a] :
             /\ stored[a][v].basis < v
             /\ \A u \in stored[a][v].basis + 1 .. v : stored[a][u] = stored[a][v]
        BY <1>2
    <2> QED
        BY <1>2, <2>1, <2>2, <2>3 DEF LogOK
<1>5. ASSUME NEW c \in Clients
      PROVE  ClientOK(c)
    <2>1. pc[c] = "idle" /\ events[c] = 0 /\ version[c] = 0 /\ done[c] = 0
        BY DEF Init
    <2> QED
        BY <2>1 DEF ClientOK
<1>6. \A c, d \in Clients : Exclusive(c, d)
    BY DEF Init, Exclusive
<1> QED
    BY <1>3, <1>4, <1>5, <1>6 DEF IInv

\* Every step keeps the invariant.
LEMMA StepKeeps ==
    ASSUME IInv, NEW c \in Clients, ClientStep(c)
    PROVE  IInv'
<1>1. /\ ClientOK(c) /\ Base(c) \in Nat /\ TypeOK
      /\ pc[c] \in {"idle", "memory", "inserting", "refused", "failed"}
      /\ agg[c] \in Aggregates \cup {NoAggregate}
      /\ version[c] \in 0 .. MaxVersion /\ events[c] \in 0 .. MaxBatch
      /\ done[c] \in 0 .. MaxBatch /\ faults \in 0 .. MaxFaults
      /\ \A a \in Aggregates : LastVersion(a) \in Nat
    BY ClientTypes DEF IInv
<1>2. ASSUME stored' = stored
      PROVE  \A a : LastVersion(a)' = LastVersion(a)
    BY <1>2 DEF LastVersion
<1>3. ASSUME NEW a \in Aggregates, NewAggregate(c, a)
      PROVE  IInv'
    <2>1. Local(c) /\ LocalType(c) /\ stored' = stored /\ done'[c] = 0
        BY <1>1, <1>3, NewVersionAssumption, BoundsAssumption
        DEF NewAggregate, Holds, Local, LocalType, TypeOK, ClientOK
    <2>2. /\ pc'[c] = "memory" /\ agg'[c] = a /\ version'[c] = NewVersion + 1 /\ events'[c] = 1
          /\ Base(c)' = NewVersion
        BY <1>3, NewVersionAssumption DEF NewAggregate, Holds, TypeOK, IInv, Base
    <2>3. LastVersion(a) = 0
        BY <1>3 DEF NewAggregate, LastVersion
    <2>4. ClientOK(c)'
        BY <1>1, <1>2, <2>1, <2>2, <2>3, NewVersionAssumption DEF ClientOK, Known, NewInVain
    <2> QED
        BY <2>1, <2>4, NothingInserted
<1>4. ASSUME NEW a \in Aggregates, GetByID(c, a)
      PROVE  IInv'
    <2>1. LastVersion(a) \in 0 .. MaxVersion
        BY DEF IInv, LogOK
    <2>2. Local(c) /\ LocalType(c) /\ stored' = stored /\ done'[c] = 0
        BY <1>1, <1>4, <2>1, BoundsAssumption
        DEF GetByID, Holds, Local, LocalType, TypeOK, ClientOK
    <2>3. /\ pc'[c] = "memory" /\ agg'[c] = a /\ version'[c] = LastVersion(a) /\ events'[c] = 0
          /\ Base(c)' = LastVersion(a) /\ LastVersion(a) # 0
        <3>1. DOMAIN stored[a] = 1 .. LastVersion(a) /\ DOMAIN stored[a] # {}
            BY <1>4 DEF GetByID, IInv, LogOK
        <3>2. LastVersion(a) # 0
            BY <3>1, <2>1
        <3> QED
            BY <1>4, <2>1, <3>2 DEF GetByID, Holds, TypeOK, IInv, Base
    <2>4. ClientOK(c)'
        BY <1>1, <1>2, <2>1, <2>2, <2>3 DEF ClientOK, Known, NewInVain
    <2> QED
        BY <2>2, <2>4, NothingInserted
<1>5. ASSUME RaiseEvent(c)
      PROVE  IInv'
    <2>1. Local(c) /\ LocalType(c) /\ stored' = stored /\ done'[c] = 0
        BY <1>1, <1>5, BoundsAssumption
        DEF RaiseEvent, Local, LocalType, TypeOK, ClientOK
    <2>2. /\ pc'[c] = "memory" /\ agg'[c] = agg[c] /\ version'[c] = version[c] + 1
          /\ events'[c] = events[c] + 1 /\ pc[c] = "memory"
        BY <1>5 DEF RaiseEvent, TypeOK, IInv
    <2>3. Base(c)' = Base(c)
        BY <1>1, <2>2 DEF Base
    <2>4. ClientOK(c)'
        BY <1>1, <1>2, <2>1, <2>2, <2>3 DEF ClientOK, Known, NewInVain
    <2> QED
        BY <2>1, <2>4, NothingInserted
<1>6. ASSUME Forgets(c), faults' \in 0 .. MaxFaults
      PROVE  IInv'
    <2>1. Local(c) /\ LocalType(c) /\ stored' = stored /\ done'[c] = 0
        BY <1>1, <1>6, BoundsAssumption DEF Forgets, Local, LocalType, TypeOK
    <2>2. pc'[c] = "idle" /\ version'[c] = 0 /\ events'[c] = 0
        BY <1>6 DEF Forgets, TypeOK, IInv
    <2>3. ClientOK(c)'
        BY <2>1, <2>2 DEF ClientOK, Known, NewInVain
    <2> QED
        BY <2>1, <2>3, NothingInserted
<1>7. CASE Drop(c)
    BY <1>1, <1>6, <1>7 DEF Drop
<1>8. ASSUME Retry(c)
      PROVE  IInv'
    <2>1. Local(c) /\ LocalType(c) /\ stored' = stored /\ done'[c] = 0
        BY <1>1, <1>8 DEF Retry, Local, LocalType, TypeOK, ClientOK
    <2>2. /\ pc'[c] = "memory" /\ agg' = agg /\ version' = version /\ events' = events
          /\ pc[c] \in {"refused", "failed"} /\ Base(c)' = Base(c)
        BY <1>8 DEF Retry, TypeOK, IInv, Base
    <2>3. ClientOK(c)'
        BY <1>1, <1>2, <2>1, <2>2 DEF ClientOK, Known, NewInVain
    <2> QED
        BY <2>1, <2>3, NothingInserted
<1>9. CASE ClientLost(c)
    BY <1>1, <1>6, <1>9, BoundsAssumption DEF ClientLost
<1>10. ASSUME BeginSave(c)
       PROVE  IInv'
    <2>1. Local(c) /\ LocalType(c) /\ stored' = stored /\ done'[c] = 0
        BY <1>1, <1>10 DEF BeginSave, Local, LocalType, TypeOK, ClientOK
    <2>2. /\ agg' = agg /\ version' = version /\ events' = events /\ Base(c)' = Base(c)
          /\ pc[c] = "memory" /\ events[c] > 0 /\ ExpectedVersion(c) = Base(c)
        BY <1>10 DEF BeginSave, Base, ExpectedVersion
    <2>3. pc'[c] = IF LastVersion(agg[c]) = Base(c) THEN "inserting" ELSE "refused"
        BY <1>10, <2>2 DEF BeginSave, TypeOK, IInv
    <2>4. ClientOK(c)'
        BY <1>1, <1>2, <2>1, <2>2, <2>3 DEF ClientOK, Known, NewInVain
    <2> QED
        BY <2>1, <2>4, NothingInserted
<1>11. ASSUME InsertEvent(c)
       PROVE  IInv'
    <2> DEFINE v == Base(c) + done[c] + 1
    <2>1. /\ Local(c) /\ LocalType(c) /\ stored' = stored
          /\ done'[c] = done[c] + 1 /\ done[c] < events[c]
        <3>1. /\ stored' = stored /\ pc' = pc /\ agg' = agg /\ version' = version
              /\ events' = events /\ faults' = faults /\ pc[c] = "inserting"
              /\ done' = [done EXCEPT ![c] = done[c] + 1] /\ done[c] < events[c]
            BY <1>11 DEF InsertEvent, MoreEvents
        <3>2. done'[c] = done[c] + 1 /\ done[c] + 1 \in 0 .. MaxBatch
            BY <1>1, <3>1, BoundsAssumption DEF TypeOK
        <3> QED
            BY <1>1, <3>1, <3>2 DEF Local, LocalType, TypeOK
    <2>2. /\ pc' = pc /\ agg' = agg /\ version' = version /\ events' = events
          /\ pc[c] = "inserting" /\ Base(c)' = Base(c)
          /\ v \notin DOMAIN stored[agg[c]] /\ ~Waits(c, v)
        BY <1>11 DEF InsertEvent, Base, Taken
    <2>3. agg[c] \in Aggregates
        BY <1>1, <2>2 DEF ClientOK, Known, NewInVain
    <2>4. LastVersion(agg[c]) = Base(c)
        <3>1. /\ Base(c) <= LastVersion(agg[c])
              /\ done[c] > 0 => Base(c) = LastVersion(agg[c])
            BY <1>1, <2>2, <2>3 DEF ClientOK, Known, NewInVain
        <3>2. DOMAIN stored[agg[c]] = 1 .. LastVersion(agg[c])
            BY <2>3 DEF IInv, LogOK
        <3>3. LastVersion(agg[c]) \in Nat
            BY <1>1, <2>3
        <3> QED
            BY <1>1, <2>2, <3>1, <3>2, <3>3
    <2>5. ClientOK(c)'
        BY <1>1, <1>2, <2>1, <2>2, <2>3, <2>4 DEF ClientOK, Known, NewInVain
    <2>6. ASSUME NEW d \in Clients \ {c}, pc[d] = "inserting", done[d] > 0, agg[d] = agg[c]
          PROVE  FALSE
        <3>1. Base(d) = LastVersion(agg[c]) /\ done[d] \in Nat /\ Base(d) \in Nat
            BY <2>3, <2>6, ClientTypes DEF ClientOK, Known, NewInVain
        <3>2. done[c] = 0
            BY <1>1, <2>2, <2>6 DEF IInv, Exclusive
        <3>3. v \in Inserted(d)
            BY <1>1, <2>4, <2>6, <3>1, <3>2 DEF Inserted
        <3> QED
            BY <2>2, <2>6, <3>3 DEF Waits
    <2>7. ASSUME NEW d \in Clients \ {c}
          PROVE  Exclusive(c, d)'
        <3>1. done'[d] = done[d]
            BY <2>1, OthersUnchanged
        <3> QED
            BY <2>2, <2>6, <3>1 DEF Exclusive
    <2> QED
        BY <2>1, <2>5, <2>7, TableKept
<1>12. ASSUME NEW outcome \in {"refused", "failed"}, RollsBack(c, outcome), stored' = stored,
              pc[c] = "inserting", faults' \in 0 .. MaxFaults,
              outcome = "refused" => Base(c) < LastVersion(agg[c])
       PROVE  IInv'
    <2>1. Local(c) /\ LocalType(c) /\ done'[c] = 0 /\ pc'[c] = outcome
        BY <1>1, <1>12, BoundsAssumption DEF RollsBack, Local, LocalType, TypeOK
    <2>2. agg' = agg /\ version' = version /\ events' = events /\ Base(c)' = Base(c)
        BY <1>12 DEF RollsBack, Base
    <2>3. ClientOK(c)'
        BY <1>1, <1>2, <1>12, <2>1, <2>2 DEF ClientOK, Known, NewInVain
    <2> QED
        BY <1>12, <2>1, <2>3, NothingInserted
<1>13. CASE InsertRefused(c)
    <2>1. agg[c] \in Aggregates /\ Base(c) + done[c] + 1 \in DOMAIN stored[agg[c]]
        BY <1>1, <1>13 DEF InsertRefused, ClientOK, Taken
    <2>2. DOMAIN stored[agg[c]] = 1 .. LastVersion(agg[c]) /\ LastVersion(agg[c]) \in Nat
        BY <1>1, <2>1 DEF IInv, LogOK
    <2>3. Base(c) < LastVersion(agg[c])
        BY <1>1, <2>1, <2>2
    <2> QED
        BY <1>1, <1>12, <1>13, <2>3 DEF InsertRefused
<1>14. ASSUME pc[c] = "inserting", ~MoreEvents(c), stored' = Committed(c),
              Local(c), LocalType(c), done'[c] = 0, agg' = agg, version' = version,
              \/ pc'[c] = "memory" /\ events'[c] = 0
              \/ pc'[c] = "failed" /\ events' = events
       PROVE  IInv'
    <2>1. PICK b \in Aggregates : b = agg[c]
        BY <1>1, <1>14 DEF ClientOK, Known, NewInVain
    <2>2. /\ stored' = [a \in Aggregates |-> stored'[a]]
          /\ \A a \in Aggregates : /\ DOMAIN stored'[a] \subseteq 1 .. MaxVersion
                                   /\ stored'[a] \in [DOMAIN stored'[a] -> Row]
          /\ \A a \in Aggregates : LogOK(a)'
          /\ LastVersion(b)' = Base(c) + events[c]
          /\ \A a \in Aggregates \ {b} : LastVersion(a)' = LastVersion(a)
          /\ \A a \in Aggregates : LastVersion(a) <= LastVersion(a)'
        BY <1>14, <2>1, CommittedLog
    <2>3. \A a \in Aggregates : LastVersion(a)' \in Nat
        BY <2>2, BoundsAssumption DEF LogOK
    <2>8. Base(c) = LastVersion(b) /\ (NewVersion # 0 => Base(c) # 0)
        BY <1>1, <1>14, <2>1, BoundsAssumption DEF ClientOK, MoreEvents, Known, NewInVain
    <2>9. \A a \in Aggregates : NewVersion # 0 /\ LastVersion(a) = 0 => LastVersion(a)' = 0
        BY <2>2, <2>8
    <2>4. TypeOK'
        BY <1>1, <1>14, <2>2 DEF TypeOK, Local, LocalType
    <2>5. ClientOK(c)'
        <3>1. Base(c) + events[c] = version[c]
            BY <1>1 DEF Base
        <3>2. Base(c)' <= LastVersion(b)'
            BY <1>1, <1>14, <2>2, <3>1 DEF Base
        <3>3. Base(c)' \in Int /\ events'[c] <= version'[c]
            BY <1>1, <1>14 DEF Base, ClientOK
        <3>4. NewVersion # 0 => Base(c)' # 0
            BY <1>1, <1>14, <2>1, <2>8, <3>1, BoundsAssumption DEF Base, ClientOK
        <3> QED
            BY <1>14, <2>1, <3>2, <3>3, <3>4 DEF ClientOK, Known, NewInVain
    <2>6. ASSUME NEW d \in Clients \ {c}
          PROVE  ClientOK(d)'
        <3>1. /\ events[c] > 0 /\ done[c] = events[c]
            BY <1>1, <1>14 DEF ClientOK, MoreEvents
        <3>2. pc[d] = "inserting" /\ done[d] > 0 => agg[d] # b
            BY <1>14, <2>1, <3>1 DEF IInv, Exclusive
        <3> QED
            BY <1>14, <2>2, <2>3, <2>9, <3>2, OtherOK
    <2>7. ASSUME NEW d \in Clients, NEW e \in Clients, d # e
          PROVE  Exclusive(d, e)'
        <3>1. CASE d = c \/ e = c
            BY <3>1, <1>14 DEF Exclusive
        <3>2. CASE d # c /\ e # c
            BY <3>2, <2>7, <1>14, OthersUnchanged DEF Exclusive, IInv
        <3> QED
            BY <3>1, <3>2
    <2> QED
        BY <2>2, <2>4, <2>5, <2>6, <2>7 DEF IInv
<1>15. CASE Commit(c)
    <2>1. /\ Local(c) /\ LocalType(c) /\ done'[c] = 0
          /\ pc'[c] = "memory" /\ events'[c] = 0
        BY <1>1, <1>15, BoundsAssumption DEF Commit, Local, LocalType, TypeOK
    <2> QED
        BY <1>14, <1>15, <2>1 DEF Commit
<1>16. CASE CallFails(c)
    <2>1. faults' \in 0 .. MaxFaults /\ RollsBack(c, "failed") /\ pc[c] = "inserting"
        BY <1>1, <1>16, BoundsAssumption DEF CallFails
    <2>2. CASE stored' = stored
        BY <1>12, <2>1, <2>2
    <2>3. CASE ~MoreEvents(c) /\ stored' = Committed(c)
        <3>1. /\ Local(c) /\ LocalType(c) /\ done'[c] = 0 /\ pc'[c] = "failed"
              /\ agg' = agg /\ version' = version /\ events' = events
            BY <1>1, <2>1, BoundsAssumption DEF RollsBack, Local, LocalType, TypeOK
        <3> QED
            BY <1>14, <2>1, <2>3, <3>1
    <2> QED
        BY <1>16, <2>2, <2>3 DEF CallFails
<1> QED
    BY <1>3, <1>4, <1>5, <1>7, <1>8, <1>9, <1>10, <1>11, <1>13, <1>15, <1>16
    DEF ClientStep, SaveStep

----------------------------------------------------------------------------
(* Theorems.                                                               *)

\* The inductive invariant holds in every reachable state.
THEOREM Invariance == Spec => []IInv
<1>1. IInv /\ [Next]_vars => IInv'
    <2> SUFFICES ASSUME IInv, [Next]_vars PROVE IInv'
        OBVIOUS
    <2>1. CASE Next
        BY <2>1, StepKeeps DEF Next
    <2>2. CASE UNCHANGED vars
        <3>1. \A a : LastVersion(a)' = LastVersion(a)
            BY <2>2 DEF vars, LastVersion
        <3>2. TypeOK'
            BY <2>2 DEF IInv, vars, TypeOK
        <3>3. ASSUME NEW a \in Aggregates
              PROVE  LogOK(a)'
            BY <2>2, <3>1 DEF IInv, vars, LogOK
        <3>4. ASSUME NEW c \in Clients
              PROVE  ClientOK(c)'
            BY <2>2, <3>1 DEF IInv, vars, ClientOK, Base
        <3>5. \A c, d \in Clients : c # d => Exclusive(c, d)'
            BY <2>2 DEF IInv, vars, Exclusive
        <3> QED
            BY <3>2, <3>3, <3>4, <3>5 DEF IInv
    <2> QED
        BY <2>1, <2>2
<1> QED
    BY <1>1, InitHolds, PTL DEF Spec

\* The table and the clients stay in their types for any number of clients.
THEOREM TypeCorrect == Spec => []TypeOK
<1>1. IInv => TypeOK
    BY DEF IInv
<1> QED
    BY <1>1, Invariance, PTL

\* Concurrent saves never lose an update or leave a hole, although the optimistic
\* check takes no lock.
THEOREM NoLostUpdateAlways == Spec => []NoLostUpdate
<1>1. IInv => NoLostUpdate
    BY DEF IInv, LogOK, NoLostUpdate
<1> QED
    BY <1>1, Invariance, PTL

\* Wherever new aggregates start, a refused save was overtaken by another one, or is that of
\* an aggregate which starts where the store does not begin to count.
THEOREM ConflictIsRealAlways == Spec => []ConflictIsReal
<1>1. IInv => ConflictIsReal
    <2> SUFFICES ASSUME IInv, NEW c \in Clients, pc[c] = "refused"
                 PROVE  LastVersion(agg[c]) > Base(c) \/ NeverStored(c)
        BY DEF ConflictIsReal
    <2>1. ClientOK(c) /\ Base(c) \in Nat /\ \A a \in Aggregates : LastVersion(a) \in Nat
        BY ClientTypes
    <2>2. /\ agg[c] \in Aggregates
          /\ Base(c) < LastVersion(agg[c]) \/ NewInVain(Base(c), LastVersion(agg[c]))
        BY <2>1 DEF ClientOK
    <2>3. DOMAIN stored[agg[c]] = 1 .. LastVersion(agg[c])
        BY <2>2 DEF IInv, LogOK
    <2> QED
        BY <2>1, <2>2, <2>3 DEF NewInVain, NeverStored
<1> QED
    BY <1>1, Invariance, PTL

\* Wherever new aggregates start, what a client takes for committed is stored, unless it is
\* the starting version of an aggregate that cannot be stored.
THEOREM MemoryIsStoredAlways == Spec => []MemoryIsStored
<1>1. IInv => MemoryIsStored
    <2> SUFFICES ASSUME IInv, NEW c \in Clients, pc[c] # "idle"
                 PROVE  1 .. Base(c) \subseteq DOMAIN stored[agg[c]] \/ NeverStored(c)
        BY DEF MemoryIsStored
    <2>1. ClientOK(c) /\ Base(c) \in Nat /\ \A a \in Aggregates : LastVersion(a) \in Nat
        BY ClientTypes
    <2>2. /\ agg[c] \in Aggregates
          /\ Known(Base(c), LastVersion(agg[c])) \/ NewInVain(Base(c), LastVersion(agg[c]))
        BY <2>1 DEF ClientOK
    <2>3. DOMAIN stored[agg[c]] = 1 .. LastVersion(agg[c])
        BY <2>2 DEF IInv, LogOK
    <2>4. CASE Known(Base(c), LastVersion(agg[c]))
        BY <2>1, <2>2, <2>3, <2>4 DEF Known
    <2>5. CASE NewInVain(Base(c), LastVersion(agg[c]))
        BY <2>3, <2>5 DEF NewInVain, NeverStored
    <2> QED
        BY <2>2, <2>4, <2>5
<1> QED
    BY <1>1, Invariance, PTL

\* SaveEvents implements the abstract log: every save is one atomic append by a
\* client that saw all that precedes it.
THEOREM LogImplemented == Spec => ImplementsLog
<1>1. Init => Log!Init
    BY DEF Init, Log!Init, Log!Entry
<1>2. ASSUME IInv, NEW c \in Clients, pc[c] = "inserting", ~MoreEvents(c), stored' = Committed(c)
      PROVE  Log!Next
    <2> DEFINE a == agg[c]
               len == Base(c)
    <2>1. /\ a \in Aggregates /\ len \in Nat /\ events[c] \in 1 .. MaxBatch
          /\ LastVersion(a) = len /\ DOMAIN stored[a] = 1 .. len
          /\ stored' = [stored EXCEPT ![a] =
                [v \in 1 .. len + events[c] |-> IF v <= len THEN stored[a][v] ELSE Rows(c)]]
        BY <1>2, CommitAppends
    <2>2. Rows(c) = Log!Entry(c, len, events[c])
        BY DEF Rows, Log!Entry
    <2>3. Log!Append(a, c, len, events[c])
        BY <2>1, <2>2 DEF Log!Append
    <2>4. len \in 0 .. MaxVersion
        <3>1. \A b \in Aggregates : LastVersion(b) \in 0 .. MaxVersion
            BY <1>2 DEF IInv, LogOK
        <3> QED
            BY <2>1, <3>1
    <2> QED
        BY <2>1, <2>3, <2>4 DEF Log!Next
<1>3. IInv /\ [Next]_vars => [Log!Next]_stored
    <2> SUFFICES ASSUME IInv, Next PROVE Log!Next \/ stored' = stored
        BY DEF vars
    <2>1. PICK c \in Clients : ClientStep(c)
        BY DEF Next
    <2>2. CASE Commit(c)
        BY <1>2, <2>2 DEF Commit
    <2>3. CASE CallFails(c)
        BY <1>2, <2>3 DEF CallFails
    <2> QED
        BY <2>1, <2>2, <2>3
        DEF ClientStep, SaveStep, NewAggregate, GetByID, Holds, RaiseEvent, Drop, Forgets, Retry,
            ClientLost, BeginSave, InsertEvent, InsertRefused
<1> QED
    BY <1>1, <1>3, Invariance, PTL DEF Spec, ImplementsLog, Log!Spec
=============================================================================
