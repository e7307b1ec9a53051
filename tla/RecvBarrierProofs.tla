------------------------- MODULE RecvBarrierProofs -------------------------
(***************************************************************************)
(* recv_barrier() for any number of clients and sockets whose UUIDs are    *)
(* fresh: nobody passes a barrier before everybody has come, and the node  *)
(* of a barrier lives from the first arrival to the last departure.        *)
(***************************************************************************)
EXTENDS RecvBarrier, FiniteSetTheorems, TLAPS

Types ==
  /\ DOMAIN barriers \subseteq Uuids
  /\ pc \in [Threads -> {"run", "asleep", "woken"}]
  /\ started \in [Threads -> Nat]
  /\ done \in [Threads -> Nat]

\* A thread is in at most one barrier command.
Progress ==
  \A t \in Threads :
    /\ started[t] <= Len(Script[t])
    /\ IF pc[t] = "run" THEN done[t] = started[t] ELSE done[t] + 1 = started[t]

Node == [remaining : Nat, to_exit : Nat, complete : BOOLEAN]

\* What the node of u says of the sockets of the group.
NodeExact(u) ==
  /\ u \in DOMAIN barriers =>
       /\ In(u) # {} /\ Out(u) # Group(u)
       /\ barriers[u] \in Node
       /\ barriers[u].remaining = Count[u] - Cardinality(In(u))
       /\ barriers[u].to_exit = Count[u] - Cardinality(Out(u))
       /\ barriers[u].complete <=> In(u) = Group(u)
  /\ u \notin DOMAIN barriers => In(u) = {} \/ Out(u) = Group(u)
  /\ Out(u) # {} => In(u) = Group(u)

\* Who waits has a node to wait on, and was woken just if it is complete.
Waiting ==
  \A t \in Threads : pc[t] # "run" =>
    /\ Current(t) \in DOMAIN barriers
    /\ pc[t] = "woken" <=> barriers[Current(t)].complete

IInv == Types /\ Progress /\ (\A u \in Uuids : NodeExact(u)) /\ Waiting

-----------------------------------------------------------------------------
(* Bytes, scripts and groups. *)

\* The arithmetic of a byte is that of numbers where it does not wrap.
LEMMA ByteExact ==
  ASSUME NEW n \in Nat, n < Wrap
  PROVE  Byte(n) = n /\ (n > 0 => Dec(n) = n - 1)
  BY RecvBarrierAssumption DEF Byte, Dec

\* What is assumed of the scripts.
LEMMA ScriptTypes ==
  ASSUME NEW t \in Threads
  PROVE  Len(Script[t]) \in Nat /\ \A i \in 1..Len(Script[t]) : Script[t][i] \in Uuids
<1>1. Script[t] \in Seq(Uuids)
  BY RecvBarrierAssumption
<1> QED
  BY <1>1

\* One command more adds its UUID, which is new, to those the socket has had.
LEMMA HasNext ==
  ASSUME FreshUuids, NEW t \in Threads, NEW n \in Nat, n < Len(Script[t])
  PROVE  /\ Script[t][n + 1] \in Uuids /\ t \in Group(Script[t][n + 1])
         /\ ~Has(t, Script[t][n + 1], n)
         /\ Has(t, Script[t][n + 1], n + 1)
         /\ \A u : u # Script[t][n + 1] => (Has(t, u, n + 1) <=> Has(t, u, n))
<1>1. n + 1 \in 1..Len(Script[t])
  BY ScriptTypes
<1>2. \A i \in 1..n : i \in 1..Len(Script[t]) /\ i # n + 1
  BY ScriptTypes
<1>3. 1..(n + 1) = (1..n) \cup {n + 1}
  OBVIOUS
<1>4. Script[t][n + 1] \in Uuids /\ t \in Group(Script[t][n + 1])
  BY <1>1, ScriptTypes DEF Group
<1>5. ~Has(t, Script[t][n + 1], n)
  BY <1>1, <1>2 DEF FreshUuids, Has
<1> QED
  BY <1>3, <1>4, <1>5 DEF Has

\* Sets of sockets of a group, and the count that goes with the UUID.
LEMMA GroupCard ==
  ASSUME FreshUuids, NEW u \in Uuids, NEW S \in SUBSET Group(u)
  PROVE  /\ Cardinality(S) \in 0..Count[u] /\ Count[u] \in Nat /\ Count[u] < Wrap
         /\ Cardinality(S) = Count[u] <=> S = Group(u)
         /\ Cardinality(S) = 0 <=> S = {}
         /\ \A t \in Group(u) : t \notin S => Cardinality(S \cup {t}) = Cardinality(S) + 1
<1>1. IsFiniteSet(Group(u)) /\ Count[u] = Cardinality(Group(u)) /\ Count[u] < Wrap
  BY DEF FreshUuids
<1>2. IsFiniteSet(S) /\ Cardinality(S) <= Cardinality(Group(u))
       /\ (Cardinality(S) = Cardinality(Group(u)) => S = Group(u))
  BY <1>1, FS_Subset
<1>3. Cardinality(S) \in Nat /\ Cardinality(Group(u)) \in Nat
  BY <1>1, <1>2, FS_CardinalityType
<1>4. Cardinality(S) = 0 <=> S = {}
  BY <1>2, FS_EmptySet
<1>5. \A t \in Group(u) : t \notin S => Cardinality(S \cup {t}) = Cardinality(S) + 1
  BY <1>2, FS_AddElement
<1> QED
  BY <1>1, <1>2, <1>3, <1>4, <1>5

\* Without repetitions a UUID occurs once or not at all.
LEMMA OccursOnce ==
  ASSUME FreshUuids, NEW t \in Threads, NEW u \in Uuids, NEW n \in Nat, n <= Len(Script[t])
  PROVE  Occurrences(t, u, n) = (IF Has(t, u, n) THEN 1 ELSE 0)
<1>1. CASE ~Has(t, u, n)
  <2>1. {i \in 1..n : Script[t][i] = u} = {}
    BY <1>1 DEF Has
  <2> QED
    BY <1>1, <2>1, FS_EmptySet DEF Occurrences
<1>2. CASE Has(t, u, n)
  <2>1. PICK i \in 1..n : Script[t][i] = u
    BY <1>2 DEF Has
  <2>2. \A j \in 1..n : j \in 1..Len(Script[t])
    BY ScriptTypes
  <2>3. {j \in 1..n : Script[t][j] = u} = {i}
    BY <2>1, <2>2 DEF FreshUuids
  <2> QED
    BY <1>2, <2>3, FS_Singleton DEF Occurrences
<1> QED
  BY <1>1, <1>2

-----------------------------------------------------------------------------
(* The steps. *)

\* A command that is begun brings its socket to the barrier it names.
LEMMA ArriveSets ==
  ASSUME FreshUuids, Types, NEW t \in Threads, started[t] < Len(Script[t]),
         started' = [started EXCEPT ![t] = @ + 1],
         NEW u, u = Script[t][started[t] + 1]
  PROVE  /\ u \in Uuids /\ t \in Group(u) /\ t \notin In(u)
         /\ In(u)' = In(u) \cup {t}
         /\ \A v \in Uuids : v # u => In(v)' = In(v)
<1>1. started[t] \in Nat /\ started'[t] = started[t] + 1
  BY DEF Types
<1>2. \A x \in Threads : x # t => started'[x] = started[x]
  BY DEF Types
<1>3. \A v \in Uuids : Group(v) \subseteq Threads
  BY DEF Group
<1>4. u \in Uuids /\ t \in Group(u) /\ t \notin In(u)
  BY <1>1, HasNext DEF In
<1>5. In(u)' = In(u) \cup {t}
  BY <1>1, <1>2, <1>3, <1>4, HasNext DEF In
<1>6. \A v \in Uuids : v # u => In(v)' = In(v)
  BY <1>1, <1>2, <1>3, HasNext DEF In
<1> QED
  BY <1>4, <1>5, <1>6

\* A command that returns takes it away from there.
LEMMA LeaveSets ==
  ASSUME FreshUuids, Types, NEW t \in Threads, done[t] < Len(Script[t]),
         done' = [done EXCEPT ![t] = @ + 1],
         NEW u, u = Script[t][done[t] + 1]
  PROVE  /\ u \in Uuids /\ t \in Group(u) /\ t \notin Out(u)
         /\ Out(u)' = Out(u) \cup {t}
         /\ \A v \in Uuids : v # u => Out(v)' = Out(v)
<1>1. done[t] \in Nat /\ done'[t] = done[t] + 1
  BY DEF Types
<1>2. \A x \in Threads : x # t => done'[x] = done[x]
  BY DEF Types
<1>3. \A v \in Uuids : Group(v) \subseteq Threads
  BY DEF Group
<1>4. u \in Uuids /\ t \in Group(u) /\ t \notin Out(u)
  BY <1>1, HasNext DEF Out
<1>5. Out(u)' = Out(u) \cup {t}
  BY <1>1, <1>2, <1>3, <1>4, HasNext DEF Out
<1>6. \A v \in Uuids : v # u => Out(v)' = Out(v)
  BY <1>1, <1>2, <1>3, HasNext DEF Out
<1> QED
  BY <1>4, <1>5, <1>6

\* Who is in a barrier command has arrived there and has not left.
LEMMA WaiterInside ==
  ASSUME FreshUuids, IInv, NEW t \in Threads, pc[t] # "run"
  PROVE  /\ Current(t) \in Uuids /\ t \in Group(Current(t))
         /\ t \in In(Current(t)) /\ t \notin Out(Current(t))
         /\ done[t] < Len(Script[t]) /\ Current(t) = Script[t][done[t] + 1]
<1>1. /\ done[t] \in Nat /\ started[t] = done[t] + 1 /\ done[t] < Len(Script[t])
      /\ Len(Script[t]) \in Nat
  BY ScriptTypes DEF IInv, Types, Progress
<1>2. Current(t) = Script[t][done[t] + 1]
  BY <1>1 DEF Current
<1> QED
  BY <1>1, <1>2, HasNext DEF In, Out

\* The last lines of recv_barrier(), for the last socket to arrive and for
\* one that was woken: t leaves the barrier u, p is what everybody else does.
LEMMA LeaveInv ==
  ASSUME FreshUuids, IInv, NEW t \in Threads, NEW u \in Uuids, NEW c \in Node, NEW p,
         Leave(u, c, p),
         c.complete, c.remaining = 0, c.to_exit = Count[u] - Cardinality(Out(u)),
         t \in Group(u), t \notin Out(u), In(u)' = Group(u), Out(u)' = Out(u) \cup {t},
         \A v \in Uuids : v # u => In(v)' = In(v) /\ Out(v)' = Out(v),
         p \in [Threads -> {"run", "asleep", "woken"}], p[t] = "run",
         \A x \in Threads : x # t => (p[x] = "run" <=> pc[x] = "run"),
         \A x \in Threads : x # t /\ p[x] # "run" =>
            p[x] = (IF Current(x) = u THEN "woken" ELSE pc[x]) /\ Current(x)' = Current(x)
  PROVE  /\ DOMAIN barriers' \subseteq Uuids /\ pc' = p
         /\ \A v \in Uuids : NodeExact(v)'
         /\ Waiting'
<1>1. /\ Out(u) \in SUBSET Group(u) /\ Out(u)' \in SUBSET Group(u) /\ Group(u) \in SUBSET Group(u)
  BY DEF Out
<1>2. /\ Count[u] \in Nat /\ Count[u] < Wrap /\ Wrap \in Nat
      /\ Cardinality(Out(u)) \in Nat /\ Cardinality(Out(u)) < Count[u]
      /\ Cardinality(Out(u)') = Cardinality(Out(u)) + 1
      /\ Cardinality(Out(u)') = Count[u] <=> Out(u)' = Group(u)
      /\ Cardinality(Group(u)) = Count[u]
  <2>1. \A S \in SUBSET Group(u) :
          /\ Cardinality(S) \in 0..Count[u] /\ Count[u] \in Nat /\ Count[u] < Wrap
          /\ Cardinality(S) = Count[u] <=> S = Group(u)
          /\ \A x \in Group(u) : x \notin S => Cardinality(S \cup {x}) = Cardinality(S) + 1
    BY GroupCard
  <2>2. Cardinality(Out(u)) \in 0..Count[u] /\ Count[u] \in Nat /\ Cardinality(Out(u)) # Count[u]
    BY <1>1, <2>1
  <2>3. Cardinality(Out(u)') = Cardinality(Out(u)) + 1
    BY <1>1, <2>1
  <2>4. Cardinality(Out(u)') = Count[u] <=> Out(u)' = Group(u)
    BY <1>1, <2>1
  <2>5. Cardinality(Group(u)) = Count[u] /\ Count[u] < Wrap /\ Wrap \in Nat
    BY <1>1, <2>1, RecvBarrierAssumption
  <2> QED
    BY <2>2, <2>3, <2>4, <2>5
<1>3. Dec(c.to_exit) = Count[u] - Cardinality(Out(u)')
  <2>1. c.to_exit \in Nat /\ c.to_exit < Wrap /\ c.to_exit > 0
    BY <1>2
  <2> QED
    BY <1>2, <2>1, ByteExact
<1>4. \A x \in Threads : x # t /\ p[x] # "run" =>
        /\ pc[x] # "run" /\ Current(x) \in Uuids /\ x \in Group(Current(x)) /\ x \notin Out(Current(x))
        /\ Current(x) \in DOMAIN barriers
        /\ pc[x] = "woken" <=> barriers[Current(x)].complete
  BY WaiterInside DEF IInv, Waiting
<1>5. DOMAIN barriers \subseteq Uuids /\ \A v \in Uuids : NodeExact(v) /\ Group(v)' = Group(v)
  BY DEF IInv, Types, Group
<1>6. CASE Out(u)' = Group(u)
  <2>1. Dec(c.to_exit) = 0
    BY <1>2, <1>3, <1>6
  <2>2. barriers' = [v \in DOMAIN barriers \ {u} |-> barriers[v]]
    BY <2>1 DEF Leave
  <2>3. \A x \in Threads : ~(p[x] \in {"asleep", "woken"} /\ Current(x) = u)
    BY <1>1, <1>4, <1>6
  <2>4. pc' = p
    BY <2>1, <2>3 DEF Leave
  <2>5. ASSUME NEW v \in Uuids PROVE NodeExact(v)'
    <3>1. CASE v = u
      BY <1>6, <2>2, <3>1 DEF NodeExact, Group
    <3>2. CASE v # u
      BY <1>5, <2>2, <3>2 DEF NodeExact
    <3> QED
      BY <3>1, <3>2
  <2>6. Waiting'
    BY <1>4, <2>2, <2>3, <2>4 DEF Waiting
  <2> QED
    BY <1>5, <2>2, <2>4, <2>5, <2>6
<1>7. CASE Out(u)' # Group(u)
  <2> DEFINE d == [c EXCEPT !.to_exit = Dec(c.to_exit)]
  <2>1. Dec(c.to_exit) # 0 /\ Dec(c.to_exit) \in Nat
    BY <1>2, <1>3, <1>7
  <2>2. barriers' = SetNode(u, d) /\ pc' = p
    BY <2>1 DEF Leave
  <2>3. d \in Node /\ d.complete /\ d.remaining = 0 /\ d.to_exit = Count[u] - Cardinality(Out(u)')
    BY <1>3, <2>1 DEF Node
  <2>4. u \in DOMAIN barriers' /\ barriers'[u] = d
    BY <2>2 DEF SetNode
  <2>5. ASSUME NEW v \in Uuids PROVE NodeExact(v)'
    <3>1. CASE v = u
      <4>1. Cardinality(In(u)') = Count[u] /\ In(u)' # {} /\ Group(u)' = Group(u)
        BY <1>2, <1>5
      <4>2. d.remaining = Count[u] - Cardinality(In(u)')
        BY <1>2, <2>3, <4>1
      <4>3. NodeExact(u)'
        <5> HIDE DEF d
        <5> QED
          BY <1>7, <2>3, <2>4, <4>1, <4>2 DEF NodeExact
      <4> QED
        BY <3>1, <4>3
    <3>2. CASE v # u
      <4>1. /\ v \in DOMAIN barriers' <=> v \in DOMAIN barriers
            /\ v \in DOMAIN barriers => barriers'[v] = barriers[v]
        BY <2>2, <3>2 DEF SetNode
      <4> QED
        BY <1>5, <3>2, <4>1 DEF NodeExact
    <3> QED
      BY <3>1, <3>2
  <2>6. ASSUME NEW x \in Threads, pc'[x] # "run"
        PROVE  /\ Current(x)' \in DOMAIN barriers'
               /\ pc'[x] = "woken" <=> barriers'[Current(x)'].complete
    <3>1. x # t /\ p[x] # "run" /\ Current(x)' = Current(x)
      BY <2>2, <2>6
    <3>2. CASE Current(x) = u
      BY <2>2, <2>3, <2>4, <3>1, <3>2
    <3>3. CASE Current(x) # u
      BY <1>4, <2>2, <3>1, <3>3 DEF SetNode
    <3> QED
      BY <3>2, <3>3
  <2> QED
    BY <1>5, <2>2, <2>5, <2>6 DEF Waiting, SetNode
<1> QED
  BY <1>6, <1>7

\* recv_barrier() up to the wait, or to its end for the last to arrive.
LEMMA ArriveInv ==
  ASSUME FreshUuids, IInv, NEW t \in Threads, recv_barrier(t)
  PROVE  IInv'
<1>0. PICK u : u = Script[t][started[t] + 1]
  OBVIOUS
<1> DEFINE b == Arrived(u)
<1>1. pc[t] = "run" /\ started[t] < Len(Script[t]) /\ started' = [started EXCEPT ![t] = @ + 1]
  BY DEF recv_barrier
<1>2. /\ u \in Uuids /\ t \in Group(u) /\ t \notin In(u) /\ In(u)' = In(u) \cup {t}
      /\ \A v \in Uuids : v # u => In(v)' = In(v)
  BY <1>0, <1>1, ArriveSets DEF IInv
<1>3. done[t] = started[t] /\ u = Script[t][done[t] + 1]
  BY <1>0, <1>1 DEF IInv, Progress
<1>4. NodeExact(u) /\ In(u) \subseteq Group(u) /\ In(u)' \subseteq Group(u)
  BY <1>2 DEF IInv, In
<1>5. Out(u) = {} /\ In(u) # Group(u)
  BY <1>2, <1>4 DEF NodeExact
<1>6. /\ Count[u] \in Nat /\ Count[u] < Wrap /\ Count[u] > 0
      /\ Cardinality(In(u)) \in Nat /\ Cardinality(In(u)) < Count[u]
      /\ Cardinality(In(u)') = Cardinality(In(u)) + 1
      /\ Cardinality(In(u)') = Count[u] <=> In(u)' = Group(u)
      /\ Cardinality(In(u)) = 0 <=> In(u) = {}
  <2>1. \A S \in SUBSET Group(u) :
          /\ Cardinality(S) \in 0..Count[u] /\ Count[u] \in Nat /\ Count[u] < Wrap
          /\ Cardinality(S) = Count[u] <=> S = Group(u)
          /\ Cardinality(S) = 0 <=> S = {}
          /\ \A x \in Group(u) : x \notin S => Cardinality(S \cup {x}) = Cardinality(S) + 1
    BY <1>2, GroupCard
  <2> QED
    BY <1>2, <1>4, <1>5, <2>1
<1>7. /\ b \in Node /\ ~b.complete
      /\ b.remaining = Count[u] - Cardinality(In(u)') /\ b.to_exit = Count[u]
  <2>1. CASE u \notin DOMAIN barriers
    <3>1. Cardinality(In(u)) = 0
      BY <1>2, <1>4, <1>5, <1>6, <2>1 DEF NodeExact
    <3>2. Byte(Count[u]) = Count[u] /\ Dec(Count[u]) = Count[u] - 1
      BY <1>6, ByteExact
    <3> QED
      BY <1>6, <2>1, <3>1, <3>2 DEF Arrived, Node
  <2>2. CASE u \in DOMAIN barriers
    <3>1. /\ barriers[u] \in Node /\ ~barriers[u].complete
          /\ barriers[u].remaining = Count[u] - Cardinality(In(u)) /\ barriers[u].to_exit = Count[u]
      BY <1>4, <1>5, <1>6, <2>2, FS_EmptySet DEF NodeExact
    <3>2. Count[u] - Cardinality(In(u)) \in Nat /\ Count[u] - Cardinality(In(u)) < Wrap
          /\ Count[u] - Cardinality(In(u)) > 0 /\ Wrap \in Nat
      BY <1>6, RecvBarrierAssumption
    <3>3. Dec(barriers[u].remaining) = Count[u] - Cardinality(In(u)) - 1
      BY <3>1, <3>2, ByteExact
    <3>4. b = [barriers[u] EXCEPT !.remaining = Dec(barriers[u].remaining)]
      BY <2>2 DEF Arrived
    <3> QED
      BY <1>6, <3>1, <3>2, <3>3, <3>4 DEF Node
  <2> QED
    BY <2>1, <2>2
<1>8. \A x \in Threads : pc[x] # "run" => x # t /\ Current(x)' = Current(x)
  BY <1>1 DEF Current, IInv, Types
<1>9. CASE In(u)' # Group(u)
  <2>1. barriers' = SetNode(u, b) /\ pc' = [pc EXCEPT ![t] = "asleep"] /\ UNCHANGED done
    BY <1>0, <1>6, <1>7, <1>9 DEF recv_barrier
  <2>2. Types'
    BY <1>1, <1>2, <2>1 DEF IInv, Types, SetNode
  <2>3. Progress'
    BY <1>1, <1>3, <2>1, ScriptTypes DEF IInv, Types, Progress
  <2>4. Current(t)' = u /\ \A v \in Uuids : Out(v)' = Out(v)
    BY <1>0, <1>1, <2>1 DEF Current, IInv, Types, Out
  <2>5. NodeExact(u)'
    <3>1. u \in DOMAIN barriers' /\ barriers'[u] = b
      BY <2>1 DEF SetNode
    <3>2. Out(u)' = {} /\ Cardinality(Out(u)') = 0 /\ Group(u) # {}
      BY <1>2, <1>5, <2>4, FS_EmptySet
    <3>3. In(u)' # {} /\ Group(u)' = Group(u)
      BY <1>2 DEF Group
    <3> QED
      BY <1>2, <1>6, <1>7, <1>9, <3>1, <3>2, <3>3 DEF NodeExact
  <2>6. ASSUME NEW v \in Uuids, v # u PROVE NodeExact(v)'
    <3>1. (v \in DOMAIN barriers' <=> v \in DOMAIN barriers) /\ (v \in DOMAIN barriers => barriers'[v] = barriers[v])
      BY <2>1, <2>6 DEF SetNode
    <3>2. NodeExact(v) /\ In(v)' = In(v) /\ Out(v)' = Out(v)
      BY <1>2, <2>4, <2>6 DEF IInv
    <3> QED
      BY <3>1, <3>2 DEF NodeExact, Group
  <2>7. Waiting'
    <3>1. ASSUME NEW x \in Threads, pc'[x] # "run"
          PROVE  /\ Current(x)' \in DOMAIN barriers'
                 /\ pc'[x] = "woken" <=> barriers'[Current(x)'].complete
      <4>1. CASE x = t
        BY <1>7, <2>1, <2>4, <4>1 DEF SetNode, IInv, Types
      <4>2. CASE x # t
        <5>1. pc[x] # "run" /\ pc'[x] = pc[x] /\ Current(x)' = Current(x)
          BY <1>8, <2>1, <3>1, <4>2 DEF IInv, Types
        <5>2. Current(x) \in DOMAIN barriers /\ (pc[x] = "woken" <=> barriers[Current(x)].complete)
          BY <5>1 DEF IInv, Waiting
        <5>3. Current(x) = u => ~barriers[u].complete
          BY <1>4, <1>5, <5>2 DEF NodeExact
        <5> QED
          BY <1>7, <2>1, <5>1, <5>2, <5>3 DEF SetNode
      <4> QED
        BY <4>1, <4>2
    <3> QED
      BY <3>1 DEF Waiting
  <2> QED
    BY <2>2, <2>3, <2>5, <2>6, <2>7 DEF IInv
<1>10. CASE In(u)' = Group(u)
  <2> DEFINE c == [b EXCEPT !.complete = TRUE]
  <2>1. Leave(u, c, Notified(u)) /\ done' = [done EXCEPT ![t] = @ + 1]
    BY <1>0, <1>6, <1>7, <1>10 DEF recv_barrier
  <2>2. t \notin Out(u) /\ Out(u)' = Out(u) \cup {t} /\ \A v \in Uuids : v # u => Out(v)' = Out(v)
    BY <1>1, <1>3, <2>1, LeaveSets DEF IInv
  <2>3. c \in Node /\ c.complete /\ c.remaining = 0 /\ c.to_exit = Count[u] - Cardinality(Out(u))
    <3>1. Cardinality(Out(u)) = 0
      BY <1>5, FS_EmptySet
    <3>2. b.remaining = 0 /\ b.to_exit = Count[u] - Cardinality(Out(u))
      BY <1>6, <1>7, <1>10, <3>1
    <3>3. c.remaining = b.remaining /\ c.to_exit = b.to_exit /\ c.complete /\ c \in Node
      <4> HIDE DEF b
      <4> QED
        BY <1>7 DEF Node
    <3> QED
      BY <3>2, <3>3
  <2>4. Notified(u) \in [Threads -> {"run", "asleep", "woken"}] /\ (Notified(u))[t] = "run"
    BY <1>1 DEF Notified, IInv, Types
  <2>5. \A x \in Threads : (Notified(u))[x] = "run" <=> pc[x] = "run"
    BY DEF Notified, IInv, Types
  <2>6. \A x \in Threads : pc[x] # "run" =>
          (Notified(u))[x] = (IF Current(x) = u THEN "woken" ELSE pc[x])
    BY DEF Notified, IInv, Types
  <2>7. DOMAIN barriers' \subseteq Uuids /\ pc' = Notified(u) /\ (\A v \in Uuids : NodeExact(v)') /\ Waiting'
    <3> HIDE DEF c, b
    <3> QED
      BY <1>2, <1>8, <1>10, <2>1, <2>2, <2>3, <2>4, <2>5, <2>6, LeaveInv
  <2>8. Types'
    <3>1. started' \in [Threads -> Nat]
      BY <1>1 DEF IInv, Types
    <3>2. done' \in [Threads -> Nat]
      BY <2>1 DEF IInv, Types
    <3> QED
      BY <2>4, <2>7, <3>1, <3>2 DEF Types
  <2>9. Progress'
    BY <1>1, <1>3, <2>1, <2>5, <2>7, ScriptTypes DEF IInv, Types, Progress
  <2> QED
    BY <2>7, <2>8, <2>9 DEF IInv
<1> QED
  BY <1>9, <1>10

\* A woken thread leaves the barrier it waited at.
LEMMA ResumeInv ==
  ASSUME FreshUuids, IInv, NEW t \in Threads, Resume(t)
  PROVE  IInv'
<1>0. PICK u : u = Current(t)
  OBVIOUS
<1>1. PICK c : c = barriers[u]
  OBVIOUS
<1>2. PICK p : p = [pc EXCEPT ![t] = "run"]
  OBVIOUS
<1>3. /\ pc[t] = "woken" /\ c.complete /\ Leave(u, c, p)
      /\ done' = [done EXCEPT ![t] = @ + 1] /\ started' = started
  BY <1>0, <1>1, <1>2 DEF Resume
<1>4. /\ u \in Uuids /\ t \in Group(u) /\ t \in In(u) /\ t \notin Out(u)
      /\ done[t] < Len(Script[t]) /\ u = Script[t][done[t] + 1]
  BY <1>0, <1>3, WaiterInside
<1>5. Out(u)' = Out(u) \cup {t} /\ \A v \in Uuids : v # u => Out(v)' = Out(v)
  BY <1>3, <1>4, LeaveSets DEF IInv
<1>6. \A v \in Uuids : In(v)' = In(v)
  BY <1>3 DEF In, Group
<1>7. u \in DOMAIN barriers /\ NodeExact(u)
  BY <1>0, <1>3, <1>4 DEF IInv, Waiting
<1>8. In(u) = Group(u) /\ c \in Node /\ c.to_exit = Count[u] - Cardinality(Out(u))
      /\ c.remaining = Count[u] - Cardinality(In(u))
  BY <1>1, <1>3, <1>7 DEF NodeExact
<1>9. c.remaining = 0
  <2>1. Cardinality(Group(u)) = Count[u] /\ Count[u] \in Nat
    BY <1>4, RecvBarrierAssumption DEF FreshUuids
  <2> QED
    BY <1>8, <2>1
<1>10. p \in [Threads -> {"run", "asleep", "woken"}] /\ p[t] = "run"
       /\ \A x \in Threads : x # t => p[x] = pc[x]
  BY <1>2 DEF IInv, Types
<1>11. \A x \in Threads : Current(x)' = Current(x)
  BY <1>3 DEF Current
<1>12. \A x \in Threads : x # t /\ p[x] # "run" => p[x] = (IF Current(x) = u THEN "woken" ELSE pc[x])
  BY <1>1, <1>3, <1>10 DEF IInv, Waiting
<1>13. DOMAIN barriers' \subseteq Uuids /\ pc' = p /\ (\A v \in Uuids : NodeExact(v)') /\ Waiting'
  <2>1. In(u)' = Group(u) /\ \A v \in Uuids : v # u => In(v)' = In(v) /\ Out(v)' = Out(v)
    BY <1>4, <1>5, <1>6, <1>8
  <2>2. \A x \in Threads : x # t => (p[x] = "run" <=> pc[x] = "run")
    BY <1>10
  <2>3. \A x \in Threads : x # t /\ p[x] # "run" =>
          p[x] = (IF Current(x) = u THEN "woken" ELSE pc[x]) /\ Current(x)' = Current(x)
    BY <1>11, <1>12
  <2>4. /\ c \in Node /\ c.complete /\ c.remaining = 0 /\ c.to_exit = Count[u] - Cardinality(Out(u))
        /\ t \in Group(u) /\ t \notin Out(u) /\ Out(u)' = Out(u) \cup {t}
        /\ p \in [Threads -> {"run", "asleep", "woken"}] /\ p[t] = "run"
    BY <1>3, <1>4, <1>5, <1>8, <1>9, <1>10
  <2>5. Leave(u, c, p) /\ u \in Uuids
    BY <1>3, <1>4
  <2> QED
    BY <2>1, <2>2, <2>3, <2>4, <2>5, LeaveInv
<1>14. Types'
  <2>1. done' \in [Threads -> Nat]
    BY <1>3 DEF IInv, Types
  <2> QED
    BY <1>3, <1>10, <1>13, <2>1 DEF IInv, Types
<1>15. Progress'
  BY <1>3, <1>10, <1>13 DEF IInv, Types, Progress
<1> QED
  BY <1>13, <1>14, <1>15 DEF IInv

\* The invariant holds when nobody has come to a barrier.
LEMMA InitInv ==
  ASSUME FreshUuids, Init
  PROVE  IInv
<1>1. Types
  BY DEF Init, Types
<1>2. Progress
  BY ScriptTypes DEF Init, Progress
<1>3. \A t \in Threads, u \in Uuids : ~Has(t, u, 0)
  BY DEF Has
<1>4. \A u \in Uuids : In(u) = {} /\ Out(u) = {}
  BY <1>3 DEF Init, In, Out, Group
<1>5. \A u \in Uuids : NodeExact(u)
  BY <1>4 DEF Init, NodeExact
<1>6. Waiting
  BY DEF Init, Waiting
<1> QED
  BY <1>1, <1>2, <1>5, <1>6 DEF IInv

\* An arrival and a resumption keep it.
LEMMA NextInv ==
  ASSUME FreshUuids, IInv, [Next]_vars
  PROVE  IInv'
<1>1. CASE \E t \in Threads : recv_barrier(t)
  BY <1>1, ArriveInv
<1>2. CASE \E t \in Threads : Resume(t)
  BY <1>2, ResumeInv
<1>3. CASE UNCHANGED vars
  <2>1. \A u \in Uuids : In(u)' = In(u) /\ Out(u)' = Out(u) /\ Group(u)' = Group(u)
    BY <1>3 DEF vars, In, Out, Group
  <2>2. \A u \in Uuids : NodeExact(u)'
    BY <1>3, <2>1 DEF vars, IInv, NodeExact
  <2> QED
    BY <1>3, <2>2 DEF vars, IInv, Types, Progress, Waiting, Current
<1> QED
  BY <1>1, <1>2, <1>3 DEF Next, Finished

\* The numbers in the nodes fit into their bytes.
LEMMA InvTypeOK ==
  ASSUME FreshUuids, IInv
  PROVE  TypeOK
<1>1. ASSUME NEW u \in DOMAIN barriers PROVE barriers[u] \in BarrierState
  <2>1. u \in Uuids /\ NodeExact(u)
    BY DEF IInv, Types
  <2>2. In(u) \in SUBSET Group(u) /\ Out(u) \in SUBSET Group(u)
    BY DEF In, Out
  <2>3. /\ Cardinality(In(u)) \in 0..Count[u] /\ Cardinality(Out(u)) \in 0..Count[u]
        /\ Count[u] \in Nat /\ Count[u] < Wrap /\ Wrap \in Nat
    BY <2>1, <2>2, GroupCard, RecvBarrierAssumption
  <2>4. /\ barriers[u] \in Node
        /\ barriers[u].remaining = Count[u] - Cardinality(In(u))
        /\ barriers[u].to_exit = Count[u] - Cardinality(Out(u))
    BY <2>1 DEF NodeExact
  <2>5. barriers[u].remaining \in 0..Wrap-1 /\ barriers[u].to_exit \in 0..Wrap-1
    BY <2>3, <2>4
  <2> QED
    BY <2>4, <2>5 DEF Node, BarrierState
<1> QED
  BY <1>1 DEF IInv, Types, TypeOK

\* It says that nobody has left a barrier that somebody has yet to reach.
LEMMA InvSync ==
  ASSUME FreshUuids, IInv
  PROVE  BarrierSync
<1> SUFFICES ASSUME NEW u \in Uuids, NEW t \in Group(u), NEW x \in Group(u)
             PROVE  Occurrences(t, u, done[t]) <= Occurrences(x, u, started[x])
  BY DEF BarrierSync
<1>1. t \in Threads /\ x \in Threads
  BY DEF Group
<1>2. done[t] \in Nat /\ done[t] <= Len(Script[t]) /\ started[x] \in Nat /\ started[x] <= Len(Script[x])
  BY <1>1, ScriptTypes DEF IInv, Types, Progress
<1>3. Has(t, u, done[t]) => Has(x, u, started[x])
  BY DEF IInv, NodeExact, In, Out
<1>4. /\ Occurrences(t, u, done[t]) = (IF Has(t, u, done[t]) THEN 1 ELSE 0)
      /\ Occurrences(x, u, started[x]) = (IF Has(x, u, started[x]) THEN 1 ELSE 0)
  BY <1>1, <1>2, OccursOnce
<1> QED
  BY <1>3, <1>4

\* It says that a barrier which all have left has no node.
LEMMA InvNoNodeLeft ==
  ASSUME FreshUuids, IInv
  PROVE  NoNodeLeft
<1> SUFFICES ASSUME NEW u \in Uuids, u \in DOMAIN barriers,
                    \A t \in Group(u) : Occurrences(t, u, started[t]) = Occurrences(t, u, done[t])
             PROVE  FALSE
  BY DEF NoNodeLeft
<1>1. ASSUME NEW t \in Group(u) PROVE t \in In(u) <=> t \in Out(u)
  <2>1. t \in Threads
    BY DEF Group
  <2>2. /\ done[t] \in Nat /\ done[t] <= Len(Script[t])
        /\ started[t] \in Nat /\ started[t] <= Len(Script[t])
    BY <2>1, ScriptTypes DEF IInv, Types, Progress
  <2>3. /\ Occurrences(t, u, done[t]) = (IF Has(t, u, done[t]) THEN 1 ELSE 0)
        /\ Occurrences(t, u, started[t]) = (IF Has(t, u, started[t]) THEN 1 ELSE 0)
    BY <2>1, <2>2, OccursOnce
  <2>4. Has(t, u, started[t]) <=> Has(t, u, done[t])
    BY <2>3
  <2> QED
    BY <2>4 DEF In, Out
<1>2. In(u) # {} /\ Out(u) # Group(u) /\ (Out(u) # {} => In(u) = Group(u))
  BY DEF IInv, NodeExact
<1>3. In(u) \subseteq Group(u) /\ Out(u) \subseteq Group(u)
  BY DEF In, Out
<1> QED
  BY <1>1, <1>2, <1>3

-----------------------------------------------------------------------------
(* The theorems. *)

\* The inductive invariant holds in every reachable state.
LEMMA InvHolds ==
  ASSUME FreshUuids
  PROVE  Spec => []IInv
<1>1. Init => IInv
  BY InitInv
<1>2. IInv /\ [Next]_vars => IInv'
  BY NextInv
<1> QED
  BY <1>1, <1>2, PTL DEF Spec

\* For any clients whose UUIDs are fresh, the node of a barrier is in
\* _recv_barriers for everybody who needs it and for nobody else, its
\* counters never wrap, and none is left behind (SocketManager.cc:376-401).
THEOREM NodesLiveRight ==
  ASSUME FreshUuids
  PROVE  Spec => []NodeLifetime
<1>1. IInv => NodeLifetime
  BY InvTypeOK, InvNoNodeLeft DEF IInv, Types, NodeLifetime, NodeOutlivesWaiters
<1> QED
  BY <1>1, InvHolds, PTL

\* For any clients whose UUIDs are fresh, recv_barrier() returns on a socket
\* only after every socket of the group has called it (SocketManager.cc:370).
THEOREM NobodyPassesEarly ==
  ASSUME FreshUuids
  PROVE  Spec => []BarrierSync
<1>1. IInv => BarrierSync
  BY InvSync
<1> QED
  BY <1>1, InvHolds, PTL
-----------------------------------------------------------------------------
(* recv_barrier() implements Rendezvous. *)

Came == [u \in Uuids |-> In(u)]
Gone == [u \in Uuids |-> Out(u)]
Groups == [u \in Uuids |-> Group(u)]

\* An arrival changes one meeting.
LEMMA JoinOne ==
  ASSUME NEW u \in Uuids, NEW t, In(u)' = In(u) \cup {t},
         \A v \in Uuids : v # u => In(v)' = In(v)
  PROVE  Came' = [Came EXCEPT ![u] = @ \cup {t}]
  BY DEF Came

\* So does a departure.
LEMMA LeaveOne ==
  ASSUME NEW u \in Uuids, NEW t, Out(u)' = Out(u) \cup {t},
         \A v \in Uuids : v # u => Out(v)' = Out(v)
  PROVE  Gone' = [Gone EXCEPT ![u] = @ \cup {t}]
  BY DEF Gone

\* A thread that runs has left every barrier it has come to.
LEMMA RunningIsOutside ==
  ASSUME IInv, NEW t \in Threads, pc[t] = "run", NEW v \in Uuids, t \in In(v)
  PROVE  t \in Out(v)
  BY DEF IInv, Progress, In, Out

\* The number that is left in the node tells whether t is the last to come.
LEMMA LastIsLast ==
  ASSUME FreshUuids, IInv, NEW t \in Threads, recv_barrier(t),
         NEW u, u = Script[t][started[t] + 1]
  PROVE  /\ ~Arrived(u).complete
         /\ Arrived(u).remaining = 0 <=> In(u) \cup {t} = Group(u)
<1>1. pc[t] = "run" /\ started[t] < Len(Script[t]) /\ started' = [started EXCEPT ![t] = @ + 1]
  BY DEF recv_barrier
<1>2. u \in Uuids /\ t \in Group(u) /\ t \notin In(u)
  BY <1>1, ArriveSets DEF IInv
<1>3. NodeExact(u) /\ In(u) \subseteq Group(u)
  BY <1>2 DEF IInv, In
<1>4. Out(u) = {} /\ In(u) # Group(u)
  BY <1>2, <1>3 DEF NodeExact
<1>5. /\ Count[u] \in Nat /\ Count[u] < Wrap /\ Wrap \in Nat
      /\ Cardinality(In(u)) \in Nat /\ Cardinality(In(u)) < Count[u]
      /\ Cardinality(In(u)) + 1 = Count[u] <=> In(u) \cup {t} = Group(u)
      /\ In(u) = {} => Cardinality(In(u)) = 0
  <2>1. \A S \in SUBSET Group(u) :
          /\ Cardinality(S) \in 0..Count[u] /\ Count[u] \in Nat /\ Count[u] < Wrap
          /\ Cardinality(S) = Count[u] <=> S = Group(u)
          /\ Cardinality(S) = 0 <=> S = {}
          /\ \A x \in Group(u) : x \notin S => Cardinality(S \cup {x}) = Cardinality(S) + 1
    BY <1>2, GroupCard
  <2>2. In(u) \in SUBSET Group(u) /\ In(u) \cup {t} \in SUBSET Group(u)
    BY <1>2, <1>3
  <2>3. Cardinality(In(u) \cup {t}) = Cardinality(In(u)) + 1
    BY <1>2, <2>1, <2>2
  <2>4. Cardinality(In(u)) \in 0..Count[u] /\ Cardinality(In(u)) # Count[u] /\ Count[u] \in Nat
    BY <1>4, <2>1, <2>2
  <2>5. Cardinality(In(u) \cup {t}) = Count[u] <=> In(u) \cup {t} = Group(u)
    BY <2>1, <2>2
  <2>6. Count[u] < Wrap /\ Wrap \in Nat /\ (In(u) = {} => Cardinality(In(u)) = 0)
    BY <2>1, <2>2, RecvBarrierAssumption
  <2> QED
    BY <2>3, <2>4, <2>5, <2>6
<1>6. CASE u \notin DOMAIN barriers
  <2>1. Cardinality(In(u)) = 0 /\ Byte(Count[u]) = Count[u] /\ Dec(Count[u]) = Count[u] - 1
    BY <1>2, <1>3, <1>4, <1>5, <1>6, ByteExact DEF NodeExact
  <2> QED
    BY <1>5, <1>6, <2>1 DEF Arrived
<1>7. CASE u \in DOMAIN barriers
  <2>1. /\ barriers[u] \in Node /\ ~barriers[u].complete
        /\ barriers[u].remaining = Count[u] - Cardinality(In(u))
    BY <1>3, <1>4, <1>7 DEF NodeExact
  <2>2. Dec(barriers[u].remaining) = Count[u] - Cardinality(In(u)) - 1
    <3>1. barriers[u].remaining \in Nat /\ barriers[u].remaining > 0 /\ barriers[u].remaining < Wrap
      BY <1>5, <2>1
    <3> QED
      BY <2>1, <3>1, ByteExact
  <2>3. Arrived(u) = [barriers[u] EXCEPT !.remaining = Dec(barriers[u].remaining)]
    BY <1>7 DEF Arrived
  <2> QED
    BY <1>5, <2>1, <2>2, <2>3 DEF Node
<1> QED
  BY <1>6, <1>7

\* recv_barrier(), up to the wait or to its end, is one step of the meeting.
LEMMA ArriveRefines ==
  ASSUME FreshUuids, IInv, NEW t \in Threads, recv_barrier(t)
  PROVE  Abstract!Next
<1>0. PICK u : u = Script[t][started[t] + 1]
  OBVIOUS
<1>1. pc[t] = "run" /\ started[t] < Len(Script[t]) /\ started' = [started EXCEPT ![t] = @ + 1]
  BY DEF recv_barrier
<1>2. /\ u \in Uuids /\ t \in Group(u) /\ t \notin In(u) /\ In(u)' = In(u) \cup {t}
      /\ \A v \in Uuids : v # u => In(v)' = In(v)
  BY <1>0, <1>1, ArriveSets DEF IInv
<1>3. done[t] = started[t] /\ done[t] < Len(Script[t]) /\ u = Script[t][done[t] + 1]
  BY <1>0, <1>1 DEF IInv, Progress
<1>4. Came' = [Came EXCEPT ![u] = @ \cup {t}]
  BY <1>2, JoinOne
<1>5. Came[u] = In(u) /\ Groups[u] = Group(u)
  BY <1>2 DEF Came, Groups
<1>6. t \in Groups[u] \ Came[u] /\ \A v \in Uuids : t \in Came[v] => t \in Gone[v]
  BY <1>1, <1>2, <1>5, RunningIsOutside DEF Came, Gone
<1>7. Abstract!Expected(t, u)
  BY <1>6 DEF Abstract!Expected, Came, Gone, Groups
<1>8. /\ ~Arrived(u).complete
      /\ Arrived(u).remaining = 0 <=> In(u) \cup {t} = Group(u)
  BY <1>0, LastIsLast
<1>9. CASE In(u) \cup {t} = Group(u)
  <2>1. done' = [done EXCEPT ![t] = @ + 1]
    BY <1>0, <1>8, <1>9 DEF recv_barrier
  <2>2. Out(u)' = Out(u) \cup {t} /\ \A v \in Uuids : v # u => Out(v)' = Out(v)
    BY <1>3, <2>1, LeaveSets DEF IInv
  <2>3. Gone' = [Gone EXCEPT ![u] = @ \cup {t}]
    BY <1>2, <2>2, LeaveOne
  <2>4. Came[u] \cup {t} = Groups[u]
    BY <1>5, <1>9
  <2>5. Abstract!Complete(t, u)
    BY <1>4, <1>7, <2>3, <2>4 DEF Abstract!Complete, Came, Gone, Groups
  <2> QED
    BY <1>2, <2>5 DEF Abstract!Next
<1>10. CASE In(u) \cup {t} # Group(u)
  <2>1. done' = done
    BY <1>0, <1>8, <1>10 DEF recv_barrier
  <2>2. Gone' = Gone
    BY <2>1 DEF Gone, Out, Group, Has
  <2>3. Came[u] \cup {t} # Groups[u]
    BY <1>5, <1>10
  <2>4. Abstract!Come(t, u)
    BY <1>4, <1>7, <2>2, <2>3 DEF Abstract!Come, Came, Gone, Groups
  <2> QED
    BY <1>2, <2>4 DEF Abstract!Next
<1> QED
  BY <1>9, <1>10

\* So is the rest of it, for a thread that was woken.
LEMMA ResumeRefines ==
  ASSUME FreshUuids, IInv, NEW t \in Threads, Resume(t)
  PROVE  Abstract!Next
<1>0. PICK u : u = Current(t)
  OBVIOUS
<1>1. /\ pc[t] = "woken" /\ barriers[u].complete
      /\ done' = [done EXCEPT ![t] = @ + 1] /\ started' = started
  BY <1>0 DEF Resume
<1>2. /\ u \in Uuids /\ t \in In(u) /\ t \notin Out(u)
      /\ done[t] < Len(Script[t]) /\ u = Script[t][done[t] + 1]
  BY <1>0, <1>1, WaiterInside
<1>3. Out(u)' = Out(u) \cup {t} /\ \A v \in Uuids : v # u => Out(v)' = Out(v)
  BY <1>1, <1>2, LeaveSets DEF IInv
<1>4. Gone' = [Gone EXCEPT ![u] = @ \cup {t}]
  BY <1>2, <1>3, LeaveOne
<1>5. Came' = Came
  BY <1>1 DEF Came, In, Group, Has
<1>6. u \in DOMAIN barriers /\ NodeExact(u)
  BY <1>0, <1>1, <1>2 DEF IInv, Waiting
<1>7. In(u) = Group(u)
  BY <1>1, <1>6 DEF NodeExact
<1>8. Came[u] = Groups[u] /\ t \in Came[u] \ Gone[u]
  BY <1>2, <1>7 DEF Came, Gone, Groups
<1>9. Abstract!Go(t, u)
  BY <1>4, <1>5, <1>8 DEF Abstract!Go, Came, Gone, Groups
<1> QED
  BY <1>2, <1>9 DEF Abstract!Next

\* For any clients whose UUIDs are fresh, recv_barrier() is a meeting of the
\* sockets of the group: each comes once, the last to come passes at once, the
\* others pass one by one after it (SocketManager.cc:374-402).
THEOREM BarrierIsARendezvous ==
  ASSUME FreshUuids
  PROVE  Spec => ImplementsRendezvous
<1>1. Init => Abstract!Init
  <2> SUFFICES ASSUME Init PROVE Abstract!Init
    OBVIOUS
  <2>1. \A t \in Threads, u \in Uuids : ~Has(t, u, 0)
    BY DEF Has
  <2>2. \A u \in Uuids : In(u) = {} /\ Out(u) = {}
    BY <2>1 DEF Init, In, Out, Group
  <2> QED
    BY <2>2 DEF Abstract!Init
<1>2. ASSUME IInv, [Next]_vars PROVE [Abstract!Next]_(Abstract!vars)
  <2>1. CASE \E t \in Threads : recv_barrier(t)
    BY <1>2, <2>1, ArriveRefines
  <2>2. CASE \E t \in Threads : Resume(t)
    BY <1>2, <2>2, ResumeRefines
  <2>3. CASE UNCHANGED vars
    <3>1. Came' = Came /\ Gone' = Gone
      BY <2>3 DEF vars, Came, Gone, In, Out, Group, Has
    <3> QED
      BY <3>1 DEF Abstract!vars, Came, Gone
  <2> QED
    BY <1>2, <2>1, <2>2, <2>3 DEF Next, Finished
<1> QED
  BY <1>1, <1>2, InvHolds, PTL DEF Spec, Abstract!Spec, ImplementsRendezvous

=============================================================================
