---------------------------- MODULE RecvBarrier ----------------------------
(***************************************************************************)
(* SocketManager::recv_barrier(): the UUID barrier of clients that hold    *)
(* several sockets.  A client sends (cog-barrier N "uuid") on all N of its *)
(* sockets; each command runs on the eval thread of its socket and returns *)
(* when all N have arrived.                                                *)
(*                                                                         *)
(* What the clients send is a parameter: Script[t] is the sequence of      *)
(* UUIDs of the barrier commands that eval thread t runs, Count[u] the     *)
(* number N the client writes next to UUID u.  A UUID stands for the key   *)
(* the command handler extracts from the message.                          *)
(***************************************************************************)
EXTENDS Naturals, Sequences, FiniteSets

CONSTANTS Threads,   \* eval threads, one per socket
          Uuids,
          Script,    \* [Threads -> Seq(Uuids)]
          Count,     \* [Uuids -> Nat]: the N of (cog-barrier N "uuid")
          Wrap       \* 2^8 in the code: remaining and to_exit are uint8_t

ASSUME RecvBarrierAssumption ==
  /\ Script \in [Threads -> Seq(Uuids)]
  /\ Count \in [Uuids -> Nat]
  /\ Wrap \in Nat \ {0}

VARIABLES
  barriers,   \* _recv_barriers: a function from the UUIDs in the map
  pc,         \* "run", "asleep" on the node's cv, "woken", or "dangling"
  started,    \* how many barrier commands each thread has begun
  done        \* how many it has returned from

vars == <<barriers, pc, started, done>>

BarrierState == [remaining : 0..Wrap-1, to_exit : 0..Wrap-1, complete : BOOLEAN]

TypeOK ==
  /\ DOMAIN barriers \subseteq Uuids
  /\ \A u \in DOMAIN barriers : barriers[u] \in BarrierState
  /\ pc \in [Threads -> {"run", "asleep", "woken", "dangling"}]
  /\ started \in [Threads -> Nat]
  /\ done \in [Threads -> Nat]

Init ==
  /\ barriers = [u \in {} |-> 0]
  /\ pc = [t \in Threads |-> "run"]
  /\ started = [t \in Threads |-> 0]
  /\ done = [t \in Threads |-> 0]

\* The UUID of the command that thread t is in.
Current(t) == Script[t][started[t]]

\* uint8_t arithmetic.
Byte(n) == n % Wrap
Dec(n) == (n + Wrap - 1) % Wrap

\* The map with the node of u set to b.
SetNode(u, b) == [v \in DOMAIN barriers \cup {u} |-> IF v = u THEN b ELSE barriers[v]]

\* Mutant: the first arrival expects n more.
Arrived_OffByOne(u) ==
  IF u \notin DOMAIN barriers
  THEN [remaining |-> Byte(Count[u]), to_exit |-> Byte(Count[u]), complete |-> FALSE]
  ELSE [barriers[u] EXCEPT !.remaining = Dec(@)]

\* The node after one more arrival, before the test for completion.
Arrived(u) ==
  IF u \notin DOMAIN barriers
  THEN [remaining |-> Dec(Byte(Count[u])), to_exit |-> Byte(Count[u]), complete |-> FALSE]
  ELSE [barriers[u] EXCEPT !.remaining = Dec(@)]

\* Mutant: the node is removed by the first to leave.
Leave_First(u, b, p) ==
  /\ barriers' = [v \in DOMAIN barriers \ {u} |-> barriers[v]]
  /\ pc' = [x \in Threads |-> IF p[x] \in {"asleep", "woken"} /\ Current(x) = u
                               THEN "dangling" ELSE p[x]]

\* "Everyone exits; last one cleans up": b is the node on leaving, p what
\* the other threads do.  Erasing the node leaves any thread that still
\* waits on it with an iterator, a condition variable and a flag that are gone.
Leave(u, b, p) ==
  LET toExit == Dec(b.to_exit) IN
  IF toExit = 0
  THEN /\ barriers' = [v \in DOMAIN barriers \ {u} |-> barriers[v]]
       /\ pc' = [x \in Threads |-> IF p[x] \in {"asleep", "woken"} /\ Current(x) = u
                                    THEN "dangling" ELSE p[x]]
  ELSE /\ barriers' = SetNode(u, [b EXCEPT !.to_exit = toExit])
       /\ pc' = p

\* cv.notify_all() on the node of u.
Notified(u) ==
  [x \in Threads |-> IF pc[x] = "asleep" /\ Current(x) = u THEN "woken" ELSE pc[x]]

\* The next barrier command of t: recv_barrier() up to the wait, or to its
\* end if the barrier is complete.  The mutex is held all along.
recv_barrier(t) ==
  /\ pc[t] = "run"
  /\ started[t] < Len(Script[t])
  /\ started' = [started EXCEPT ![t] = @ + 1]
  /\ LET u == Script[t][started[t] + 1]
         b == Arrived(u)
         last == b.remaining = 0 /\ ~b.complete
     IN  IF last \/ b.complete
         THEN /\ Leave(u, [b EXCEPT !.complete = TRUE], IF last THEN Notified(u) ELSE pc)
              /\ done' = [done EXCEPT ![t] = @ + 1]
         ELSE /\ barriers' = SetNode(u, b)
              /\ pc' = [pc EXCEPT ![t] = "asleep"]
              /\ UNCHANGED done

\* Mutant: the wait is not in a loop, and a spurious wakeup leaves.
Resume_NoLoop(t) ==
  /\ pc[t] \in {"asleep", "woken"}
  /\ Leave(Current(t), barriers[Current(t)], [pc EXCEPT ![t] = "run"])
  /\ done' = [done EXCEPT ![t] = @ + 1]
  /\ UNCHANGED started

\* A woken thread gets the mutex back, sees the barrier complete and leaves.
Resume(t) ==
  /\ pc[t] = "woken"
  /\ barriers[Current(t)].complete
  /\ Leave(Current(t), barriers[Current(t)], [pc EXCEPT ![t] = "run"])
  /\ done' = [done EXCEPT ![t] = @ + 1]
  /\ UNCHANGED started

\* All commands were run.
Finished ==
  /\ \A t \in Threads : pc[t] = "run" /\ started[t] = Len(Script[t])
  /\ UNCHANGED vars

Next == (\E t \in Threads : recv_barrier(t) \/ Resume(t)) \/ Finished

Spec == Init /\ [][Next]_vars

\* Every eval thread is scheduled and runs the commands it was sent.
FairSpec == Spec /\ \A t \in Threads : WF_vars(recv_barrier(t) \/ Resume(t))

-----------------------------------------------------------------------------
\* How often u occurs among the first n commands of t.
Occurrences(t, u, n) == Cardinality({i \in 1..n : Script[t][i] = u})

Group(u) == {t \in Threads : \E i \in 1..Len(Script[t]) : Script[t][i] = u}

\* What "(cog-barrier N "uuid") on all N of its sockets" (SocketManager.h:109)
\* asks of a client: a UUID names one barrier, N is the number of sockets
\* that send it, and fits into a byte.
FreshUuids ==
  /\ \A t \in Threads : \A i, j \in 1..Len(Script[t]) : Script[t][i] = Script[t][j] => i = j
  /\ \A u \in Uuids : /\ IsFiniteSet(Group(u)) /\ Count[u] = Cardinality(Group(u))
                      /\ Count[u] < Wrap

\* "Blocks until all N sockets with the same UUID have called this, then
\* returns" (SocketManager.cc:370-371): nobody is past its k-th barrier with
\* UUID u before every socket of the group is at its k-th.
BarrierSync ==
  \A u \in Uuids : \A t \in Group(u), x \in Group(u) :
    Occurrences(t, u, done[t]) <= Occurrences(x, u, started[x])

\* "Everyone exits; last one cleans up" (SocketManager.cc:396): the node is
\* never erased while a thread waits on it.
NodeOutlivesWaiters == \A t \in Threads : pc[t] # "dangling"

\* A UUID is in the map just while some socket of its group has arrived and
\* some has not left: no barrier leaves a node behind.
NoNodeLeft ==
  \A u \in Uuids :
    (\A t \in Group(u) : Occurrences(t, u, started[t]) = Occurrences(t, u, done[t]))
      /\ (\A t, x \in Group(u) : started[t] = started[x])
    => u \notin DOMAIN barriers

\* The life of a node, from the first arrival to the last departure: it is
\* there for everybody who needs it, and for nobody else
\* (SocketManager.cc:376-401).
NodeLifetime == TypeOK /\ NodeOutlivesWaiters /\ NoNodeLeft

\* The socket t has u among its first n commands.
Has(t, u, n) == \E i \in 1..n : Script[t][i] = u

\* The sockets of the group that have arrived at barrier u, and those that
\* have left it.
In(u) == {t \in Group(u) : Has(t, u, started[t])}
Out(u) == {t \in Group(u) : Has(t, u, done[t])}

Abstract == INSTANCE Rendezvous WITH
  Groups <- [u \in Uuids |-> Group(u)],
  came <- [u \in Uuids |-> In(u)],
  gone <- [u \in Uuids |-> Out(u)]

\* The map of nodes, the byte counters and the condition variables make a
\* barrier: each socket comes once, the last one passes without waiting and
\* sets the others free, and none of them goes before that
\* (SocketManager.cc:373-401).
ImplementsRendezvous == Abstract!Spec

\* If every socket of the group sends the command, every one of them returns.
AllReturn == <>[](\A t \in Threads : done[t] = Len(Script[t]))
=============================================================================
