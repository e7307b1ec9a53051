--------------------------- MODULE MCRecvBarrier ---------------------------
(* Small instances of RecvBarrier for TLC. *)
EXTENDS RecvBarrier

CONSTANTS a1, a2, a3,    \* the sockets of one client
          b1, b2,        \* the sockets of another
          u1, u2, v1, v2

\* Two clients at the same time, each with two barriers and a fresh UUID per barrier.
FreshScript == [t \in Threads |-> IF t \in {a1, a2, a3} THEN <<u1, u2>> ELSE <<v1, v2>>]
FreshCount == [u \in Uuids |-> IF u \in {u1, u2} THEN 3 ELSE 2]

ASSUME FreshInstance == FreshUuids
=============================================================================
