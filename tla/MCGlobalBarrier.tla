-------------------------- MODULE MCGlobalBarrier --------------------------
(* Small instances of GlobalBarrier for TLC. *)
EXTENDS GlobalBarrier

CONSTANTS a, b, c

\* A client with two sockets at a cog-barrier, then both at a global barrier, and
\* another client at work that comes to a global barrier of its own, which may meet
\* the first client at either of its barriers or before.
SyncThenBar == [s \in Socks |-> IF s = c THEN <<"work", "bar">> ELSE <<"sync", "bar">>]
=============================================================================
