----------------------------- MODULE Rendezvous -----------------------------
(***************************************************************************)
(* What recv_barrier() promises to clients, with no map of nodes, no byte  *)
(* counters and no condition variable.  The sockets of a group come to a   *)
(* meeting, each once; the last one to come waits for nobody, the others   *)
(* go one by one after it has come.  A socket is at one meeting at a time. *)
(***************************************************************************)
CONSTANTS Threads,   \* sockets, one eval thread each
          Uuids,     \* meetings
          Groups     \* [Uuids -> SUBSET Threads]: who takes part

VARIABLES came, gone   \* [Uuids -> SUBSET Threads]

vars == <<came, gone>>

Init ==
  /\ came = [u \in Uuids |-> {}]
  /\ gone = [u \in Uuids |-> {}]

\* t is expected at u and is at no other meeting.
Expected(t, u) ==
  /\ t \in Groups[u] \ came[u]
  /\ \A v \in Uuids : t \in came[v] => t \in gone[v]

\* t comes, and is not the last.
Come(t, u) ==
  /\ Expected(t, u)
  /\ came[u] \cup {t} # Groups[u]
  /\ came' = [came EXCEPT ![u] = @ \cup {t}]
  /\ UNCHANGED gone

\* t is the last to come and goes on at once.
Complete(t, u) ==
  /\ Expected(t, u)
  /\ came[u] \cup {t} = Groups[u]
  /\ came' = [came EXCEPT ![u] = @ \cup {t}]
  /\ gone' = [gone EXCEPT ![u] = @ \cup {t}]

\* All have come, and t goes.
Go(t, u) ==
  /\ t \in came[u] \ gone[u]
  /\ came[u] = Groups[u]
  /\ gone' = [gone EXCEPT ![u] = @ \cup {t}]
  /\ UNCHANGED came

Next == \E t \in Threads, u \in Uuids : Come(t, u) \/ Complete(t, u) \/ Go(t, u)

Spec == Init /\ [][Next]_vars
=============================================================================
