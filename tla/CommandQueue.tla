---------------------------- MODULE CommandQueue ----------------------------
(***************************************************************************)
(* What the request queue promises, with no threads, no mutex and no use   *)
(* counts: the commands of all consoles form one queue and are executed    *)
(* one at a time, in the order of the queue, each exactly once between     *)
(* being taken from it and being given up.  When serverLoop() returns      *)
(* there are none left, and none comes later.                              *)
(***************************************************************************)
EXTENDS Naturals, Sequences

CONSTANT Requests    \* <<console, line, kind>>

VARIABLES
  queue,
  executing,   \* the request that was taken from the queue, if any
  executed,    \* requests executed, in order
  returned     \* serverLoop() has returned

vars == <<queue, executing, executed, returned>>

Init ==
  /\ queue = <<>> /\ executed = <<>>
  /\ executing = {}
  /\ returned = FALSE

\* The console of r and s, if it is the same, has sent r first.
SentBefore(r, s) == r[1] = s[1] => r[2] < s[2]

\* A console adds its next request to the queue.
Submit(r) ==
  /\ ~returned
  /\ \A q \in executing : SentBefore(q, r)
  /\ \A i \in DOMAIN queue : SentBefore(queue[i], r)
  /\ \A i \in DOMAIN executed : SentBefore(executed[i], r)
  /\ queue' = Append(queue, r)
  /\ UNCHANGED <<executing, executed, returned>>

\* The first request is taken, while no other is being executed.
Begin ==
  /\ ~returned
  /\ executing = {} /\ queue # <<>>
  /\ executing' = {Head(queue)}
  /\ queue' = Tail(queue)
  /\ UNCHANGED <<executed, returned>>

WasExecuted(r) == executed # <<>> /\ executed[Len(executed)] = r

Execute(r) ==
  /\ ~returned
  /\ executing = {r} /\ ~WasExecuted(r)
  /\ executed' = Append(executed, r)
  /\ UNCHANGED <<queue, executing, returned>>

\* The request is deleted.
Retire(r) ==
  /\ ~returned
  /\ executing = {r} /\ WasExecuted(r)
  /\ executing' = {}
  /\ UNCHANGED <<queue, executed, returned>>

Return ==
  /\ ~returned
  /\ executing = {} /\ queue = <<>>
  /\ returned' = TRUE
  /\ UNCHANGED <<queue, executing, executed>>

Next ==
  \/ \E r \in Requests : Submit(r) \/ Execute(r) \/ Retire(r)
  \/ Begin \/ Return

Spec == Init /\ [][Next]_vars
=============================================================================
