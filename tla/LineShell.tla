----------------------------- MODULE LineShell -----------------------------
(***************************************************************************)
(* What a shell promises its user, with no threads, no queue and no flags. *)
(* Lines are numbered in the order the client sends them.  They are        *)
(* evaluated one at a time, always the oldest that waits; an interrupt     *)
(* throws lines away, the oldest first; the answer that is sent is that of *)
(* an evaluated line and newer than all that were sent before.  The shell  *)
(* is closed when nothing is left to do.                                   *)
(***************************************************************************)
EXTENDS Naturals, Sequences

CONSTANT LineNumbers

VARIABLES
  waiting,     \* lines accepted and not yet begun
  running,     \* the line being evaluated, if any
  evaluated,   \* lines evaluated, in order
  discarded,   \* lines thrown away
  answered,    \* lines whose answer was sent, in order
  repeats,     \* the evaluator may hand out its last answer again
  closed

vars == <<waiting, running, evaluated, discarded, answered, repeats, closed>>

Init ==
  /\ waiting = {} /\ running = {} /\ discarded = {}
  /\ evaluated = <<>> /\ answered = <<>>
  /\ repeats \in BOOLEAN
  /\ closed = FALSE

Oldest(i) == i \in waiting /\ \A j \in waiting : i <= j

\* A line is accepted after all those before it.
Accept(i) ==
  /\ ~closed
  /\ \A j \in waiting \cup running \cup discarded : j < i
  /\ \A k \in DOMAIN evaluated : evaluated[k] < i
  /\ waiting' = waiting \cup {i}
  /\ UNCHANGED <<running, evaluated, discarded, answered, repeats, closed>>

\* The evaluator is free and gets the oldest line.
Start(i) ==
  /\ ~closed /\ running = {} /\ Oldest(i)
  /\ waiting' = waiting \ {i}
  /\ running' = {i}
  /\ UNCHANGED <<evaluated, discarded, answered, repeats, closed>>

\* The evaluation ends, with an answer, without one or with an exception.
Finish(i) ==
  /\ ~closed /\ running = {i}
  /\ running' = {}
  /\ evaluated' = Append(evaluated, i)
  /\ UNCHANGED <<waiting, discarded, answered, repeats, closed>>

\* An interrupt throws the oldest line away.
Discard(i) ==
  /\ ~closed /\ Oldest(i)
  /\ waiting' = waiting \ {i}
  /\ discarded' = discarded \cup {i}
  /\ UNCHANGED <<running, evaluated, answered, repeats, closed>>

\* An answer is sent.
Answer(i) ==
  /\ ~closed
  /\ \E k \in DOMAIN evaluated : evaluated[k] = i
  /\ \A k \in DOMAIN answered : answered[k] < i \/ (repeats /\ answered[k] = i)
  /\ answered' = Append(answered, i)
  /\ UNCHANGED <<waiting, running, evaluated, discarded, repeats, closed>>

\* The end of the shell.
Close ==
  /\ ~closed /\ waiting = {} /\ running = {}
  /\ closed' = TRUE
  /\ UNCHANGED <<waiting, running, evaluated, discarded, answered, repeats>>

Next ==
  \/ \E i \in LineNumbers : Accept(i) \/ Start(i) \/ Finish(i) \/ Discard(i) \/ Answer(i)
  \/ Close

Spec == Init /\ [][Next]_vars
=============================================================================
