--------------------------- MODULE GlobalBarrier ---------------------------
(***************************************************************************)
(* SocketManager::global_barrier() and what it synchronises: for every     *)
(* console socket, the handler thread that enqueues the lines it reads     *)
(* (GenericShell::enqueue_work) and the eval thread that pops and runs     *)
(* them (GenericShell::eval_loop).                                         *)
(*                                                                         *)
(* Script[s] is what the client of socket s sends, by the kind of command: *)
(* "work", "bar" (cog-global-barrier), or "sync" (cog-barrier, among the   *)
(* sockets that send one).  The work queue is FIFO, so it is given by how  *)
(* many commands were pushed and how many popped.                          *)
(***************************************************************************)
EXTENDS Naturals, Sequences, FiniteSets

CONSTANTS Socks,    \* console sockets, each with a shell
          Script,   \* [Socks -> Seq({"work", "bar", "sync"})]
          None

ASSUME GlobalBarrierAssumption ==
  /\ Script \in [Socks -> Seq({"work", "bar", "sync"})]
  /\ None \notin Socks

VARIABLES
  hpc,         \* handler thread: "read", "test", "blocked", "push"
  sent,        \* lines the handler thread has read
  pushed,      \* commands pushed onto evalque ...
  popped,      \* ... popped from it ...
  evaluated,   \* ... and evaluated
  evalDone,    \* GenericShell::_eval_done
  epc,         \* eval thread
  inBarrier,   \* ServerSocket::_in_barrier
  active,      \* SocketManager::_global_barrier_active
  sockLock,    \* holder of SocketManager::_sock_lock
  checked,     \* sockets the lock holder's scan has found idle or skipped
  skipped,     \* history: sockets each barrier's last scan skipped
  before,      \* history: what was pushed when each barrier became active
  exposed      \* history: barriers since whose start the flag was cleared

hvars == <<hpc, sent, pushed>>
evars == <<popped, evaluated, evalDone, epc>>
bvars == <<inBarrier, active, sockLock, checked>>
history == <<skipped, before, exposed>>
vars == <<hvars, evars, bvars, history>>

EvalPCs == {"loop", "popped", "eval", "mark", "activate", "pass", "scan",
            "unmark", "lastout", "release", "sync"}

TypeOK ==
  /\ hpc \in [Socks -> {"read", "test", "blocked", "push"}]
  /\ sent \in [Socks -> Nat]
  /\ pushed \in [Socks -> Nat]
  /\ popped \in [Socks -> Nat]
  /\ evaluated \in [Socks -> Nat]
  /\ evalDone \in [Socks -> BOOLEAN]
  /\ epc \in [Socks -> EvalPCs]
  /\ inBarrier \in [Socks -> BOOLEAN]
  /\ active \in BOOLEAN
  /\ sockLock \in Socks \cup {None}
  /\ checked \subseteq Socks
  /\ skipped \in [Socks -> SUBSET Socks]
  /\ before \in [Socks -> [Socks -> Nat]]
  /\ exposed \subseteq Socks
  /\ \A s \in Socks : evaluated[s] <= popped[s] /\ popped[s] <= pushed[s]
                        /\ pushed[s] <= sent[s] /\ sent[s] <= Len(Script[s])

Init ==
  /\ hpc = [s \in Socks |-> "read"]
  /\ sent = [s \in Socks |-> 0]
  /\ pushed = [s \in Socks |-> 0]
  /\ popped = [s \in Socks |-> 0]
  /\ evaluated = [s \in Socks |-> 0]
  /\ evalDone = [s \in Socks |-> TRUE]
  /\ epc = [s \in Socks |-> "loop"]
  /\ inBarrier = [s \in Socks |-> FALSE]
  /\ active = FALSE
  /\ sockLock = None
  /\ checked = {}
  /\ skipped = [s \in Socks |-> {}]
  /\ before = [s \in Socks |-> [x \in Socks |-> 0]]
  /\ exposed = {}

\* GenericShell::queued()
Queued(s) == pushed[s] - popped[s]

\* Mutant: the shell is busy only while it evaluates.
busyShell_EvalOnly(s) == ~evalDone[s]

\* ConsoleSocket::busyShell()
busyShell(s) == Queued(s) > 0 \/ ~evalDone[s]

\* The command the eval thread of s is running.
Command(s) == Script[s][popped[s]]

-----------------------------------------------------------------------------
(* Handler thread. *)

\* A line is read; GenericShell::eval() goes on to enqueue_work().
ReadLine(s) ==
  /\ hpc[s] = "read"
  /\ sent[s] < Len(Script[s])
  /\ sent' = [sent EXCEPT ![s] = @ + 1]
  /\ hpc' = [hpc EXCEPT ![s] = "test"]
  /\ UNCHANGED <<pushed, evars, bvars, history>>

\* Mutant: nobody waits for the end of a barrier.
block_on_bar_NoWait(s) ==
  /\ hpc[s] = "test"
  /\ hpc' = [hpc EXCEPT ![s] = "push"]
  /\ UNCHANGED <<sent, pushed, evars, bvars, history>>

\* block_on_bar(): wait on _global_barrier_cv while a barrier is active.
block_on_bar(s) ==
  /\ hpc[s] = "test"
  /\ hpc' = [hpc EXCEPT ![s] = IF active THEN "blocked" ELSE "push"]
  /\ UNCHANGED <<sent, pushed, evars, bvars, history>>

\* evalque.push(), with no lock that block_on_bar() held.
Push(s) ==
  /\ hpc[s] = "push"
  /\ pushed' = [pushed EXCEPT ![s] = @ + 1]
  /\ hpc' = [hpc EXCEPT ![s] = "read"]
  /\ UNCHANGED <<sent, evars, bvars, history>>

-----------------------------------------------------------------------------
(* Eval thread. *)

EvalFrame == UNCHANGED <<hvars, bvars, history>>

\* while_not_done(), then evalque.pop().
Pop(s) ==
  /\ epc[s] = "loop"
  /\ evalDone[s]
  /\ Queued(s) > 0
  /\ popped' = [popped EXCEPT ![s] = @ + 1]
  /\ epc' = [epc EXCEPT ![s] = "popped"]
  /\ UNCHANGED <<evaluated, evalDone>> /\ EvalFrame

start_eval(s) ==
  /\ epc[s] = "popped"
  /\ evalDone' = [evalDone EXCEPT ![s] = FALSE]
  /\ epc' = [epc EXCEPT ![s] = "eval"]
  /\ UNCHANGED <<popped, evaluated>> /\ EvalFrame

\* eval_expr() of an ordinary command runs to its end.
EvalWork(s) ==
  /\ epc[s] = "eval"
  /\ Command(s) = "work"
  /\ evaluated' = [evaluated EXCEPT ![s] = @ + 1]
  /\ epc' = [epc EXCEPT ![s] = "loop"]
  /\ UNCHANGED <<popped, evalDone>> /\ EvalFrame

\* The poll thread finds the evaluator done: finish_eval().
finish_eval(s) ==
  /\ epc[s] = "loop"
  /\ ~evalDone[s]
  /\ evalDone' = [evalDone EXCEPT ![s] = TRUE]
  /\ UNCHANGED <<popped, evaluated, epc>> /\ EvalFrame

\* The sockets that take part in the k-th cog-barrier.
SyncGroup(k) ==
  {x \in Socks : Cardinality({i \in DOMAIN Script[x] : Script[x][i] = "sync"}) >= k}

\* How many cog-barrier commands the eval thread of s has reached.
SyncsReached(s) ==
  Cardinality({i \in 1..popped[s] : Script[s][i] = "sync"
                                      /\ (i < popped[s] \/ epc[s] \notin {"popped", "eval"})})

\* recv_barrier(): arrive ...
recv_barrier(s) ==
  /\ epc[s] = "eval"
  /\ Command(s) = "sync"
  /\ epc' = [epc EXCEPT ![s] = "sync"]
  /\ UNCHANGED <<popped, evaluated, evalDone>> /\ EvalFrame

\* ... and return once the whole group has arrived.
LeaveSync(s) ==
  /\ epc[s] = "sync"
  /\ \A x \in SyncGroup(SyncsReached(s)) : SyncsReached(x) >= SyncsReached(s)
  /\ evaluated' = [evaluated EXCEPT ![s] = @ + 1]
  /\ epc' = [epc EXCEPT ![s] = "loop"]
  /\ UNCHANGED <<popped, evalDone>> /\ EvalFrame

-----------------------------------------------------------------------------
(* global_barrier(), on the eval thread of s. *)

BarrierFrame == UNCHANGED <<hvars, popped, evaluated, evalDone>>

\* Find our own socket, under _sock_lock.
FindSelf(s) ==
  /\ epc[s] = "eval"
  /\ Command(s) = "bar"
  /\ sockLock = None
  /\ epc' = [epc EXCEPT ![s] = "mark"]
  /\ UNCHANGED <<bvars, history>> /\ BarrierFrame

\* our_socket->_in_barrier = true, under no lock.
Mark(s) ==
  /\ epc[s] = "mark"
  /\ inBarrier' = [inBarrier EXCEPT ![s] = TRUE]
  /\ epc' = [epc EXCEPT ![s] = "activate"]
  /\ UNCHANGED <<active, sockLock, checked, history>> /\ BarrierFrame

\* _global_barrier_active = true.
Activate(s) ==
  /\ epc[s] = "activate"
  /\ active' = TRUE
  /\ before' = [before EXCEPT ![s] = pushed]
  /\ exposed' = exposed \ {s}
  /\ epc' = [epc EXCEPT ![s] = "pass"]
  /\ UNCHANGED <<inBarrier, sockLock, checked, skipped>> /\ BarrierFrame

\* One pass over _sock_list, under _sock_lock.
BeginPass(s) ==
  /\ epc[s] = "pass"
  /\ sockLock = None
  /\ sockLock' = s
  /\ checked' = {}
  /\ skipped' = [skipped EXCEPT ![s] = {}]
  /\ epc' = [epc EXCEPT ![s] = "scan"]
  /\ UNCHANGED <<inBarrier, active, before, exposed>> /\ BarrierFrame

\* Mutant: a socket in a barrier counts as busy, which it is.
SkipSock_OnlySelf(s, x) ==
  /\ epc[s] = "scan"
  /\ x \notin checked
  /\ x = s \/ inBarrier[x]
  /\ checked' = IF x = s THEN checked \cup {x} ELSE checked
  /\ sockLock' = IF x = s THEN s ELSE None
  /\ epc' = [epc EXCEPT ![s] = IF x = s THEN "scan" ELSE "pass"]
  /\ UNCHANGED <<inBarrier, active, history>> /\ BarrierFrame

\* Ourselves, or a socket that is in a barrier too: skipped.
SkipSock(s, x) ==
  /\ epc[s] = "scan"
  /\ x \notin checked
  /\ x = s \/ inBarrier[x]
  /\ checked' = checked \cup {x}
  /\ skipped' = [skipped EXCEPT ![s] = @ \cup {x}]
  /\ UNCHANGED <<epc, inBarrier, active, sockLock, before, exposed>> /\ BarrierFrame

\* A socket whose shell is idle.
IdleSock(s, x) ==
  /\ epc[s] = "scan"
  /\ x \notin checked /\ x # s
  /\ ~inBarrier[x] /\ ~busyShell(x)
  /\ checked' = checked \cup {x}
  /\ UNCHANGED <<epc, inBarrier, active, sockLock, history>> /\ BarrierFrame

\* A socket whose shell is busy: unlock, sleep, and scan again.
BusySock(s, x) ==
  /\ epc[s] = "scan"
  /\ x \notin checked /\ x # s
  /\ ~inBarrier[x] /\ busyShell(x)
  /\ sockLock' = None
  /\ epc' = [epc EXCEPT ![s] = "pass"]
  /\ UNCHANGED <<inBarrier, active, checked, history>> /\ BarrierFrame

\* all_idle: the loop is left.
EndPass(s) ==
  /\ epc[s] = "scan"
  /\ checked = Socks
  /\ sockLock' = None
  /\ epc' = [epc EXCEPT ![s] = "unmark"]
  /\ UNCHANGED <<inBarrier, active, checked, history>> /\ BarrierFrame

\* Mutant: the flag is left set.
Unmark_Forgotten(s) ==
  /\ epc[s] = "unmark"
  /\ epc' = [epc EXCEPT ![s] = "lastout"]
  /\ UNCHANGED <<bvars, history>> /\ BarrierFrame

\* our_socket->_in_barrier = false, under no lock.
Unmark(s) ==
  /\ epc[s] = "unmark"
  /\ inBarrier' = [inBarrier EXCEPT ![s] = FALSE]
  /\ epc' = [epc EXCEPT ![s] = "lastout"]
  /\ UNCHANGED <<active, sockLock, checked, history>> /\ BarrierFrame

\* Under _sock_lock: return if somebody else is in a barrier ...
NotLast(s) ==
  /\ epc[s] = "lastout"
  /\ sockLock = None
  /\ \E x \in Socks : inBarrier[x]
  /\ epc' = [epc EXCEPT ![s] = "loop"]
  /\ evaluated' = [evaluated EXCEPT ![s] = @ + 1]
  /\ UNCHANGED <<hvars, popped, evalDone, bvars, history>>

\* ... and otherwise go on, still holding _sock_lock ...
LastOut(s) ==
  /\ epc[s] = "lastout"
  /\ sockLock = None
  /\ \A x \in Socks : ~inBarrier[x]
  /\ sockLock' = s
  /\ epc' = [epc EXCEPT ![s] = "release"]
  /\ UNCHANGED <<inBarrier, active, checked, history>> /\ BarrierFrame

\* ... to clear _global_barrier_active and notify_all().
ReleaseBarrier(s) ==
  /\ epc[s] = "release"
  /\ active' = FALSE
  /\ hpc' = [x \in Socks |-> IF hpc[x] = "blocked" THEN "test" ELSE hpc[x]]
  /\ sockLock' = None
  /\ epc' = [epc EXCEPT ![s] = "loop"]
  /\ evaluated' = [evaluated EXCEPT ![s] = @ + 1]
  /\ exposed' = Socks
  /\ UNCHANGED <<sent, pushed, popped, evalDone, inBarrier, checked, skipped, before>>

-----------------------------------------------------------------------------
HandlerStep(s) == ReadLine(s) \/ block_on_bar(s) \/ Push(s)

EvalStep(s) ==
  \/ Pop(s) \/ start_eval(s) \/ EvalWork(s)
  \/ recv_barrier(s) \/ LeaveSync(s)
  \/ FindSelf(s) \/ Mark(s) \/ Activate(s)
  \/ BeginPass(s) \/ EndPass(s)
  \/ \E x \in Socks : SkipSock(s, x) \/ IdleSock(s, x) \/ BusySock(s, x)
  \/ Unmark(s) \/ NotLast(s) \/ LastOut(s) \/ ReleaseBarrier(s)

AllDone ==
  \A s \in Socks : evaluated[s] = Len(Script[s]) /\ evalDone[s]

Terminated == AllDone /\ UNCHANGED vars

Next ==
  \/ \E s \in Socks : HandlerStep(s) \/ EvalStep(s) \/ finish_eval(s)
  \/ Terminated

Spec == Init /\ [][Next]_vars

\* Every thread of every socket is scheduled, a mutex that is released over
\* and over is obtained some day (SF), and evaluations end.
FairSpec ==
  Spec /\ \A s \in Socks :
    WF_vars(HandlerStep(s)) /\ SF_vars(EvalStep(s)) /\ WF_vars(finish_eval(s))

-----------------------------------------------------------------------------
(* Properties. *)

PastScan(s) == epc[s] \in {"unmark", "lastout", "release"}

\* What a barrier does guarantee: whatever was queued in another shell when
\* the barrier became active has left that shell's queue when the barrier
\* is over, unless the shell was itself in a barrier.
QueuesDrained ==
  \A s \in Socks : PastScan(s) =>
    \A x \in Socks \ skipped[s] : before[s][x] <= popped[x]

\* The flag that holds work back never outlives the barriers, whichever of
\* them leaves last and however marking, activating and leaving interleave:
\* while it is set some barrier is under way that will clear it, and no
\* handler thread sleeps on a flag that is clear.
HeldOnlyByBarrier ==
  /\ active => \E s \in Socks : epc[s] \in {"activate", "pass", "scan", "unmark",
                                            "lastout", "release"}
  /\ \A s \in Socks : hpc[s] = "blocked" => active

\* However marking, activating and leaving interleave, the state of the
\* barrier makes sense and work is held back for a barrier only
\* (SocketManager.cc:305-366).
HoldInv == TypeOK /\ HeldOnlyByBarrier

\* "Shell sockets will not be able to enqueue new work" (SocketManager.h:97),
\* as far as the code keeps it: until the flag is cleared, by this barrier or by
\* another, each shell gets at most the one line that its handler thread had in
\* hand, past block_on_bar(), when the barrier became active.
HeldBack ==
  \A s \in Socks : epc[s] \in {"pass", "scan", "unmark", "lastout", "release"}
                     /\ s \notin exposed
    => active /\ \A x \in Socks : pushed[x] <= before[s][x] + 1

\* The global barrier of s waits for x to be idle, x waits in a cog-barrier for y,
\* and y cannot come: its lines are held back, or it is in a global barrier too.
Crossed(s, x, y) ==
  /\ epc[s] \in {"pass", "scan"}
  /\ epc[x] = "sync" /\ y \in SyncGroup(SyncsReached(x)) /\ SyncsReached(y) < SyncsReached(x)
  /\ hpc[y] = "blocked" \/ epc[y] \in {"pass", "scan"}

\* "There might be multiple concurrent bars. Avoid deadlock."
\* (SocketManager.cc:336): every command of every client is evaluated, however
\* global barriers overlap each other, cog-barriers and work.  One deadlock is not
\* avoided: a global barrier of any client that becomes active when some sockets
\* of a group are at their cog-barrier, and the line of another is held back (or
\* comes after a global barrier of its own).
EverythingRuns == <>[]AllDone \/ <>[](\E s, x, y \in Socks : Crossed(s, x, y))
=============================================================================
