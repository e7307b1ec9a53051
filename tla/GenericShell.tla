---------------------------- MODULE GenericShell ----------------------------
(***************************************************************************)
(* One GenericShell and its three threads: the handler thread H of the     *)
(* console (eval(), line_discipline(), user_interrupt() and the            *)
(* destructor), the evaluation thread E (eval_loop()) and the polling      *)
(* thread P (poll_loop()).  H queues lines, E evaluates them one after     *)
(* another, P takes the answers from the evaluator and sends them.         *)
(*                                                                         *)
(* The evaluator is an object of another class, of one of three kinds.     *)
(* "wait": poll_result() waits for the running evaluation to end, as       *)
(* poll_output() expects (the evaluators of the AtomSpace).  "mcp": it     *)
(* never waits (McpEval).  "top": it returns the display of TopShell again *)
(* and again, until the handler thread halts it (TopEval).                 *)
(* The barrier that enqueue_work() may have to wait for is in              *)
(* GlobalBarrier; prompts and formatting are left out.                     *)
(***************************************************************************)
EXTENDS Naturals, Sequences

CONSTANT Sessions    \* <<the client's lines, the kind of evaluator>>

\* "expr": a line to evaluate; "bad": one with a syntax error, for which
\* eval_expr() throws a RuntimeException or, in McpEval, returns an error
\* message; "telnet": an option negotiation that is answered at once;
\* "intr": ctrl-C; "dot": ctrl-D or a single period, leaves the shell.
Kinds == {"expr", "bad", "telnet", "intr", "dot"}
Evaluators == {"wait", "mcp", "top"}

ASSUME GenericShellAssumption == Sessions \subseteq Seq(Kinds) \X Evaluators

VARIABLES
  script,        \* the lines the client sends before it disconnects
  kind,          \* the kind of evaluator
  lines,         \* lines of it that H has read
  hpc,           \* H
  epc,           \* E
  in,            \* E: the line popped from the queue
  draining,      \* E: the do-loop is over
  ppc,           \* P
  poll,          \* where P and E are in poll_and_send()
  got,           \* the answer each of them took from the evaluator
  queue,         \* evalque; 0 stands for the empty string
  canceled,      \* its cancellation flag
  initDone,      \* _init_done
  selfDestruct,  \* self_destruct
  evalDone,      \* _eval_done
  pollLock,      \* P holds _poll_mtx
  pending,       \* is there any _pending_output?
  hasShell,      \* ConsoleSocket::_shell is this shell
  busy,          \* evaluator: between begin_eval() and the end of eval_expr()
  ready,         \* evaluator: an answer waits for poll_result()
  answer,        \* evaluator: the line whose answer it holds
  halted,        \* TopEval::_done
  evaluated,     \* history: lines evaluated, in order
  discarded,     \* history: lines thrown away by an interrupt
  delivered,     \* history: lines whose answer was sent, in order
  crashed        \* std::terminate() was called

hvars == <<script, kind, lines, hpc>>
evars == <<epc, in, draining>>
pvars == <<ppc, initDone, pollLock>>
polls == <<poll, got>>
qvars == <<queue, canceled>>
flags == <<selfDestruct, evalDone>>
evaluator == <<busy, ready, answer, halted>>
hist == <<evaluated, discarded, delivered>>
vars == <<hvars, evars, pvars, polls, qvars, flags, pending, hasShell,
          evaluator, hist, crashed>>

Lines == 1..Len(script)
Work(i) == script[i] \in {"expr", "bad"}
Members(s) == {s[k] : k \in DOMAIN s}

HandlerPCs == {"read", "spawn", "cmd", "line", "quit", "junk", "interrupt", "abort",
               "finish", "cancel", "after", "dtor", "push", "join", "deleted"}
EvalPCs == {"none", "init", "await", "wake", "pop", "wake2", "start", "begin",
            "eval", "wake3", "test", "reset", "joinPoll", "drain", "drainPoll",
            "drainPop", "final", "unset", "exited"}
PollPCs == {"none", "init", "lock", "loop", "first", "second", "wait", "last", "exited"}

TypeOK ==
  /\ <<script, kind>> \in Sessions
  /\ lines \in 0..Len(script)
  /\ hpc \in HandlerPCs
  /\ epc \in EvalPCs /\ in \in 0..Len(script) /\ draining \in BOOLEAN
  /\ ppc \in PollPCs
  /\ poll \in [{"E", "P"} -> {"idle", "pending", "result", "send", "done", "finish"}]
  /\ got \in [{"E", "P"} -> 0..Len(script)]
  /\ queue \in Seq(0..Len(script))
  /\ canceled \in BOOLEAN /\ initDone \in BOOLEAN
  /\ selfDestruct \in BOOLEAN /\ evalDone \in BOOLEAN
  /\ pollLock \in BOOLEAN /\ pending \in BOOLEAN /\ hasShell \in BOOLEAN
  /\ busy \in BOOLEAN /\ ready \in BOOLEAN /\ answer \in 0..Len(script)
  /\ halted \in BOOLEAN
  /\ evaluated \in Seq(Lines) /\ delivered \in Seq(Lines)
  /\ discarded \subseteq Lines
  /\ crashed \in BOOLEAN

\* The constructor and set_socket(): no thread runs yet.
Init ==
  /\ \E s \in Sessions : script = s[1] /\ kind = s[2]
  /\ lines = 0 /\ hpc = "read"
  /\ epc = "none" /\ in = 0 /\ draining = FALSE
  /\ ppc = "none"
  /\ poll = [t \in {"E", "P"} |-> "idle"] /\ got = [t \in {"E", "P"} |-> 0]
  /\ queue = <<>> /\ canceled = FALSE
  /\ initDone = FALSE /\ selfDestruct = FALSE /\ evalDone = TRUE
  /\ pollLock = FALSE /\ pending = FALSE /\ hasShell = TRUE
  /\ busy = FALSE /\ ready = FALSE /\ answer = 0 /\ halted = FALSE
  /\ evaluated = <<>> /\ discarded = {} /\ delivered = <<>>
  /\ crashed = FALSE

-----------------------------------------------------------------------------
(* poll_and_send(), run by t: P, or E once P has been joined. *)

PollFrame ==
  UNCHANGED <<hvars, evars, pvars, qvars, selfDestruct, hasShell, busy, answer,
              halted, evaluated, discarded, crashed>>

GoPoll(t, p) == poll' = [poll EXCEPT ![t] = p]

\* poll_output(): pending output is returned before anything else.
PollPending(t) ==
  /\ poll[t] = "pending"
  /\ GoPoll(t, IF pending THEN "idle" ELSE "result")
  /\ pending' = FALSE
  /\ UNCHANGED <<got, evalDone, ready, delivered>> /\ PollFrame

\* _evaluator->poll_result(): an answer is handed out once.
PollResult(t) ==
  /\ poll[t] = "result" /\ kind # "top"
  /\ kind = "wait" => ~busy
  /\ got' = [got EXCEPT ![t] = IF ready THEN answer ELSE 0]
  /\ ready' = FALSE
  /\ GoPoll(t, IF ready THEN "send" ELSE "done")
  /\ UNCHANGED <<pending, evalDone, delivered>> /\ PollFrame

\* TopEval::poll_result(): unless it was halted it waits, for the refresh
\* interval at most, and returns the display, with the message of a command
\* if there is one.
PollDisplay(t) ==
  /\ poll[t] = "result" /\ kind = "top"
  /\ got' = [got EXCEPT ![t] = IF ready /\ ~halted THEN answer ELSE 0]
  /\ ready' = (ready /\ halted)
  /\ GoPoll(t, IF halted THEN "done" ELSE "send")
  /\ UNCHANGED <<pending, evalDone, delivered>> /\ PollFrame

\* The answer, with what became pending meanwhile, goes to the socket.
PollSend(t) ==
  /\ poll[t] = "send"
  /\ delivered' = IF got[t] = 0 THEN delivered ELSE Append(delivered, got[t])
  /\ pending' = FALSE
  /\ GoPoll(t, "idle")
  /\ UNCHANGED <<got, evalDone, ready>> /\ PollFrame

\* No answer, so "the evaluator is done"; unless that is known already ...
PollDone(t) ==
  /\ poll[t] = "done"
  /\ GoPoll(t, IF evalDone THEN "idle" ELSE "finish")
  /\ UNCHANGED <<got, pending, evalDone, ready, delivered>> /\ PollFrame

\* Mutant: the waiting thread is notified, but _eval_done not set.
PollFinish_NoFlag(t) ==
  /\ poll[t] = "finish"
  /\ UNCHANGED evalDone
  /\ GoPoll(t, "idle")
  /\ UNCHANGED <<got, pending, ready, delivered>> /\ PollFrame

\* ... finish_eval() wakes the thread that waits in while_not_done().
PollFinish(t) ==
  /\ poll[t] = "finish"
  /\ evalDone' = TRUE
  /\ GoPoll(t, "idle")
  /\ UNCHANGED <<got, pending, ready, delivered>> /\ PollFrame

Poll(t) ==
  \/ PollPending(t) \/ PollResult(t) \/ PollDisplay(t) \/ PollSend(t)
  \/ PollDone(t) \/ PollFinish(t)

-----------------------------------------------------------------------------
(* The handler thread H. *)

TopFrame == UNCHANGED <<script, kind, in, draining, ppc, pollLock, polls, initDone,
                        busy, answer, evaluated, delivered>>
HFrame == UNCHANGED <<halted, crashed>> /\ TopFrame

\* A step of H that changes its program counter only.
HOnly == UNCHANGED <<lines, epc, qvars, flags, pending, hasShell, ready, discarded>> /\ HFrame

\* TopShell::line_discipline() starts with cmd(), the others with the line.
LinePC == IF kind = "top" THEN "cmd" ELSE "line"

\* The next line arrives: eval().  The first one starts E.
ReadLine ==
  /\ hpc = "read" /\ lines < Len(script)
  /\ lines' = lines + 1
  /\ IF epc = "none"
       THEN epc' = "init" /\ hpc' = "spawn"
       ELSE epc' = epc /\ hpc' = LinePC
  /\ UNCHANGED <<qvars, flags, pending, hasShell, ready, discarded>> /\ HFrame

\* eval() yields until P has set _init_done.
AwaitInit ==
  /\ hpc = "spawn" /\ initDone
  /\ hpc' = LinePC
  /\ HOnly

\* TopEval::cmd(): the display halts, so that the line can be evaluated.
HaltDisplay ==
  /\ hpc = "cmd"
  /\ halted' = TRUE
  /\ hpc' = "line"
  /\ UNCHANGED <<lines, epc, qvars, flags, pending, hasShell, ready, discarded, crashed>>
  /\ TopFrame

\* put_output(), of a string that may be empty (prompts may be hushed, some
\* telnet commands have no answer).
put_output == pending' \in {pending, TRUE}

\* line_discipline() and enqueue_work(): a line to evaluate is queued; a push
\* onto a cancelled queue throws, and the line is dropped.
Enqueue ==
  /\ hpc = "line" /\ Work(lines)
  /\ queue' = IF canceled THEN queue ELSE Append(queue, lines)
  /\ hpc' = "after"
  /\ UNCHANGED <<lines, epc, canceled, flags, pending, hasShell, ready, discarded>> /\ HFrame

\* line_discipline(): the answer to a telnet option goes to the pending output.
AnswerTelnet ==
  /\ hpc = "line" /\ script[lines] = "telnet"
  /\ put_output
  /\ hpc' = "after"
  /\ UNCHANGED <<lines, epc, qvars, flags, hasShell, ready, discarded>> /\ HFrame

\* line_discipline(): a ctrl-C at the end of the line, or the telnet command
\* for it, which is answered first; user_interrupt().
Interrupt ==
  /\ hpc = "line" /\ script[lines] = "intr"
  /\ put_output
  /\ hpc' = IF kind = "top" THEN "quit" ELSE "junk"
  /\ UNCHANGED <<lines, epc, qvars, flags, hasShell, ready, discarded>> /\ HFrame

\* TopShell::user_interrupt(): "just exit the shell".
QuitTop ==
  /\ hpc = "quit"
  /\ selfDestruct' = TRUE
  /\ hpc' = "junk"
  /\ UNCHANGED <<lines, epc, qvars, evalDone, pending, hasShell, ready, discarded>> /\ HFrame

\* user_interrupt(): "Discard all pending, unevaluated junk in the queue".
DiscardJunk ==
  /\ hpc = "junk" /\ queue # <<>>
  /\ queue' = Tail(queue)
  /\ discarded' = discarded \cup ({Head(queue)} \ {0})
  /\ UNCHANGED <<hpc, lines, epc, canceled, flags, pending, hasShell, ready>> /\ HFrame

\* user_interrupt(): the queue is empty.  eval_loop() may have ended by now,
\* and cleared _evaluator ("this is insane and racey").
TestEvaluator ==
  /\ hpc = "junk" /\ queue = <<>>
  /\ hpc' = IF epc = "exited" THEN "after" ELSE "interrupt"
  /\ HOnly

\* user_interrupt(): _evaluator->interrupt(), which makes McpEval hand out the
\* answer it holds again, and halts TopEval.  If eval_loop() ended after the
\* test, it is a null pointer that is used.
InterruptEvaluator ==
  /\ hpc = "interrupt"
  /\ crashed' = (epc = "exited")
  /\ ready' = IF kind = "mcp" THEN answer # 0 ELSE ready
  /\ halted' = (halted \/ kind = "top")
  /\ hpc' = "abort"
  /\ UNCHANGED <<lines, epc, qvars, flags, pending, hasShell, discarded>> /\ TopFrame

\* user_interrupt(): put_output(abort_prompt).
PutAbortPrompt ==
  /\ hpc = "abort"
  /\ put_output
  /\ hpc' = "finish"
  /\ UNCHANGED <<lines, epc, qvars, flags, hasShell, ready, discarded>> /\ HFrame

\* user_interrupt(): finish_eval().
FinishInterrupted ==
  /\ hpc = "finish"
  /\ evalDone' = TRUE
  /\ hpc' = "after"
  /\ UNCHANGED <<lines, epc, qvars, selfDestruct, pending, hasShell, ready, discarded>> /\ HFrame

\* line_discipline(): leave the shell ...
LeaveShell ==
  /\ hpc = "line" /\ script[lines] = "dot"
  /\ selfDestruct' = TRUE
  /\ hpc' = "cancel"
  /\ UNCHANGED <<lines, epc, qvars, evalDone, pending, hasShell, ready, discarded>> /\ HFrame

\* ... by cancelling the queue.
CancelQueue ==
  /\ hpc = "cancel"
  /\ canceled' = TRUE /\ put_output
  /\ hpc' = "after"
  /\ UNCHANGED <<lines, epc, queue, flags, hasShell, ready, discarded>> /\ HFrame

\* The end of eval(): "delete this" if the user leaves the shell.
EndOfEval ==
  /\ hpc = "after"
  /\ hpc' = IF selfDestruct THEN "dtor" ELSE "read"
  /\ HOnly

\* The client is gone: ~ConsoleSocket() deletes the shell, if there is one.
Disconnect ==
  /\ hpc = "read" /\ lines = Len(script)
  /\ hpc' = "dtor"
  /\ HOnly

\* ~GenericShell().
SetSelfDestruct ==
  /\ hpc = "dtor"
  /\ selfDestruct' = TRUE
  /\ hpc' = "push"
  /\ UNCHANGED <<lines, epc, qvars, evalDone, pending, hasShell, ready, discarded>> /\ HFrame

\* ~GenericShell(): the empty string wakes E up.
PushSentinel ==
  /\ hpc = "push"
  /\ queue' = IF canceled THEN queue ELSE Append(queue, 0)
  /\ hpc' = "join"
  /\ UNCHANGED <<lines, epc, canceled, flags, pending, hasShell, ready, discarded>> /\ HFrame

\* Mutant: the destructor does not wait for the eval thread.
JoinEval_NoJoin ==
  /\ hpc = "join"
  /\ hpc' = "deleted"
  /\ HOnly

\* ~GenericShell(): join E, if it was ever started; the shell is gone.
JoinEval ==
  /\ hpc = "join" /\ epc \in {"none", "exited"}
  /\ hpc' = "deleted"
  /\ HOnly

Handle ==
  \/ AwaitInit \/ HaltDisplay \/ Enqueue \/ AnswerTelnet
  \/ Interrupt \/ QuitTop \/ DiscardJunk \/ TestEvaluator \/ InterruptEvaluator \/ PutAbortPrompt \/ FinishInterrupted
  \/ LeaveShell \/ CancelQueue \/ EndOfEval
  \/ SetSelfDestruct \/ PushSentinel \/ JoinEval

-----------------------------------------------------------------------------
(* The evaluation thread E. *)

EFrame == UNCHANGED <<hvars, initDone, got, selfDestruct, pending, discarded, delivered>>

\* A step of E that changes its program counter only.
EOnly == UNCHANGED <<in, draining, ppc, pollLock, poll, qvars, evalDone, hasShell,
                     evaluator, evaluated, crashed>> /\ EFrame

\* eval_loop(): get the evaluator, start P.
StartPoll ==
  /\ epc = "init"
  /\ ppc' = "init"
  /\ epc' = "await"
  /\ UNCHANGED <<in, draining, pollLock, poll, qvars, evalDone, hasShell, evaluator, evaluated, crashed>>
  /\ EFrame

\* Mutant: the loop does not wait for the last expression.
WhileNotDone_NoWait ==
  /\ epc = "await"
  /\ epc' = "wake"
  /\ EOnly

\* while_not_done().
WhileNotDone ==
  /\ epc = "await" /\ evalDone
  /\ epc' = "wake"
  /\ EOnly

\* wake_poll(), in its three places, has to get _poll_mtx.
WakePoll ==
  /\ epc \in {"wake", "wake2", "wake3"} /\ ~pollLock
  /\ epc' = CASE epc = "wake" -> "pop" [] epc = "wake2" -> "start" [] epc = "wake3" -> "test"
  /\ EOnly

\* evalque.pop(): Canceled ends the loop; the empty string is skipped.
Pop ==
  /\ epc = "pop" /\ (canceled \/ queue # <<>>)
  /\ IF canceled
       THEN epc' = "reset" /\ UNCHANGED <<in, queue>>
       ELSE /\ queue' = Tail(queue)
            /\ in' = Head(queue)
            /\ epc' = IF Head(queue) = 0 THEN "test" ELSE "wake2"
  /\ UNCHANGED <<draining, ppc, pollLock, poll, canceled, evalDone, hasShell, evaluator, evaluated, crashed>>
  /\ EFrame

\* start_eval() in the loop and in the drain.
StartEval ==
  /\ epc = "start"
  /\ evalDone' = FALSE
  /\ epc' = "begin"
  /\ UNCHANGED <<in, draining, ppc, pollLock, poll, qvars, hasShell, evaluator, evaluated, crashed>>
  /\ EFrame

\* _evaluator->begin_eval(): an answer not taken so far is forgotten; but
\* TopEval's only lets the display go on.
BeginEval ==
  /\ epc = "begin"
  /\ busy' = TRUE /\ halted' = FALSE
  /\ ready' = (ready /\ kind = "top")
  /\ epc' = "eval"
  /\ UNCHANGED <<in, draining, ppc, pollLock, poll, qvars, evalDone, hasShell, answer, evaluated, crashed>>
  /\ EFrame

\* _evaluator->eval_expr() returns.
EvalExpr ==
  /\ epc = "eval" /\ script[in] = "expr" /\ kind # "top"
  /\ busy' = FALSE /\ ready' = TRUE /\ answer' = in
  /\ evaluated' = Append(evaluated, in)
  /\ epc' = IF draining THEN "drain" ELSE "wake3"
  /\ UNCHANGED <<in, draining, ppc, pollLock, poll, qvars, evalDone, hasShell, halted, crashed>>
  /\ EFrame

\* TopEval::eval_expr() never fails; a command may leave a message for the
\* next display (help, kill, errors) or none (display, the first "foo").
EvalTop ==
  /\ epc = "eval" /\ kind = "top"
  /\ busy' = FALSE
  /\ \/ ready' = TRUE /\ answer' = in
     \/ UNCHANGED <<ready, answer>>
  /\ evaluated' = Append(evaluated, in)
  /\ epc' = IF draining THEN "drain" ELSE "wake3"
  /\ UNCHANGED <<in, draining, ppc, pollLock, poll, qvars, evalDone, hasShell, halted, crashed>>
  /\ EFrame

\* _evaluator->eval_expr() throws.  In the loop the handler sets _eval_done and
\* unlocks _poll_mtx, which E does not hold: glibc just marks it free.  In the
\* drain nothing catches the exception.
EvalThrows ==
  /\ epc = "eval" /\ script[in] = "bad" /\ kind = "wait"
  /\ busy' = FALSE
  /\ evaluated' = Append(evaluated, in)
  /\ IF draining
       THEN crashed' = TRUE /\ UNCHANGED <<epc, evalDone, pollLock>>
       ELSE /\ evalDone' = TRUE /\ pollLock' = FALSE
            /\ epc' = "test"
            /\ UNCHANGED crashed
  /\ UNCHANGED <<in, draining, ppc, poll, qvars, hasShell, ready, answer, halted>>
  /\ EFrame

\* McpEval::eval_expr(): the message for a request that cannot be parsed is
\* stored, but _done is not set.
EvalUnparsed ==
  /\ epc = "eval" /\ script[in] = "bad" /\ kind = "mcp"
  /\ busy' = FALSE /\ answer' = in
  /\ evaluated' = Append(evaluated, in)
  /\ epc' = IF draining THEN "drain" ELSE "wake3"
  /\ UNCHANGED <<in, draining, ppc, pollLock, poll, qvars, evalDone, hasShell, ready, halted, crashed>>
  /\ EFrame

\* while (not self_destruct).
TestSelfDestruct ==
  /\ epc = "test"
  /\ epc' = IF selfDestruct THEN "reset" ELSE "await"
  /\ EOnly

\* After the loop: evalque.cancel_reset().
CancelReset ==
  /\ epc = "reset"
  /\ canceled' = FALSE
  /\ draining' = TRUE
  /\ epc' = "joinPoll"
  /\ UNCHANGED <<in, ppc, pollLock, poll, queue, evalDone, hasShell, evaluator, evaluated, crashed>>
  /\ EFrame

\* "Let the polling thread die first."
JoinPoll ==
  /\ epc = "joinPoll" /\ ppc = "exited"
  /\ epc' = "drain"
  /\ EOnly

\* Mutant: what is left in the queue is dropped.
Drain_Skip ==
  /\ epc = "drain"
  /\ epc' = "final"
  /\ GoPoll("E", "pending")
  /\ UNCHANGED <<in, draining, ppc, pollLock, qvars, evalDone, hasShell, evaluator, evaluated, crashed>>
  /\ EFrame

\* while (0 < evalque.size()), else the polling that ends the thread; both
\* start with poll_and_send().
Drain ==
  /\ epc = "drain"
  /\ epc' = IF queue # <<>> THEN "drainPoll" ELSE "final"
  /\ GoPoll("E", "pending")
  /\ UNCHANGED <<in, draining, ppc, pollLock, qvars, evalDone, hasShell, evaluator, evaluated, crashed>>
  /\ EFrame

\* Poll until _eval_done.
DrainPoll ==
  /\ epc \in {"drainPoll", "final"} /\ poll["E"] = "idle"
  /\ IF evalDone
       THEN /\ epc' = IF epc = "final" THEN "unset" ELSE "drainPop"
            /\ UNCHANGED poll
       ELSE GoPoll("E", "pending") /\ UNCHANGED epc
  /\ UNCHANGED <<in, draining, ppc, pollLock, qvars, evalDone, hasShell, evaluator, evaluated, crashed>>
  /\ EFrame

\* The drain's pop(); a late cancel() is undone.
DrainPop ==
  /\ epc = "drainPop" /\ (canceled \/ queue # <<>>)
  /\ canceled' = FALSE
  /\ IF canceled
       THEN epc' = "drain" /\ UNCHANGED <<in, queue>>
       ELSE /\ queue' = Tail(queue)
            /\ in' = Head(queue)
            /\ epc' = IF Head(queue) = 0 THEN "drain" ELSE "start"
  /\ UNCHANGED <<draining, ppc, pollLock, poll, evalDone, hasShell, evaluator, evaluated, crashed>>
  /\ EFrame

\* socket->SetShell(nullptr), and the thread ends.
UnsetShell ==
  /\ epc = "unset"
  /\ hasShell' = FALSE
  /\ epc' = "exited"
  /\ UNCHANGED <<in, draining, ppc, pollLock, poll, qvars, evalDone, evaluator, evaluated, crashed>>
  /\ EFrame

EvalLoop ==
  \/ StartPoll \/ WhileNotDone \/ WakePoll \/ Pop \/ StartEval \/ BeginEval
  \/ EvalExpr \/ EvalTop \/ EvalThrows \/ EvalUnparsed \/ TestSelfDestruct \/ CancelReset \/ JoinPoll
  \/ Drain \/ DrainPoll \/ DrainPop \/ UnsetShell \/ Poll("E")

-----------------------------------------------------------------------------
(* The polling thread P. *)

PFrame == UNCHANGED <<hvars, evars, got, qvars, flags, pending, hasShell,
                      evaluator, hist, crashed>>

\* poll_loop(): _init_done = true.
InitDone ==
  /\ ppc = "init"
  /\ initDone' = TRUE
  /\ ppc' = "lock"
  /\ UNCHANGED <<pollLock, poll>> /\ PFrame

\* Take _poll_mtx, on entry and when wait_for() returns.
LockPoll ==
  /\ ppc \in {"lock", "wait"} /\ ~pollLock
  /\ pollLock' = TRUE
  /\ ppc' = "loop"
  /\ UNCHANGED <<initDone, poll>> /\ PFrame

\* Mutant: the polls after the loop are left out.
PollLoop_NoLastPoll ==
  /\ ppc = "loop"
  /\ IF selfDestruct
       THEN ppc' = "exited" /\ pollLock' = FALSE
       ELSE ppc' = "first" /\ UNCHANGED pollLock
  /\ IF selfDestruct THEN UNCHANGED poll ELSE GoPoll("P", "pending")
  /\ UNCHANGED initDone /\ PFrame

\* while (not self_destruct): poll, or give the lock up for good.
PollLoop ==
  /\ ppc = "loop"
  /\ IF selfDestruct
       THEN ppc' = "last" /\ pollLock' = FALSE
       ELSE ppc' = "first" /\ UNCHANGED pollLock
  /\ GoPoll("P", "pending")
  /\ UNCHANGED initDone /\ PFrame

\* "That's right, call this twice in a row."
PollAgain ==
  /\ ppc = "first" /\ poll["P"] = "idle"
  /\ ppc' = "second"
  /\ GoPoll("P", "pending")
  /\ UNCHANGED <<pollLock, initDone>> /\ PFrame

\* _poll_cv.wait_for() gives up the lock, for at most 10 ms.
WaitPoll ==
  /\ ppc = "second" /\ poll["P"] = "idle"
  /\ ppc' = "wait"
  /\ pollLock' = FALSE
  /\ UNCHANGED <<initDone, poll>> /\ PFrame

\* The do-while after the loop: poll until _eval_done.
PollLast ==
  /\ ppc = "last" /\ poll["P"] = "idle"
  /\ IF evalDone
       THEN ppc' = "exited" /\ UNCHANGED poll
       ELSE GoPoll("P", "pending") /\ UNCHANGED ppc
  /\ UNCHANGED <<pollLock, initDone>> /\ PFrame

PollThread == InitDone \/ LockPoll \/ PollLoop \/ PollAgain \/ WaitPoll \/ PollLast \/ Poll("P")

-----------------------------------------------------------------------------
(* The specification. *)

Finished == (hpc = "deleted" \/ crashed) /\ UNCHANGED vars

Next ==
  \/ ~crashed /\ (ReadLine \/ Disconnect \/ Handle \/ EvalLoop \/ PollThread)
  \/ Finished

Spec == Init /\ [][Next]_vars

\* Each thread keeps running, wait_for() returns after 10 ms and evaluations
\* end; the client need not send or disconnect.  WakePoll is strongly fair: P
\* gives up the mutex for those 10 ms again and again.
FairSpec ==
  /\ Spec
  /\ WF_vars(~crashed /\ Handle)
  /\ WF_vars(~crashed /\ EvalLoop)
  /\ WF_vars(~crashed /\ PollThread)
  /\ SF_vars(~crashed /\ WakePoll)

-----------------------------------------------------------------------------
(* Properties. *)

\* The assertion at the head of start_eval(), "Bad evaluator flag state!": no
\* expression is started before the last one was found to be finished, however
\* polls, exceptions and interrupts set _eval_done in between.
EvaluatorFlag == epc = "start" => evalDone

\* Expressions run in the order the client sent them, each at most once, also
\* across the change from the eval loop to the drain of the queue.
EvaluatedInOrder ==
  \A j, k \in DOMAIN evaluated : j < k => evaluated[j] < evaluated[k]

\* Answers leave in the order of the expressions, each at most once, although
\* two threads take them from the evaluator: poll_loop() is joined before
\* eval_loop() polls for itself.  (An interrupted McpEval repeats its answer.)
AnswersInOrder ==
  (kind = "mcp" => "intr" \notin Members(script)) =>
  \A j, k \in DOMAIN delivered : j < k => delivered[j] < delivered[k]

\* When the shell is deleted every line that was queued has been evaluated or
\* thrown away by an interrupt: neither a disconnect nor leaving the shell
\* drops work, wherever the eval loop was.
WorkDoneAtExit ==
  hpc = "deleted" =>
    \A i \in 1..lines : Work(i) => i \in Members(evaluated) \cup discarded

\* A console that lives on after the user left the shell has no pointer to the
\* deleted shell, and no thread of that shell is left.
NoDanglingShell ==
  hpc = "deleted" /\ lines > 0 => ~hasShell /\ epc = "exited" /\ ppc = "exited"

\* What ~GenericShell() leaves: the work done, and no thread or pointer
\* (GenericShell.cc:85-107).
CleanExit == TypeOK /\ WorkDoneAtExit /\ NoDanglingShell

\* E has popped a line and not yet evaluated it.
InWork == epc \in {"wake2", "start", "begin", "eval"}

\* What the abstract shell sees: the lines in the queue, the one that E has in
\* work, and whether an interrupt can make the evaluator repeat an answer.
LineNumbers == UNION {DOMAIN s[1] : s \in Sessions}
Waiting == Members(queue) \ {0}
Running == IF InWork /\ ~crashed THEN {in} ELSE {}
MayRepeat == kind = "mcp" /\ "intr" \in Members(script)
Deleted == hpc = "deleted"

Abstract == INSTANCE LineShell WITH
  waiting <- Waiting, running <- Running, answered <- delivered,
  repeats <- MayRepeat, closed <- Deleted

\* The three threads, the queue and the flags are a shell that takes one line
\* after another: no line is lost, evaluated twice or overtaken between the
\* queue, the eval loop and the drain; an interrupt takes only lines that have
\* not begun; even an interrupted McpEval repeats no answer but its last; and
\* the destructor returns only when nothing is left (GenericShell.cc:85-107,
\* 367-766).
ImplementsLineShell == Abstract!Spec

\* TopEval goes on with its display for ever.
Displaying == kind = "top" /\ ~halted

\* The destructor returns: a disconnect or ctrl-D never leaves the handler
\* thread waiting for an eval thread that waits for the polling thread.  The
\* one exception is a display that nobody has halted.
ShellDeleted == selfDestruct ~> (hpc = "deleted" \/ crashed \/ []Displaying)

\* A queued line is not stuck behind a finished one, even if the client sends
\* nothing more, with the same exception: begin_eval() may let the display go
\* on after cmd() has halted it for a line that is still in the queue.
EveryLineRuns ==
  \A i \in LineNumbers :
    (i \in Members(queue)) ~>
      (i \in Members(evaluated) \/ i \in discarded \/ crashed \/ []Displaying)

\* "... eventually causing the evalthr to stay in while_not_done() forever.
\* So let's poll again, one more time, here." (GenericShell.cc:671-675): the
\* destructor returns, for every kind of evaluator.
DestructorReturns == selfDestruct ~> (hpc = "deleted" \/ crashed)
=============================================================================
