------------------------ MODULE GenericShellProofs ------------------------
(***************************************************************************)
(* A GenericShell for any session of the client and every interleaving of  *)
(* its three threads: no expression starts while _eval_done is false, the  *)
(* expressions run and their answers leave in the order sent, and the      *)
(* destructor leaves neither work nor a thread behind.                     *)
(***************************************************************************)
EXTENDS GenericShell, TLAPS

\* _eval_done stays set from the test in while_not_done(), or in the drain,
\* to the next start_eval().
Flag == epc \in {"wake", "pop", "wake2", "start", "drainPop"} => evalDone

\* The line that H has read and not yet taken to line_discipline()'s end.
Unqueued == hpc \in {"spawn", "cmd", "line"}

DrainPCs == {"joinPoll", "drain", "drainPoll", "drainPop", "final", "unset", "exited"}

\* Who has left what: a shell that is left reads no more lines, and only then
\* does the eval loop end, after the polling loop.
Leaving ==
  /\ selfDestruct => hpc # "read" /\ ~Unqueued
  /\ canceled \/ hpc = "cancel" => selfDestruct
  /\ epc = "reset" \/ draining => selfDestruct
  /\ epc = "none" => lines = 0 /\ ~Unqueued
  /\ Unqueued => lines > 0
  /\ epc \in {"none", "init"} => ppc = "none"
  /\ epc \in DrainPCs => draining
  /\ draining => epc \in DrainPCs \cup {"start", "begin", "eval"}
  /\ draining /\ epc # "joinPoll" => ppc = "exited"
  /\ epc = "exited" => ~hasShell
  /\ poll["E"] # "idle" => epc \in {"drainPoll", "final"}
  /\ poll["P"] # "idle" => ppc \in {"first", "second", "last"}
  /\ hpc = "deleted" => epc \in {"none", "exited"}

\* A line of the queue, which may also hold empty strings.
Queued(i) == i # 0 /\ \E k \in DOMAIN queue : queue[k] = i

\* Lines pass from the handler to the queue, to E and to the evaluator in order.
QueueSorted ==
  \A j, k \in DOMAIN queue : j < k /\ queue[j] # 0 /\ queue[k] # 0 => queue[j] < queue[k]
EvaluatedFirst ==
  \A j \in DOMAIN evaluated, k \in DOMAIN queue : queue[k] # 0 => evaluated[j] < queue[k]
WorkBetween ==
  InWork =>
    /\ in # 0 /\ \A k \in DOMAIN queue : queue[k] # 0 => in < queue[k]
    /\ ~crashed => \A j \in DOMAIN evaluated : evaluated[j] < in
Reached(i) == i <= lines /\ (Unqueued => i < lines)
AllReached ==
  /\ \A k \in DOMAIN queue : queue[k] # 0 => Reached(queue[k])
  /\ \A k \in DOMAIN evaluated : Reached(evaluated[k])
  /\ InWork => Reached(in)
Order == EvaluatedInOrder /\ QueueSorted /\ EvaluatedFirst /\ WorkBetween /\ AllReached

\* No work is lost.
Accounted ==
  /\ \A i \in 1..lines : Work(i) =>
       \/ Queued(i) \/ (InWork /\ in = i) \/ i \in Members(evaluated) \/ i \in discarded
       \/ Unqueued /\ i = lines
  /\ epc \in {"final", "unset", "exited"} => \A k \in DOMAIN queue : queue[k] = 0

\* The evaluator is interrupted by an interrupt only.
Interrupted ==
  hpc \in {"quit", "junk", "interrupt", "abort", "finish"} => "intr" \in Members(script)
NoRepeat == kind = "mcp" => "intr" \notin Members(script)

\* The answers that were sent, the one being sent and the one that waits.
AnswerLines ==
  /\ answer = 0 \/ answer \in Members(evaluated)
  /\ \A t \in {"E", "P"} : got[t] = 0 \/ got[t] \in Members(evaluated)
  /\ Members(delivered) \subseteq Members(evaluated)
  /\ ready => answer # 0
Newer(i) ==
  /\ \A k \in DOMAIN delivered : delivered[k] < i
  /\ \A t \in {"E", "P"} : poll[t] = "send" => got[t] < i
Sending ==
  \A t \in {"E", "P"} : poll[t] = "send" /\ got[t] # 0 =>
    \A k \in DOMAIN delivered : delivered[k] < got[t]
Answers ==
  AnswerLines /\ (NoRepeat => AnswersInOrder /\ Sending /\ (ready => Newer(answer)))

IInv == TypeOK /\ Flag /\ Leaving /\ Order /\ Accounted /\ Interrupted /\ Answers

-----------------------------------------------------------------------------
(* The steps, by thread, and what each thread leaves alone. *)

HandlerMoves == ReadLine \/ Disconnect \/ Handle
EvalMoves ==
  \/ StartPoll \/ WhileNotDone \/ WakePoll \/ Pop \/ StartEval \/ BeginEval
  \/ EvalExpr \/ EvalTop \/ EvalThrows \/ EvalUnparsed \/ TestSelfDestruct \/ CancelReset
  \/ JoinPoll \/ Drain \/ DrainPoll \/ DrainPop \/ UnsetShell
PollMoves == InitDone \/ LockPoll \/ PollLoop \/ PollAgain \/ WaitPoll \/ PollLast
Step == (\E t \in {"E", "P"} : Poll(t)) \/ HandlerMoves \/ EvalMoves \/ PollMoves

\* What each thread leaves alone.
LEMMA Frames ==
  /\ \A t \in {"E", "P"} : Poll(t) => PollFrame
  /\ HandlerMoves => TopFrame
  /\ EvalMoves => EFrame
  /\ PollMoves => PFrame
<1>1. \A t \in {"E", "P"} : Poll(t) => PollFrame
  BY DEF Poll, PollPending, PollResult, PollDisplay, PollSend, PollDone, PollFinish
<1>2. HandlerMoves => TopFrame
  BY DEF HandlerMoves, Handle, ReadLine, Disconnect, AwaitInit, HaltDisplay, Enqueue,
     AnswerTelnet, Interrupt, QuitTop, DiscardJunk, TestEvaluator, InterruptEvaluator,
     PutAbortPrompt, FinishInterrupted, LeaveShell, CancelQueue, EndOfEval,
     SetSelfDestruct, PushSentinel, JoinEval, HOnly, HFrame
<1>3. EvalMoves => EFrame
  BY DEF EvalMoves, StartPoll, WhileNotDone, WakePoll, Pop, StartEval, BeginEval, EvalExpr,
     EvalTop, EvalThrows, EvalUnparsed, TestSelfDestruct, CancelReset, JoinPoll, Drain,
     DrainPoll, DrainPop, UnsetShell, EOnly
<1>4. PollMoves => PFrame
  BY DEF PollMoves, InitDone, LockPoll, PollLoop, PollAgain, WaitPoll, PollLast
<1> QED
  BY <1>1, <1>2, <1>3, <1>4

\* The session and its evaluator.
LEMMA ScriptDomain ==
  ASSUME TypeOK
  PROVE  script \in Seq(Kinds) /\ kind \in Evaluators /\ Len(script) \in Nat /\ DOMAIN script = 1..Len(script)
<1>1. script \in Seq(Kinds) /\ kind \in Evaluators
  BY GenericShellAssumption DEF TypeOK
<1> QED
  BY <1>1

-----------------------------------------------------------------------------
(* The parts of the invariant, one action at a time. *)

\* Only start_eval() of E itself clears _eval_done, and E waits for it to be set.
LEMMA FlagStep ==
  ASSUME IInv, ~crashed, Step
  PROVE  Flag'
<1>1. ASSUME NEW t \in {"E", "P"}, Poll(t) PROVE Flag'
  <2>1. CASE PollPending(t)
    BY <2>1 DEF IInv, TypeOK, Flag, PollPending, PollFrame, GoPoll, hvars, evars, pvars,
       qvars
  <2>2. CASE PollResult(t)
    BY <2>2 DEF IInv, TypeOK, Flag, PollResult, PollFrame, GoPoll, hvars, evars, pvars,
       qvars
  <2>3. CASE PollDisplay(t)
    BY <2>3 DEF IInv, TypeOK, Flag, PollDisplay, PollFrame, GoPoll, hvars, evars, pvars,
       qvars
  <2>4. CASE PollSend(t)
    BY <2>4 DEF IInv, TypeOK, Flag, PollSend, PollFrame, GoPoll, hvars, evars, pvars, qvars
  <2>5. CASE PollDone(t)
    BY <2>5 DEF IInv, TypeOK, Flag, PollDone, PollFrame, GoPoll, hvars, evars, pvars, qvars
  <2>6. CASE PollFinish(t)
    BY <2>6 DEF IInv, TypeOK, Flag, PollFinish, PollFrame, GoPoll, hvars, evars, pvars,
       qvars
  <2> QED
    BY <1>1, <2>1, <2>2, <2>3, <2>4, <2>5, <2>6 DEF Poll
<1>2. ASSUME HandlerMoves PROVE Flag'
  <2>1. CASE ReadLine
    BY <2>1 DEF IInv, TypeOK, Flag, ReadLine, HFrame, LinePC, qvars, flags, TopFrame, polls
  <2>2. CASE Disconnect
    BY <2>2 DEF IInv, TypeOK, Flag, Disconnect, HOnly, HFrame, qvars, flags, TopFrame, polls
  <2>3. CASE AwaitInit
    BY <2>3 DEF IInv, TypeOK, Flag, AwaitInit, HOnly, LinePC, HFrame, qvars, flags,
       TopFrame, polls
  <2>4. CASE HaltDisplay
    BY <2>4 DEF IInv, TypeOK, Flag, HaltDisplay, TopFrame, qvars, flags, polls
  <2>5. CASE Enqueue
    BY <2>5 DEF IInv, TypeOK, Flag, Enqueue, HFrame, flags, TopFrame, polls
  <2>6. CASE AnswerTelnet
    BY <2>6 DEF IInv, TypeOK, Flag, AnswerTelnet, HFrame, put_output, qvars, flags,
       TopFrame, polls
  <2>7. CASE Interrupt
    BY <2>7 DEF IInv, TypeOK, Flag, Interrupt, HFrame, put_output, qvars, flags, TopFrame,
       polls
  <2>8. CASE QuitTop
    BY <2>8 DEF IInv, TypeOK, Flag, QuitTop, HFrame, qvars, TopFrame, polls
  <2>9. CASE DiscardJunk
    BY <2>9 DEF IInv, TypeOK, Flag, DiscardJunk, HFrame, flags, TopFrame, polls
  <2>10. CASE TestEvaluator
    BY <2>10 DEF IInv, TypeOK, Flag, TestEvaluator, HOnly, HFrame, qvars, flags, TopFrame,
       polls
  <2>11. CASE InterruptEvaluator
    BY <2>11 DEF IInv, TypeOK, Flag, InterruptEvaluator, TopFrame, qvars, flags, polls
  <2>12. CASE PutAbortPrompt
    BY <2>12 DEF IInv, TypeOK, Flag, PutAbortPrompt, HFrame, put_output, qvars, flags,
       TopFrame, polls
  <2>13. CASE FinishInterrupted
    BY <2>13 DEF IInv, TypeOK, Flag, FinishInterrupted, HFrame, qvars, TopFrame, polls
  <2>14. CASE LeaveShell
    BY <2>14 DEF IInv, TypeOK, Flag, LeaveShell, HFrame, qvars, TopFrame, polls
  <2>15. CASE CancelQueue
    BY <2>15 DEF IInv, TypeOK, Flag, CancelQueue, HFrame, put_output, flags, TopFrame, polls
  <2>16. CASE EndOfEval
    BY <2>16 DEF IInv, TypeOK, Flag, EndOfEval, HOnly, HFrame, qvars, flags, TopFrame, polls
  <2>17. CASE SetSelfDestruct
    BY <2>17 DEF IInv, TypeOK, Flag, SetSelfDestruct, HFrame, qvars, TopFrame, polls
  <2>18. CASE PushSentinel
    BY <2>18 DEF IInv, TypeOK, Flag, PushSentinel, HFrame, flags, TopFrame, polls
  <2>19. CASE JoinEval
    BY <2>19 DEF IInv, TypeOK, Flag, JoinEval, HOnly, HFrame, qvars, flags, TopFrame, polls
  <2> QED
    BY <1>2, <2>1, <2>2, <2>3, <2>4, <2>5, <2>6, <2>7, <2>8, <2>9, <2>10, <2>11, <2>12,
       <2>13, <2>14, <2>15, <2>16, <2>17, <2>18, <2>19 DEF HandlerMoves, Handle
<1>3. ASSUME EvalMoves PROVE Flag'
  <2>1. CASE StartPoll
    BY <2>1 DEF IInv, TypeOK, Flag, StartPoll, EFrame, qvars, evaluator, hvars
  <2>2. CASE WhileNotDone
    BY <2>2 DEF IInv, TypeOK, Flag, WhileNotDone, EOnly, EFrame, qvars, evaluator, hvars
  <2>3. CASE WakePoll
    BY <2>3 DEF IInv, TypeOK, Flag, WakePoll, EOnly, EFrame, qvars, evaluator, hvars
  <2>4. CASE Pop
    BY <2>4 DEF IInv, TypeOK, Flag, Pop, EFrame, evaluator, hvars
  <2>5. CASE StartEval
    BY <2>5 DEF IInv, TypeOK, Flag, StartEval, EFrame, qvars, evaluator, hvars
  <2>6. CASE BeginEval
    BY <2>6 DEF IInv, TypeOK, Flag, BeginEval, EFrame, qvars, hvars
  <2>7. CASE EvalExpr
    BY <2>7 DEF IInv, TypeOK, Flag, EvalExpr, EFrame, qvars, hvars
  <2>8. CASE EvalTop
    BY <2>8 DEF IInv, TypeOK, Flag, EvalTop, EFrame, qvars, hvars
  <2>9. CASE EvalThrows
    BY <2>9 DEF IInv, TypeOK, Flag, EvalThrows, EFrame, qvars, hvars
  <2>10. CASE EvalUnparsed
    BY <2>10 DEF IInv, TypeOK, Flag, EvalUnparsed, EFrame, qvars, hvars
  <2>11. CASE TestSelfDestruct
    BY <2>11 DEF IInv, TypeOK, Flag, TestSelfDestruct, EOnly, EFrame, qvars, evaluator,
       hvars
  <2>12. CASE CancelReset
    BY <2>12 DEF IInv, TypeOK, Flag, CancelReset, EFrame, evaluator, hvars
  <2>13. CASE JoinPoll
    BY <2>13 DEF IInv, TypeOK, Flag, JoinPoll, EOnly, EFrame, qvars, evaluator, hvars
  <2>14. CASE Drain
    BY <2>14 DEF IInv, TypeOK, Flag, Drain, GoPoll, EFrame, qvars, evaluator, hvars
  <2>15. CASE DrainPoll
    BY <2>15 DEF IInv, TypeOK, Flag, DrainPoll, GoPoll, EFrame, qvars, evaluator, hvars
  <2>16. CASE DrainPop
    BY <2>16 DEF IInv, TypeOK, Flag, DrainPop, EFrame, evaluator, hvars
  <2>17. CASE UnsetShell
    BY <2>17 DEF IInv, TypeOK, Flag, UnsetShell, EFrame, qvars, evaluator, hvars
  <2> QED
    BY <1>3, <2>1, <2>2, <2>3, <2>4, <2>5, <2>6, <2>7, <2>8, <2>9, <2>10, <2>11, <2>12,
       <2>13, <2>14, <2>15, <2>16, <2>17 DEF EvalMoves
<1>4. ASSUME PollMoves PROVE Flag'
  BY <1>4, Frames DEF IInv, Flag, PFrame, hvars, evars, qvars, flags, evaluator, hist
<1> QED
  BY <1>1, <1>2, <1>3, <1>4 DEF Step

\* The eval loop ends only after the shell has been left, the polling loop before it.
LEMMA LeavingStep ==
  ASSUME IInv, ~crashed, Step
  PROVE  Leaving'
<1>1. ASSUME NEW t \in {"E", "P"}, Poll(t) PROVE Leaving'
  <2>1. CASE PollPending(t)
    BY <2>1 DEF IInv, TypeOK, Leaving, Unqueued, DrainPCs, PollPending, PollFrame, GoPoll,
       hvars, evars, pvars, qvars
  <2>2. CASE PollResult(t)
    BY <2>2 DEF IInv, TypeOK, Leaving, Unqueued, DrainPCs, PollResult, PollFrame, GoPoll,
       hvars, evars, pvars, qvars
  <2>3. CASE PollDisplay(t)
    BY <2>3 DEF IInv, TypeOK, Leaving, Unqueued, DrainPCs, PollDisplay, PollFrame, GoPoll,
       hvars, evars, pvars, qvars
  <2>4. CASE PollSend(t)
    BY <2>4 DEF IInv, TypeOK, Leaving, Unqueued, DrainPCs, PollSend, PollFrame, GoPoll,
       hvars, evars, pvars, qvars
  <2>5. CASE PollDone(t)
    BY <2>5 DEF IInv, TypeOK, Leaving, Unqueued, DrainPCs, PollDone, PollFrame, GoPoll,
       hvars, evars, pvars, qvars
  <2>6. CASE PollFinish(t)
    BY <2>6 DEF IInv, TypeOK, Leaving, Unqueued, DrainPCs, PollFinish, PollFrame, GoPoll,
       hvars, evars, pvars, qvars
  <2> QED
    BY <1>1, <2>1, <2>2, <2>3, <2>4, <2>5, <2>6 DEF Poll
<1>2. ASSUME HandlerMoves PROVE Leaving'
  <2>1. CASE ReadLine
    BY <2>1 DEF IInv, TypeOK, Leaving, Unqueued, DrainPCs, ReadLine, HFrame, LinePC, qvars,
       flags, TopFrame, polls
  <2>2. CASE Disconnect
    BY <2>2 DEF IInv, TypeOK, Leaving, Unqueued, DrainPCs, Disconnect, HOnly, HFrame,
       qvars, flags, TopFrame, polls
  <2>3. CASE AwaitInit
    BY <2>3 DEF IInv, TypeOK, Leaving, Unqueued, DrainPCs, AwaitInit, HOnly, LinePC,
       HFrame, qvars, flags, TopFrame, polls
  <2>4. CASE HaltDisplay
    BY <2>4 DEF IInv, TypeOK, Leaving, Unqueued, DrainPCs, HaltDisplay, TopFrame, qvars,
       flags, polls
  <2>5. CASE Enqueue
    BY <2>5 DEF IInv, TypeOK, Leaving, Unqueued, DrainPCs, Enqueue, HFrame, flags,
       TopFrame, polls
  <2>6. CASE AnswerTelnet
    BY <2>6 DEF IInv, TypeOK, Leaving, Unqueued, DrainPCs, AnswerTelnet, HFrame,
       put_output, qvars, flags, TopFrame, polls
  <2>7. CASE Interrupt
    BY <2>7 DEF IInv, TypeOK, Leaving, Unqueued, DrainPCs, Interrupt, HFrame, put_output,
       qvars, flags, TopFrame, polls
  <2>8. CASE QuitTop
    BY <2>8 DEF IInv, TypeOK, Leaving, Unqueued, DrainPCs, QuitTop, HFrame, qvars,
       TopFrame, polls
  <2>9. CASE DiscardJunk
    BY <2>9 DEF IInv, TypeOK, Leaving, Unqueued, DrainPCs, DiscardJunk, HFrame, flags,
       TopFrame, polls
  <2>10. CASE TestEvaluator
    BY <2>10 DEF IInv, TypeOK, Leaving, Unqueued, DrainPCs, TestEvaluator, HOnly, HFrame,
       qvars, flags, TopFrame, polls
  <2>11. CASE InterruptEvaluator
    BY <2>11 DEF IInv, TypeOK, Leaving, Unqueued, DrainPCs, InterruptEvaluator, TopFrame,
       qvars, flags, polls
  <2>12. CASE PutAbortPrompt
    BY <2>12 DEF IInv, TypeOK, Leaving, Unqueued, DrainPCs, PutAbortPrompt, HFrame,
       put_output, qvars, flags, TopFrame, polls
  <2>13. CASE FinishInterrupted
    BY <2>13 DEF IInv, TypeOK, Leaving, Unqueued, DrainPCs, FinishInterrupted, HFrame,
       qvars, TopFrame, polls
  <2>14. CASE LeaveShell
    BY <2>14 DEF IInv, TypeOK, Leaving, Unqueued, DrainPCs, LeaveShell, HFrame, qvars,
       TopFrame, polls
  <2>15. CASE CancelQueue
    BY <2>15 DEF IInv, TypeOK, Leaving, Unqueued, DrainPCs, CancelQueue, HFrame,
       put_output, flags, TopFrame, polls
  <2>16. CASE EndOfEval
    BY <2>16 DEF IInv, TypeOK, Leaving, Unqueued, DrainPCs, EndOfEval, HOnly, HFrame,
       qvars, flags, TopFrame, polls
  <2>17. CASE SetSelfDestruct
    BY <2>17 DEF IInv, TypeOK, Leaving, Unqueued, DrainPCs, SetSelfDestruct, HFrame, qvars,
       TopFrame, polls
  <2>18. CASE PushSentinel
    BY <2>18 DEF IInv, TypeOK, Leaving, Unqueued, DrainPCs, PushSentinel, HFrame, flags,
       TopFrame, polls
  <2>19. CASE JoinEval
    BY <2>19 DEF IInv, TypeOK, Leaving, Unqueued, DrainPCs, JoinEval, HOnly, HFrame, qvars,
       flags, TopFrame, polls
  <2> QED
    BY <1>2, <2>1, <2>2, <2>3, <2>4, <2>5, <2>6, <2>7, <2>8, <2>9, <2>10, <2>11, <2>12,
       <2>13, <2>14, <2>15, <2>16, <2>17, <2>18, <2>19 DEF HandlerMoves, Handle
<1>3. ASSUME EvalMoves PROVE Leaving'
  <2>1. CASE StartPoll
    BY <2>1 DEF IInv, TypeOK, Leaving, Unqueued, DrainPCs, StartPoll, EFrame, qvars,
       evaluator, hvars
  <2>2. CASE WhileNotDone
    BY <2>2 DEF IInv, TypeOK, Leaving, Unqueued, DrainPCs, WhileNotDone, EOnly, EFrame,
       qvars, evaluator, hvars
  <2>3. CASE WakePoll
    BY <2>3 DEF IInv, TypeOK, Leaving, Unqueued, DrainPCs, WakePoll, EOnly, EFrame, qvars,
       evaluator, hvars
  <2>4. CASE Pop
    BY <2>4 DEF IInv, TypeOK, Leaving, Unqueued, DrainPCs, Pop, EFrame, evaluator, hvars
  <2>5. CASE StartEval
    BY <2>5 DEF IInv, TypeOK, Leaving, Unqueued, DrainPCs, StartEval, EFrame, qvars,
       evaluator, hvars
  <2>6. CASE BeginEval
    BY <2>6 DEF IInv, TypeOK, Leaving, Unqueued, DrainPCs, BeginEval, EFrame, qvars, hvars
  <2>7. CASE EvalExpr
    BY <2>7 DEF IInv, TypeOK, Leaving, Unqueued, DrainPCs, EvalExpr, EFrame, qvars, hvars
  <2>8. CASE EvalTop
    BY <2>8 DEF IInv, TypeOK, Leaving, Unqueued, DrainPCs, EvalTop, EFrame, qvars, hvars
  <2>9. CASE EvalThrows
    BY <2>9 DEF IInv, TypeOK, Leaving, Unqueued, DrainPCs, EvalThrows, EFrame, qvars, hvars
  <2>10. CASE EvalUnparsed
    BY <2>10 DEF IInv, TypeOK, Leaving, Unqueued, DrainPCs, EvalUnparsed, EFrame, qvars,
       hvars
  <2>11. CASE TestSelfDestruct
    BY <2>11 DEF IInv, TypeOK, Leaving, Unqueued, DrainPCs, TestSelfDestruct, EOnly,
       EFrame, qvars, evaluator, hvars
  <2>12. CASE CancelReset
    BY <2>12 DEF IInv, TypeOK, Leaving, Unqueued, DrainPCs, CancelReset, EFrame, evaluator,
       hvars
  <2>13. CASE JoinPoll
    BY <2>13 DEF IInv, TypeOK, Leaving, Unqueued, DrainPCs, JoinPoll, EOnly, EFrame, qvars,
       evaluator, hvars
  <2>14. CASE Drain
    BY <2>14 DEF IInv, TypeOK, Leaving, Unqueued, DrainPCs, Drain, GoPoll, EFrame, qvars,
       evaluator, hvars
  <2>15. CASE DrainPoll
    BY <2>15 DEF IInv, TypeOK, Leaving, Unqueued, DrainPCs, DrainPoll, GoPoll, EFrame,
       qvars, evaluator, hvars
  <2>16. CASE DrainPop
    BY <2>16 DEF IInv, TypeOK, Leaving, Unqueued, DrainPCs, DrainPop, EFrame, evaluator,
       hvars
  <2>17. CASE UnsetShell
    BY <2>17 DEF IInv, TypeOK, Leaving, Unqueued, DrainPCs, UnsetShell, EFrame, qvars,
       evaluator, hvars
  <2> QED
    BY <1>3, <2>1, <2>2, <2>3, <2>4, <2>5, <2>6, <2>7, <2>8, <2>9, <2>10, <2>11, <2>12,
       <2>13, <2>14, <2>15, <2>16, <2>17 DEF EvalMoves
<1>4. ASSUME PollMoves PROVE Leaving'
  <2>1. CASE InitDone
    BY <2>1 DEF IInv, TypeOK, Leaving, Unqueued, DrainPCs, InitDone, PFrame, hvars, evars,
       qvars, flags, evaluator, hist
  <2>2. CASE LockPoll
    BY <2>2 DEF IInv, TypeOK, Leaving, Unqueued, DrainPCs, LockPoll, PFrame, hvars, evars,
       qvars, flags, evaluator, hist
  <2>3. CASE PollLoop
    BY <2>3 DEF IInv, TypeOK, Leaving, Unqueued, DrainPCs, PollLoop, GoPoll, PFrame, hvars,
       evars, qvars, flags, evaluator, hist
  <2>4. CASE PollAgain
    BY <2>4 DEF IInv, TypeOK, Leaving, Unqueued, DrainPCs, PollAgain, GoPoll, PFrame,
       hvars, evars, qvars, flags, evaluator, hist
  <2>5. CASE WaitPoll
    BY <2>5 DEF IInv, TypeOK, Leaving, Unqueued, DrainPCs, WaitPoll, PFrame, hvars, evars,
       qvars, flags, evaluator, hist
  <2>6. CASE PollLast
    BY <2>6 DEF IInv, TypeOK, Leaving, Unqueued, DrainPCs, PollLast, GoPoll, PFrame, hvars,
       evars, qvars, flags, evaluator, hist
  <2> QED
    BY <1>4, <2>1, <2>2, <2>3, <2>4, <2>5, <2>6 DEF PollMoves
<1> QED
  BY <1>1, <1>2, <1>3, <1>4 DEF Step

\* A handler that interrupts has read an interrupt.
LEMMA InterruptedStep ==
  ASSUME IInv, ~crashed, Step
  PROVE  Interrupted'
<1>1. ASSUME NEW t \in {"E", "P"}, Poll(t) PROVE Interrupted'
  BY <1>1, Frames DEF IInv, Interrupted, PollFrame, hvars, evars, pvars, qvars
<1>2. ASSUME HandlerMoves PROVE Interrupted'
  <2>1. CASE ReadLine
    BY <2>1 DEF IInv, TypeOK, Interrupted, ReadLine, HFrame, LinePC, qvars, flags,
       TopFrame, polls
  <2>2. CASE Disconnect
    BY <2>2 DEF IInv, TypeOK, Interrupted, Disconnect, HOnly, HFrame, qvars, flags,
       TopFrame, polls
  <2>3. CASE AwaitInit
    BY <2>3 DEF IInv, TypeOK, Interrupted, AwaitInit, HOnly, LinePC, HFrame, qvars, flags,
       TopFrame, polls
  <2>4. CASE HaltDisplay
    BY <2>4 DEF IInv, TypeOK, Interrupted, HaltDisplay, TopFrame, qvars, flags, polls
  <2>5. CASE Enqueue
    BY <2>5 DEF IInv, TypeOK, Interrupted, Enqueue, HFrame, flags, TopFrame, polls
  <2>6. CASE AnswerTelnet
    BY <2>6 DEF IInv, TypeOK, Interrupted, AnswerTelnet, HFrame, put_output, qvars, flags,
       TopFrame, polls
  <2>7. CASE Interrupt
    <3>1. lines \in DOMAIN script
      BY <2>7, ScriptDomain DEF IInv, TypeOK, Leaving, Unqueued, Interrupt
    <3> QED
      BY <2>7, <3>1 DEF Interrupted, Members, Interrupt, HFrame, TopFrame
  <2>8. CASE QuitTop
    BY <2>8 DEF IInv, TypeOK, Interrupted, QuitTop, HFrame, qvars, TopFrame, polls
  <2>9. CASE DiscardJunk
    BY <2>9 DEF IInv, TypeOK, Interrupted, DiscardJunk, HFrame, flags, TopFrame, polls
  <2>10. CASE TestEvaluator
    BY <2>10 DEF IInv, TypeOK, Interrupted, TestEvaluator, HOnly, HFrame, qvars, flags,
       TopFrame, polls
  <2>11. CASE InterruptEvaluator
    BY <2>11 DEF IInv, TypeOK, Interrupted, InterruptEvaluator, TopFrame, qvars, flags,
       polls
  <2>12. CASE PutAbortPrompt
    BY <2>12 DEF IInv, TypeOK, Interrupted, PutAbortPrompt, HFrame, put_output, qvars,
       flags, TopFrame, polls
  <2>13. CASE FinishInterrupted
    BY <2>13 DEF IInv, TypeOK, Interrupted, FinishInterrupted, HFrame, qvars, TopFrame,
       polls
  <2>14. CASE LeaveShell
    BY <2>14 DEF IInv, TypeOK, Interrupted, LeaveShell, HFrame, qvars, TopFrame, polls
  <2>15. CASE CancelQueue
    BY <2>15 DEF IInv, TypeOK, Interrupted, CancelQueue, HFrame, put_output, flags,
       TopFrame, polls
  <2>16. CASE EndOfEval
    BY <2>16 DEF IInv, TypeOK, Interrupted, EndOfEval, HOnly, HFrame, qvars, flags,
       TopFrame, polls
  <2>17. CASE SetSelfDestruct
    BY <2>17 DEF IInv, TypeOK, Interrupted, SetSelfDestruct, HFrame, qvars, TopFrame, polls
  <2>18. CASE PushSentinel
    BY <2>18 DEF IInv, TypeOK, Interrupted, PushSentinel, HFrame, flags, TopFrame, polls
  <2>19. CASE JoinEval
    BY <2>19 DEF IInv, TypeOK, Interrupted, JoinEval, HOnly, HFrame, qvars, flags,
       TopFrame, polls
  <2> QED
    BY <1>2, <2>1, <2>2, <2>3, <2>4, <2>5, <2>6, <2>7, <2>8, <2>9, <2>10, <2>11, <2>12,
       <2>13, <2>14, <2>15, <2>16, <2>17, <2>18, <2>19 DEF HandlerMoves, Handle
<1>3. ASSUME EvalMoves PROVE Interrupted'
  BY <1>3, Frames DEF IInv, Interrupted, EFrame, hvars
<1>4. ASSUME PollMoves PROVE Interrupted'
  BY <1>4, Frames DEF IInv, Interrupted, PFrame, hvars, evars, qvars, flags, evaluator, hist
<1> QED
  BY <1>1, <1>2, <1>3, <1>4 DEF Step

-----------------------------------------------------------------------------
(* The order of the lines. *)

\* Append() puts its element last and moves nothing else.
LEMMA AppendFacts ==
  ASSUME NEW S, NEW q \in Seq(S), NEW r \in S
  PROVE  /\ Append(q, r) \in Seq(S) /\ Append(q, r)[Len(q) + 1] = r
         /\ DOMAIN Append(q, r) = DOMAIN q \cup {Len(q) + 1}
         /\ \A i \in DOMAIN q : Append(q, r)[i] = q[i] /\ i \in Nat /\ i < Len(q) + 1
         /\ Len(q) \in Nat
  OBVIOUS

\* Tail() takes the first element and moves the others up by one.
LEMMA TailFacts ==
  ASSUME NEW S, NEW q \in Seq(S), q # <<>>
  PROVE  /\ Head(q) \in S /\ Tail(q) \in Seq(S) /\ 1 \in DOMAIN q /\ Head(q) = q[1]
         /\ \A i \in DOMAIN Tail(q) :
              Tail(q)[i] = q[i + 1] /\ i + 1 \in DOMAIN q /\ i \in Nat /\ 1 < i + 1
         /\ \A i \in DOMAIN q : i = 1 \/ (i - 1 \in DOMAIN Tail(q) /\ Tail(q)[i - 1] = q[i])
  OBVIOUS

\* The steps that move a line: into the queue, out of it to E or to the bin,
\* and through the evaluator.
Pops == (Pop \/ DrainPop) /\ ~canceled
Evaluates == EvalExpr \/ EvalTop \/ EvalThrows \/ EvalUnparsed
Quiet ==
  /\ UNCHANGED <<queue, in, evaluated>>
  /\ InWork' => InWork
  /\ lines' = lines /\ (Unqueued' => Unqueued)
Moves == ReadLine \/ Enqueue \/ PushSentinel \/ DiscardJunk \/ Pops \/ Evaluates

\* A step either leaves the lines where they are or moves one of them.
LEMMA QuietSteps ==
  ASSUME IInv, ~crashed, Step
  PROVE  Quiet \/ Moves
<1>1. ASSUME NEW t \in {"E", "P"}, Poll(t) PROVE Quiet \/ Moves
  BY <1>1, Frames DEF Quiet, InWork, Unqueued, PollFrame, hvars, evars, pvars, qvars
<1>2. ASSUME HandlerMoves PROVE Quiet \/ Moves
  <2>1. CASE ReadLine
    BY <2>1 DEF Moves
  <2>2. CASE Disconnect
    BY <2>2 DEF Quiet, InWork, Unqueued, IInv, TypeOK, Disconnect, HOnly, HFrame, qvars,
       flags, TopFrame, polls
  <2>3. CASE AwaitInit
    BY <2>3 DEF Quiet, InWork, Unqueued, IInv, TypeOK, AwaitInit, HOnly, LinePC, HFrame,
       qvars, flags, TopFrame, polls
  <2>4. CASE HaltDisplay
    BY <2>4 DEF Quiet, InWork, Unqueued, IInv, TypeOK, HaltDisplay, TopFrame, qvars, flags,
       polls
  <2>5. CASE Enqueue
    BY <2>5 DEF Moves
  <2>6. CASE AnswerTelnet
    BY <2>6 DEF Quiet, InWork, Unqueued, IInv, TypeOK, AnswerTelnet, HFrame, put_output,
       qvars, flags, TopFrame, polls
  <2>7. CASE Interrupt
    BY <2>7 DEF Quiet, InWork, Unqueued, IInv, TypeOK, Interrupt, HFrame, put_output,
       qvars, flags, TopFrame, polls
  <2>8. CASE QuitTop
    BY <2>8 DEF Quiet, InWork, Unqueued, IInv, TypeOK, QuitTop, HFrame, qvars, TopFrame,
       polls
  <2>9. CASE DiscardJunk
    BY <2>9 DEF Moves
  <2>10. CASE TestEvaluator
    BY <2>10 DEF Quiet, InWork, Unqueued, IInv, TypeOK, TestEvaluator, HOnly, HFrame,
       qvars, flags, TopFrame, polls
  <2>11. CASE InterruptEvaluator
    BY <2>11 DEF Quiet, InWork, Unqueued, IInv, TypeOK, InterruptEvaluator, TopFrame,
       qvars, flags, polls
  <2>12. CASE PutAbortPrompt
    BY <2>12 DEF Quiet, InWork, Unqueued, IInv, TypeOK, PutAbortPrompt, HFrame, put_output,
       qvars, flags, TopFrame, polls
  <2>13. CASE FinishInterrupted
    BY <2>13 DEF Quiet, InWork, Unqueued, IInv, TypeOK, FinishInterrupted, HFrame, qvars,
       TopFrame, polls
  <2>14. CASE LeaveShell
    BY <2>14 DEF Quiet, InWork, Unqueued, IInv, TypeOK, LeaveShell, HFrame, qvars,
       TopFrame, polls
  <2>15. CASE CancelQueue
    BY <2>15 DEF Quiet, InWork, Unqueued, IInv, TypeOK, CancelQueue, HFrame, put_output,
       flags, TopFrame, polls
  <2>16. CASE EndOfEval
    BY <2>16 DEF Quiet, InWork, Unqueued, EndOfEval, HOnly, HFrame, TopFrame, qvars
  <2>17. CASE SetSelfDestruct
    BY <2>17 DEF Quiet, InWork, Unqueued, IInv, TypeOK, SetSelfDestruct, HFrame, qvars,
       TopFrame, polls
  <2>18. CASE PushSentinel
    BY <2>18 DEF Moves
  <2>19. CASE JoinEval
    BY <2>19 DEF Quiet, InWork, Unqueued, IInv, TypeOK, JoinEval, HOnly, HFrame, qvars,
       flags, TopFrame, polls
  <2> QED
    BY <1>2, <2>1, <2>2, <2>3, <2>4, <2>5, <2>6, <2>7, <2>8, <2>9, <2>10, <2>11, <2>12,
       <2>13, <2>14, <2>15, <2>16, <2>17, <2>18, <2>19 DEF HandlerMoves, Handle
<1>3. ASSUME EvalMoves PROVE Quiet \/ Moves
  <2>1. CASE StartPoll
    BY <2>1 DEF Quiet, InWork, Unqueued, IInv, TypeOK, StartPoll, EFrame, qvars, evaluator,
       hvars
  <2>2. CASE WhileNotDone
    BY <2>2 DEF Quiet, InWork, Unqueued, IInv, TypeOK, WhileNotDone, EOnly, EFrame, qvars,
       evaluator, hvars
  <2>3. CASE WakePoll
    BY <2>3 DEF Quiet, InWork, Unqueued, IInv, TypeOK, WakePoll, EOnly, EFrame, qvars,
       evaluator, hvars
  <2>4. CASE Pop
    <3>1. CASE canceled
      BY <2>4, <3>1 DEF Quiet, InWork, Unqueued, Pop, EFrame, qvars, hvars
    <3>2. CASE ~canceled
      BY <2>4, <3>2 DEF Moves, Pops
    <3> QED
      BY <3>1, <3>2
  <2>5. CASE StartEval
    BY <2>5 DEF Quiet, InWork, Unqueued, IInv, TypeOK, StartEval, EFrame, qvars, evaluator,
       hvars
  <2>6. CASE BeginEval
    BY <2>6 DEF Quiet, InWork, Unqueued, IInv, TypeOK, BeginEval, EFrame, qvars, hvars
  <2>7. CASE EvalExpr
    BY <2>7 DEF Moves, Evaluates
  <2>8. CASE EvalTop
    BY <2>8 DEF Moves, Evaluates
  <2>9. CASE EvalThrows
    BY <2>9 DEF Moves, Evaluates
  <2>10. CASE EvalUnparsed
    BY <2>10 DEF Moves, Evaluates
  <2>11. CASE TestSelfDestruct
    BY <2>11 DEF Quiet, InWork, Unqueued, IInv, TypeOK, TestSelfDestruct, EOnly, EFrame,
       qvars, evaluator, hvars
  <2>12. CASE CancelReset
    BY <2>12 DEF Quiet, InWork, Unqueued, IInv, TypeOK, CancelReset, EFrame, evaluator,
       hvars
  <2>13. CASE JoinPoll
    BY <2>13 DEF Quiet, InWork, Unqueued, IInv, TypeOK, JoinPoll, EOnly, EFrame, qvars,
       evaluator, hvars
  <2>14. CASE Drain
    BY <2>14 DEF Quiet, InWork, Unqueued, IInv, TypeOK, Drain, GoPoll, EFrame, qvars,
       evaluator, hvars
  <2>15. CASE DrainPoll
    BY <2>15 DEF Quiet, InWork, Unqueued, IInv, TypeOK, DrainPoll, GoPoll, EFrame, qvars,
       evaluator, hvars
  <2>16. CASE DrainPop
    <3>1. CASE canceled
      BY <2>16, <3>1 DEF Quiet, InWork, Unqueued, DrainPop, EFrame, qvars, hvars
    <3>2. CASE ~canceled
      BY <2>16, <3>2 DEF Moves, Pops
    <3> QED
      BY <3>1, <3>2
  <2>17. CASE UnsetShell
    BY <2>17 DEF Quiet, InWork, Unqueued, IInv, TypeOK, UnsetShell, EFrame, qvars,
       evaluator, hvars
  <2> QED
    BY <1>3, <2>1, <2>2, <2>3, <2>4, <2>5, <2>6, <2>7, <2>8, <2>9, <2>10, <2>11, <2>12,
       <2>13, <2>14, <2>15, <2>16, <2>17 DEF EvalMoves
<1>4. ASSUME PollMoves PROVE Quiet \/ Moves
  BY <1>4, Frames DEF Quiet, InWork, Unqueued, PFrame, hvars, evars, qvars, flags,
     evaluator, hist
<1> QED
  BY <1>1, <1>2, <1>3, <1>4 DEF Step

\* Lines and answers are numbers.
LEMMA NumberTypes ==
  ASSUME TypeOK
  PROVE  /\ lines \in Nat /\ in \in Nat /\ answer \in Nat /\ Len(script) \in Nat
         /\ \A k \in DOMAIN queue : queue[k] \in Nat
         /\ \A k \in DOMAIN evaluated : evaluated[k] \in Nat /\ evaluated[k] > 0
         /\ \A k \in DOMAIN delivered : delivered[k] \in Nat
         /\ \A t \in {"E", "P"} : got[t] \in Nat
<1>1. Len(script) \in Nat
  BY ScriptDomain
<1>2. 0..Len(script) \subseteq Nat /\ \A i \in Lines : i \in Nat /\ i > 0
  BY <1>1 DEF Lines
<1>3. lines \in Nat /\ in \in Nat /\ answer \in Nat
  BY <1>2 DEF TypeOK
<1>4. \A k \in DOMAIN queue : queue[k] \in Nat
  BY <1>2 DEF TypeOK
<1>5. \A k \in DOMAIN evaluated : evaluated[k] \in Lines
  BY DEF TypeOK
<1>6. \A k \in DOMAIN delivered : delivered[k] \in Lines
  BY DEF TypeOK
<1>7. \A t \in {"E", "P"} : got[t] \in Nat
  BY <1>2 DEF TypeOK
<1> QED
  BY <1>1, <1>2, <1>3, <1>4, <1>5, <1>6, <1>7

\* A step that moves no line keeps their order.
LEMMA QuietOrder ==
  ASSUME IInv, ~crashed, Quiet
  PROVE  Order'
<1>1. EvaluatedInOrder' /\ QueueSorted' /\ EvaluatedFirst' /\ WorkBetween'
  BY DEF Quiet, IInv, Order, EvaluatedInOrder, QueueSorted, EvaluatedFirst, WorkBetween
<1>2. AllReached'
  BY DEF Quiet, IInv, Order, AllReached, Reached
<1> QED
  BY <1>1, <1>2 DEF Order

\* A line that is read is later than all that are queued, in work or evaluated.
LEMMA ReadOrder ==
  ASSUME IInv, ReadLine
  PROVE  Order'
<1>1. /\ hpc = "read" /\ lines' = lines + 1 /\ UNCHANGED <<queue, in, evaluated, crashed>>
      /\ InWork' = InWork
  BY DEF ReadLine, HFrame, TopFrame, qvars, InWork
<1>2. EvaluatedInOrder' /\ QueueSorted' /\ EvaluatedFirst' /\ WorkBetween'
  BY <1>1 DEF IInv, Order, EvaluatedInOrder, QueueSorted, EvaluatedFirst, WorkBetween
<1>3. \A i \in Nat : Reached(i) => Reached(i)'
  BY <1>1, NumberTypes DEF IInv, Reached
<1>4. AllReached'
  <2>1. \A k \in DOMAIN queue : queue[k] # 0 => Reached(queue[k]) /\ queue[k] \in Nat
    BY NumberTypes DEF IInv, Order, AllReached
  <2>2. \A k \in DOMAIN evaluated : Reached(evaluated[k]) /\ evaluated[k] \in Nat
    BY NumberTypes DEF IInv, Order, AllReached
  <2>3. InWork => Reached(in) /\ in \in Nat
    BY NumberTypes DEF IInv, Order, AllReached
  <2> QED
    BY <1>1, <1>3, <2>1, <2>2, <2>3 DEF AllReached
<1> QED
  BY <1>2, <1>4 DEF Order

\* The line that is queued is later than all others.
LEMMA EnqueueOrder ==
  ASSUME IInv, Enqueue
  PROVE  Order'
<1> DEFINE n == Len(queue) + 1
<1>1. /\ Unqueued /\ ~canceled /\ queue' = Append(queue, lines) /\ UNCHANGED <<lines, in, evaluated, crashed>>
      /\ InWork' = InWork /\ ~Unqueued'
  BY DEF Enqueue, IInv, Leaving, Unqueued, HFrame, TopFrame, InWork
<1>2. queue \in Seq(0..Len(script)) /\ lines \in 0..Len(script)
  BY DEF IInv, TypeOK
<1>3. /\ queue'[n] = lines /\ DOMAIN queue' = DOMAIN queue \cup {n}
      /\ \A k \in DOMAIN queue : queue'[k] = queue[k] /\ k \in Nat /\ k < n
      /\ n \in Nat
  BY <1>1, <1>2, AppendFacts
<1> HIDE DEF n
<1>4. /\ \A k \in DOMAIN queue : queue[k] # 0 => queue[k] < lines
      /\ \A k \in DOMAIN evaluated : evaluated[k] < lines
      /\ InWork => in < lines
  BY <1>1 DEF IInv, Order, AllReached, Reached
<1>5. QueueSorted'
  BY <1>3, <1>4 DEF IInv, Order, QueueSorted
<1>6. EvaluatedFirst' /\ EvaluatedInOrder'
  BY <1>1, <1>3, <1>4 DEF IInv, Order, EvaluatedFirst, EvaluatedInOrder
<1>7. WorkBetween'
  BY <1>1, <1>3, <1>4 DEF IInv, Order, WorkBetween
<1>8. lines \in Nat
  BY NumberTypes DEF IInv
<1>9. AllReached'
  BY <1>1, <1>3, <1>8 DEF IInv, Order, AllReached, Reached
<1> QED
  BY <1>5, <1>6, <1>7, <1>9 DEF Order

\* The empty string that wakes the eval thread is no line.
LEMMA SentinelOrder ==
  ASSUME IInv, PushSentinel
  PROVE  Order'
<1>1. /\ queue' = queue \/ queue' = Append(queue, 0)
      /\ UNCHANGED <<lines, in, evaluated, crashed>> /\ InWork' = InWork /\ ~Unqueued'
  BY DEF PushSentinel, Unqueued, HFrame, TopFrame, InWork
<1>2. queue \in Seq(0..Len(script)) /\ 0 \in 0..Len(script)
  BY ScriptDomain DEF IInv, TypeOK
<1>3. \A k \in DOMAIN queue' : queue'[k] # 0 => k \in DOMAIN queue /\ queue'[k] = queue[k]
  BY <1>1, <1>2, AppendFacts
<1>4. QueueSorted' /\ EvaluatedFirst' /\ EvaluatedInOrder'
  BY <1>1, <1>3 DEF IInv, Order, QueueSorted, EvaluatedFirst, EvaluatedInOrder
<1>5. WorkBetween'
  BY <1>1, <1>3 DEF IInv, Order, WorkBetween
<1>6. AllReached'
  BY <1>1, <1>3 DEF IInv, Order, AllReached, Reached
<1> QED
  BY <1>4, <1>5, <1>6 DEF Order

\* What is taken from the front of the queue is the earliest.
LEMMA TailOrder ==
  ASSUME IInv, queue # <<>>, queue' = Tail(queue), UNCHANGED <<lines, evaluated>>,
         Unqueued' => Unqueued
  PROVE  /\ EvaluatedInOrder' /\ QueueSorted' /\ EvaluatedFirst'
         /\ \A k \in DOMAIN queue' : queue'[k] # 0 => Reached(queue[k])'
         /\ \A k \in DOMAIN evaluated' : Reached(evaluated[k])'
         /\ Head(queue) \in Nat
         /\ Head(queue) # 0 =>
              /\ \A k \in DOMAIN queue' : queue'[k] # 0 => Head(queue) < queue'[k]
              /\ \A k \in DOMAIN evaluated : evaluated[k] < Head(queue)
              /\ Head(queue) <= lines /\ (Unqueued => Head(queue) < lines)
         /\ \A k \in DOMAIN queue' : k + 1 \in DOMAIN queue /\ queue'[k] = queue[k + 1]
<1>1. /\ 1 \in DOMAIN queue /\ Head(queue) = queue[1]
      /\ \A k \in DOMAIN queue' : queue'[k] = queue[k + 1] /\ k + 1 \in DOMAIN queue /\ k \in Nat /\ 1 < k + 1
  BY TailFacts DEF IInv, TypeOK
<1>2. EvaluatedInOrder' /\ EvaluatedFirst'
  BY <1>1 DEF IInv, Order, EvaluatedInOrder, EvaluatedFirst
<1>3. QueueSorted'
  BY <1>1 DEF IInv, Order, QueueSorted
<1>4. \A k \in DOMAIN queue' : queue'[k] # 0 => Reached(queue[k])'
  BY <1>1 DEF IInv, Order, AllReached, Reached
<1>5. \A k \in DOMAIN evaluated' : Reached(evaluated[k])'
  BY DEF IInv, Order, AllReached, Reached
<1>6. Head(queue) \in Nat
  BY <1>1, NumberTypes DEF IInv
<1>7. Head(queue) # 0 =>
        /\ \A k \in DOMAIN queue' : queue'[k] # 0 => Head(queue) < queue'[k]
        /\ \A k \in DOMAIN evaluated : evaluated[k] < Head(queue)
        /\ Head(queue) <= lines /\ (Unqueued => Head(queue) < lines)
  BY <1>1 DEF IInv, Order, QueueSorted, EvaluatedFirst, AllReached, Reached
<1> QED
  BY <1>1, <1>2, <1>3, <1>4, <1>5, <1>6, <1>7

\* What an interrupt throws away leaves the rest in order.
LEMMA DiscardOrder ==
  ASSUME IInv, DiscardJunk
  PROVE  Order'
<1>1. /\ queue # <<>> /\ queue' = Tail(queue) /\ UNCHANGED <<lines, in, evaluated, crashed>>
      /\ InWork' = InWork /\ Unqueued' = Unqueued
  BY DEF DiscardJunk, HFrame, TopFrame, InWork, Unqueued
<1>2. WorkBetween'
  BY <1>1, TailOrder DEF IInv, Order, WorkBetween
<1>3. AllReached'
  BY <1>1, TailOrder DEF IInv, Order, AllReached, Reached
<1> QED
  BY <1>1, <1>2, <1>3, TailOrder DEF Order

\* The line that E pops is later than those evaluated, earlier than those queued.
LEMMA PopOrder ==
  ASSUME IInv, Pops
  PROVE  Order'
<1>1. /\ queue # <<>> /\ queue' = Tail(queue) /\ in' = Head(queue) /\ UNCHANGED <<lines, evaluated, crashed>>
      /\ Unqueued' = Unqueued /\ (InWork' => Head(queue) # 0)
  BY DEF Pops, Pop, DrainPop, EFrame, hvars, InWork, Unqueued
<1>2. WorkBetween'
  BY <1>1, TailOrder DEF WorkBetween
<1>3. InWork' => Reached(in)'
  BY <1>1, TailOrder DEF Reached
<1>4. AllReached'
  BY <1>1, <1>3, TailOrder DEF AllReached
<1> QED
  BY <1>1, <1>2, <1>4, TailOrder DEF Order

\* The line that E evaluates is the latest so far.
LEMMA EvaluateOrder ==
  ASSUME IInv, ~crashed, Evaluates
  PROVE  Order'
<1> DEFINE n == Len(evaluated) + 1
<1>1. /\ epc = "eval" /\ evaluated' = Append(evaluated, in) /\ UNCHANGED <<queue, lines, in>>
      /\ Unqueued' = Unqueued /\ (InWork' => crashed')
  BY DEF Evaluates, EvalExpr, EvalTop, EvalThrows, EvalUnparsed, EFrame, hvars, qvars,
     InWork, Unqueued
<1>2. /\ in # 0 /\ \A k \in DOMAIN queue : queue[k] # 0 => in < queue[k]
      /\ \A j \in DOMAIN evaluated : evaluated[j] < in
      /\ Reached(in) /\ in \in Lines
  BY <1>1, ScriptDomain DEF IInv, TypeOK, Order, WorkBetween, AllReached, InWork, Lines
<1>3. /\ evaluated'[n] = in /\ DOMAIN evaluated' = DOMAIN evaluated \cup {n}
      /\ \A k \in DOMAIN evaluated : evaluated'[k] = evaluated[k] /\ k \in Nat /\ k < n
      /\ n \in Nat
  BY <1>1, <1>2, AppendFacts DEF IInv, TypeOK
<1> HIDE DEF n
<1>4. EvaluatedInOrder'
  BY <1>2, <1>3 DEF IInv, Order, EvaluatedInOrder
<1>5. EvaluatedFirst' /\ QueueSorted'
  BY <1>1, <1>2, <1>3 DEF IInv, Order, EvaluatedFirst, QueueSorted
<1>6. WorkBetween'
  BY <1>1, <1>2 DEF WorkBetween
<1>7. AllReached'
  BY <1>1, <1>2, <1>3 DEF IInv, Order, AllReached, Reached
<1> QED
  BY <1>4, <1>5, <1>6, <1>7 DEF Order

\* Every step keeps the lines in order.
LEMMA OrderStep ==
  ASSUME IInv, ~crashed, Step
  PROVE  Order'
  BY QuietSteps, QuietOrder, ReadOrder, EnqueueOrder, SentinelOrder, DiscardOrder,
     PopOrder, EvaluateOrder DEF Moves

-----------------------------------------------------------------------------
(* No work is lost. *)

\* Line i is still to be evaluated, or was, or was thrown away.
Safe(i) ==
  \/ Queued(i) \/ (InWork /\ in = i) \/ i \in Members(evaluated) \/ i \in discarded
  \/ Unqueued /\ i = lines

\* A pop takes one line out of the queue and no other.
LEMMA TailQueued ==
  ASSUME IInv, queue # <<>>, queue' = Tail(queue)
  PROVE  /\ \A i : Queued(i) => Queued(i)' \/ i = Head(queue)
         /\ \A i : Queued(i)' => Queued(i)
         /\ Head(queue) \in 0..Len(script)
<1>1. /\ Head(queue) = queue[1] /\ Head(queue) \in 0..Len(script)
      /\ \A k \in DOMAIN queue' : queue'[k] = queue[k + 1] /\ k + 1 \in DOMAIN queue
      /\ \A k \in DOMAIN queue : k = 1 \/ (k - 1 \in DOMAIN queue' /\ queue'[k - 1] = queue[k])
  BY TailFacts DEF IInv, TypeOK
<1>2. ASSUME NEW i, Queued(i), i # Head(queue) PROVE Queued(i)'
  <2>1. PICK k \in DOMAIN queue : queue[k] = i
    BY <1>2 DEF Queued
  <2>2. k - 1 \in DOMAIN queue' /\ queue'[k - 1] = i
    BY <1>1, <1>2, <2>1
  <2> QED
    BY <1>2, <2>2 DEF Queued
<1>3. ASSUME NEW i, Queued(i)' PROVE Queued(i)
  <2>1. PICK k \in DOMAIN queue' : queue'[k] = i
    BY <1>3 DEF Queued
  <2>2. k + 1 \in DOMAIN queue /\ queue[k + 1] = i
    BY <1>1, <2>1
  <2> QED
    BY <1>3, <2>2 DEF Queued
<1> QED
  BY <1>1, <1>2, <1>3

\* An evaluation adds the line in work to those evaluated.
LEMMA EvaluatedMembers ==
  ASSUME IInv, ~crashed, Evaluates
  PROVE  Members(evaluated)' = Members(evaluated) \cup {in} /\ in \in Lines
<1>1. epc = "eval" /\ evaluated' = Append(evaluated, in)
  BY DEF Evaluates, EvalExpr, EvalTop, EvalThrows, EvalUnparsed
<1>2. in \in Lines
  BY <1>1, ScriptDomain DEF IInv, TypeOK, Order, WorkBetween, InWork, Lines
<1>3. /\ evaluated'[Len(evaluated) + 1] = in /\ DOMAIN evaluated' = DOMAIN evaluated \cup {Len(evaluated) + 1}
      /\ \A k \in DOMAIN evaluated : evaluated'[k] = evaluated[k]
  BY <1>1, <1>2, AppendFacts DEF IInv, TypeOK
<1> QED
  BY <1>2, <1>3 DEF Members

\* A line that was read is not lost: it is passed on, evaluated, or discarded by
\* an interrupt.
LEMMA SafeStep ==
  ASSUME IInv, ~crashed, Step, NEW i \in 1..lines, Work(i), Safe(i)
  PROVE  Safe(i)'
<1>1. ASSUME NEW t \in {"E", "P"}, Poll(t) PROVE Safe(i)'
  BY <1>1, Frames DEF Safe, Queued, InWork, Unqueued, Members, PollFrame, hvars, evars,
     pvars, qvars
<1>2. ASSUME HandlerMoves PROVE Safe(i)'
  <2>1. CASE ReadLine
    <3>1. lines \in Nat
      BY NumberTypes DEF IInv
    <3> QED
      BY <2>1, <3>1 DEF Safe, Queued, InWork, Unqueued, Members, ReadLine, LinePC, HFrame,
         TopFrame, qvars
  <2>2. CASE Disconnect
    BY <2>2 DEF Safe, Queued, InWork, Unqueued, Members, Disconnect, HOnly, HFrame, qvars,
       flags, TopFrame, polls
  <2>3. CASE AwaitInit
    BY <2>3 DEF Safe, Queued, InWork, Unqueued, Members, AwaitInit, HOnly, LinePC, HFrame,
       qvars, flags, TopFrame, polls
  <2>4. CASE HaltDisplay
    BY <2>4 DEF Safe, Queued, InWork, Unqueued, Members, HaltDisplay, TopFrame, qvars,
       flags, polls
  <2>5. CASE Enqueue
    <3>1. Unqueued /\ queue' = Append(queue, lines) /\ UNCHANGED <<lines, epc, in, evaluated, discarded>>
      BY <2>5 DEF Enqueue, IInv, Leaving, Unqueued, HFrame, TopFrame
    <3>2. queue \in Seq(0..Len(script)) /\ lines \in 0..Len(script)
      BY DEF IInv, TypeOK
    <3>3. /\ Len(queue) + 1 \in DOMAIN queue' /\ queue'[Len(queue) + 1] = lines
          /\ \A k \in DOMAIN queue : k \in DOMAIN queue' /\ queue'[k] = queue[k]
      BY <3>1, <3>2, AppendFacts
    <3>4. i # 0
      OBVIOUS
    <3> QED
      BY <3>1, <3>3, <3>4 DEF Safe, Queued, InWork, Members
  <2>6. CASE AnswerTelnet
    BY <2>6 DEF Safe, Queued, InWork, Unqueued, Members, Work, AnswerTelnet, HFrame,
       put_output, qvars, flags, TopFrame, polls
  <2>7. CASE Interrupt
    BY <2>7 DEF Safe, Queued, InWork, Unqueued, Members, Work, Interrupt, HFrame,
       put_output, qvars, flags, TopFrame, polls
  <2>8. CASE QuitTop
    BY <2>8 DEF Safe, Queued, InWork, Unqueued, Members, QuitTop, HFrame, qvars, TopFrame,
       polls
  <2>9. CASE DiscardJunk
    <3>1. queue # <<>> /\ queue' = Tail(queue) /\ discarded' = discarded \cup ({Head(queue)} \ {0})
      BY <2>9 DEF DiscardJunk
    <3>2. i # 0
      BY DEF IInv, TypeOK
    <3> QED
      BY <2>9, <3>1, <3>2, TailQueued DEF Safe, InWork, Unqueued, Members, DiscardJunk,
         HFrame, TopFrame
  <2>10. CASE TestEvaluator
    BY <2>10 DEF Safe, Queued, InWork, Unqueued, Members, TestEvaluator, HOnly, HFrame,
       qvars, flags, TopFrame, polls
  <2>11. CASE InterruptEvaluator
    BY <2>11 DEF Safe, Queued, InWork, Unqueued, Members, InterruptEvaluator, TopFrame,
       qvars, flags, polls
  <2>12. CASE PutAbortPrompt
    BY <2>12 DEF Safe, Queued, InWork, Unqueued, Members, PutAbortPrompt, HFrame,
       put_output, qvars, flags, TopFrame, polls
  <2>13. CASE FinishInterrupted
    BY <2>13 DEF Safe, Queued, InWork, Unqueued, Members, FinishInterrupted, HFrame, qvars,
       TopFrame, polls
  <2>14. CASE LeaveShell
    BY <2>14 DEF Safe, Queued, InWork, Unqueued, Members, Work, LeaveShell, HFrame, qvars,
       TopFrame, polls
  <2>15. CASE CancelQueue
    BY <2>15 DEF Safe, Queued, InWork, Unqueued, Members, CancelQueue, HFrame, put_output,
       flags, TopFrame, polls
  <2>16. CASE EndOfEval
    BY <2>16 DEF Safe, Queued, InWork, Unqueued, Members, EndOfEval, HOnly, HFrame, qvars,
       flags, TopFrame, polls
  <2>17. CASE SetSelfDestruct
    BY <2>17 DEF Safe, Queued, InWork, Unqueued, Members, SetSelfDestruct, HFrame, qvars,
       TopFrame, polls
  <2>18. CASE PushSentinel
    <3>1. (queue' = queue \/ queue' = Append(queue, 0)) /\ UNCHANGED <<lines, epc, in, evaluated, discarded>>
      BY <2>18 DEF PushSentinel, HFrame, TopFrame
    <3>2. queue \in Seq(0..Len(script)) /\ 0 \in 0..Len(script)
      BY ScriptDomain DEF IInv, TypeOK
    <3>3. \A k \in DOMAIN queue : k \in DOMAIN queue' /\ queue'[k] = queue[k]
      BY <3>1, <3>2, AppendFacts
    <3> QED
      BY <2>18, <3>1, <3>3 DEF Safe, Queued, InWork, Unqueued, Members, PushSentinel
  <2>19. CASE JoinEval
    BY <2>19 DEF Safe, Queued, InWork, Unqueued, Members, JoinEval, HOnly, HFrame, qvars,
       flags, TopFrame, polls
  <2> QED
    BY <1>2, <2>1, <2>2, <2>3, <2>4, <2>5, <2>6, <2>7, <2>8, <2>9, <2>10, <2>11, <2>12,
       <2>13, <2>14, <2>15, <2>16, <2>17, <2>18, <2>19 DEF HandlerMoves, Handle
<1>3. ASSUME EvalMoves PROVE Safe(i)'
  <2>1. CASE StartPoll
    BY <2>1 DEF Safe, Queued, InWork, Unqueued, Members, StartPoll, EFrame, qvars,
       evaluator, hvars
  <2>2. CASE WhileNotDone
    BY <2>2 DEF Safe, Queued, InWork, Unqueued, Members, WhileNotDone, EOnly, EFrame,
       qvars, evaluator, hvars
  <2>3. CASE WakePoll
    BY <2>3 DEF Safe, Queued, InWork, Unqueued, Members, WakePoll, EOnly, EFrame, qvars,
       evaluator, hvars
  <2>4. CASE Pop
    <3>1. CASE canceled
      BY <2>4, <3>1 DEF Safe, Queued, InWork, Unqueued, Members, Pop, EFrame, hvars, qvars
    <3>2. CASE ~canceled
      <4>1. queue # <<>> /\ queue' = Tail(queue)
        BY <2>4, <3>2 DEF Pop
      <4> QED
        BY <2>4, <3>2, <4>1, TailQueued DEF Safe, InWork, Unqueued, Members, Pop, EFrame,
           hvars
    <3> QED
      BY <3>1, <3>2
  <2>5. CASE StartEval
    BY <2>5 DEF Safe, Queued, InWork, Unqueued, Members, StartEval, EFrame, qvars,
       evaluator, hvars
  <2>6. CASE BeginEval
    BY <2>6 DEF Safe, Queued, InWork, Unqueued, Members, BeginEval, EFrame, qvars, hvars
  <2>7. CASE EvalExpr
    <3>1. Members(evaluated)' = Members(evaluated) \cup {in}
      BY <2>7, EvaluatedMembers DEF Evaluates
    <3> QED
      BY <2>7, <3>1 DEF Safe, Queued, InWork, Unqueued, EvalExpr, EFrame, hvars, qvars
  <2>8. CASE EvalTop
    <3>1. Members(evaluated)' = Members(evaluated) \cup {in}
      BY <2>8, EvaluatedMembers DEF Evaluates
    <3> QED
      BY <2>8, <3>1 DEF Safe, Queued, InWork, Unqueued, EvalTop, EFrame, hvars, qvars
  <2>9. CASE EvalThrows
    <3>1. Members(evaluated)' = Members(evaluated) \cup {in}
      BY <2>9, EvaluatedMembers DEF Evaluates
    <3> QED
      BY <2>9, <3>1 DEF Safe, Queued, InWork, Unqueued, EvalThrows, EFrame, hvars, qvars
  <2>10. CASE EvalUnparsed
    <3>1. Members(evaluated)' = Members(evaluated) \cup {in}
      BY <2>10, EvaluatedMembers DEF Evaluates
    <3> QED
      BY <2>10, <3>1 DEF Safe, Queued, InWork, Unqueued, EvalUnparsed, EFrame, hvars, qvars
  <2>11. CASE TestSelfDestruct
    BY <2>11 DEF Safe, Queued, InWork, Unqueued, Members, TestSelfDestruct, EOnly, EFrame,
       qvars, evaluator, hvars
  <2>12. CASE CancelReset
    BY <2>12 DEF Safe, Queued, InWork, Unqueued, Members, CancelReset, EFrame, evaluator,
       hvars
  <2>13. CASE JoinPoll
    BY <2>13 DEF Safe, Queued, InWork, Unqueued, Members, JoinPoll, EOnly, EFrame, qvars,
       evaluator, hvars
  <2>14. CASE Drain
    BY <2>14 DEF Safe, Queued, InWork, Unqueued, Members, Drain, GoPoll, EFrame, qvars,
       evaluator, hvars
  <2>15. CASE DrainPoll
    BY <2>15 DEF Safe, Queued, InWork, Unqueued, Members, DrainPoll, GoPoll, EFrame, qvars,
       evaluator, hvars
  <2>16. CASE DrainPop
    <3>1. CASE canceled
      BY <2>16, <3>1 DEF Safe, Queued, InWork, Unqueued, Members, DrainPop, EFrame, hvars,
         qvars
    <3>2. CASE ~canceled
      <4>1. queue # <<>> /\ queue' = Tail(queue)
        BY <2>16, <3>2 DEF DrainPop
      <4> QED
        BY <2>16, <3>2, <4>1, TailQueued DEF Safe, InWork, Unqueued, Members, DrainPop,
           EFrame, hvars
    <3> QED
      BY <3>1, <3>2
  <2>17. CASE UnsetShell
    BY <2>17 DEF Safe, Queued, InWork, Unqueued, Members, UnsetShell, EFrame, qvars,
       evaluator, hvars
  <2> QED
    BY <1>3, <2>1, <2>2, <2>3, <2>4, <2>5, <2>6, <2>7, <2>8, <2>9, <2>10, <2>11, <2>12,
       <2>13, <2>14, <2>15, <2>16, <2>17 DEF EvalMoves
<1>4. ASSUME PollMoves PROVE Safe(i)'
  BY <1>4, Frames DEF Safe, Queued, InWork, Unqueued, Members, PFrame, hvars, evars, qvars,
     flags, evaluator, hist
<1> QED
  BY <1>1, <1>2, <1>3, <1>4 DEF Step

\* Once the drain has found the queue empty, only empty strings are queued.
EmptyAtEnd == epc \in {"final", "unset", "exited"} => \A k \in DOMAIN queue : queue[k] = 0

\* The drain leaves no line in the queue, and nobody adds one to it later.
LEMMA EmptyStep ==
  ASSUME IInv, ~crashed, Step
  PROVE  EmptyAtEnd'
<1>1. ASSUME NEW t \in {"E", "P"}, Poll(t) PROVE EmptyAtEnd'
  BY <1>1, Frames DEF IInv, Accounted, EmptyAtEnd, PollFrame, hvars, evars, pvars, qvars
<1>2. ASSUME HandlerMoves PROVE EmptyAtEnd'
  <2>1. CASE ReadLine
    BY <2>1 DEF IInv, Accounted, EmptyAtEnd, ReadLine, HFrame, LinePC, qvars, flags,
       TopFrame, polls
  <2>2. CASE Disconnect
    BY <2>2 DEF IInv, Accounted, EmptyAtEnd, Disconnect, HOnly, HFrame, qvars, flags,
       TopFrame, polls
  <2>3. CASE AwaitInit
    BY <2>3 DEF IInv, Accounted, EmptyAtEnd, AwaitInit, HOnly, LinePC, HFrame, qvars,
       flags, TopFrame, polls
  <2>4. CASE HaltDisplay
    BY <2>4 DEF IInv, Accounted, EmptyAtEnd, HaltDisplay, TopFrame, qvars, flags, polls
  <2>5. CASE Enqueue
    BY <2>5 DEF IInv, Leaving, Unqueued, DrainPCs, EmptyAtEnd, Enqueue
  <2>6. CASE AnswerTelnet
    BY <2>6 DEF IInv, Accounted, EmptyAtEnd, AnswerTelnet, HFrame, put_output, qvars,
       flags, TopFrame, polls
  <2>7. CASE Interrupt
    BY <2>7 DEF IInv, Accounted, EmptyAtEnd, Interrupt, HFrame, put_output, qvars, flags,
       TopFrame, polls
  <2>8. CASE QuitTop
    BY <2>8 DEF IInv, Accounted, EmptyAtEnd, QuitTop, HFrame, qvars, TopFrame, polls
  <2>9. CASE DiscardJunk
    <3>1. queue # <<>> /\ queue' = Tail(queue) /\ epc' = epc
      BY <2>9 DEF DiscardJunk
    <3> QED
      BY <3>1, TailQueued DEF Queued, IInv, Accounted, EmptyAtEnd
  <2>10. CASE TestEvaluator
    BY <2>10 DEF IInv, Accounted, EmptyAtEnd, TestEvaluator, HOnly, HFrame, qvars, flags,
       TopFrame, polls
  <2>11. CASE InterruptEvaluator
    BY <2>11 DEF IInv, Accounted, EmptyAtEnd, InterruptEvaluator, TopFrame, qvars, flags,
       polls
  <2>12. CASE PutAbortPrompt
    BY <2>12 DEF IInv, Accounted, EmptyAtEnd, PutAbortPrompt, HFrame, put_output, qvars,
       flags, TopFrame, polls
  <2>13. CASE FinishInterrupted
    BY <2>13 DEF IInv, Accounted, EmptyAtEnd, FinishInterrupted, HFrame, qvars, TopFrame,
       polls
  <2>14. CASE LeaveShell
    BY <2>14 DEF IInv, Accounted, EmptyAtEnd, LeaveShell, HFrame, qvars, TopFrame, polls
  <2>15. CASE CancelQueue
    BY <2>15 DEF IInv, Accounted, EmptyAtEnd, CancelQueue, HFrame, put_output, flags,
       TopFrame, polls
  <2>16. CASE EndOfEval
    BY <2>16 DEF IInv, Accounted, EmptyAtEnd, EndOfEval, HOnly, HFrame, qvars, flags,
       TopFrame, polls
  <2>17. CASE SetSelfDestruct
    BY <2>17 DEF IInv, Accounted, EmptyAtEnd, SetSelfDestruct, HFrame, qvars, TopFrame,
       polls
  <2>18. CASE PushSentinel
    <3>1. (queue' = queue \/ queue' = Append(queue, 0)) /\ epc' = epc
      BY <2>18 DEF PushSentinel
    <3>2. queue \in Seq(0..Len(script)) /\ 0 \in 0..Len(script)
      BY ScriptDomain DEF IInv, TypeOK
    <3>3. \A k \in DOMAIN queue' : queue'[k] = 0 \/ (k \in DOMAIN queue /\ queue'[k] = queue[k])
      BY <3>1, <3>2, AppendFacts
    <3> QED
      BY <3>1, <3>3 DEF IInv, Accounted, EmptyAtEnd
  <2>19. CASE JoinEval
    BY <2>19 DEF IInv, Accounted, EmptyAtEnd, JoinEval, HOnly, HFrame, qvars, flags,
       TopFrame, polls
  <2> QED
    BY <1>2, <2>1, <2>2, <2>3, <2>4, <2>5, <2>6, <2>7, <2>8, <2>9, <2>10, <2>11, <2>12,
       <2>13, <2>14, <2>15, <2>16, <2>17, <2>18, <2>19 DEF HandlerMoves, Handle
<1>3. ASSUME EvalMoves PROVE EmptyAtEnd'
  <2>1. CASE StartPoll
    BY <2>1 DEF IInv, Accounted, EmptyAtEnd, StartPoll, EFrame, qvars, evaluator, hvars
  <2>2. CASE WhileNotDone
    BY <2>2 DEF IInv, Accounted, EmptyAtEnd, WhileNotDone, EOnly, EFrame, qvars, evaluator,
       hvars
  <2>3. CASE WakePoll
    BY <2>3 DEF IInv, Accounted, EmptyAtEnd, WakePoll, EOnly, EFrame, qvars, evaluator,
       hvars
  <2>4. CASE Pop
    BY <2>4 DEF IInv, Accounted, EmptyAtEnd, Pop, EFrame, evaluator, hvars
  <2>5. CASE StartEval
    BY <2>5 DEF IInv, Accounted, EmptyAtEnd, StartEval, EFrame, qvars, evaluator, hvars
  <2>6. CASE BeginEval
    BY <2>6 DEF IInv, Accounted, EmptyAtEnd, BeginEval, EFrame, qvars, hvars
  <2>7. CASE EvalExpr
    BY <2>7 DEF IInv, Accounted, EmptyAtEnd, EvalExpr, EFrame, qvars, hvars
  <2>8. CASE EvalTop
    BY <2>8 DEF IInv, Accounted, EmptyAtEnd, EvalTop, EFrame, qvars, hvars
  <2>9. CASE EvalThrows
    BY <2>9 DEF IInv, Accounted, EmptyAtEnd, EvalThrows, EFrame, qvars, hvars
  <2>10. CASE EvalUnparsed
    BY <2>10 DEF IInv, Accounted, EmptyAtEnd, EvalUnparsed, EFrame, qvars, hvars
  <2>11. CASE TestSelfDestruct
    BY <2>11 DEF IInv, Accounted, EmptyAtEnd, TestSelfDestruct, EOnly, EFrame, qvars,
       evaluator, hvars
  <2>12. CASE CancelReset
    BY <2>12 DEF IInv, Accounted, EmptyAtEnd, CancelReset, EFrame, evaluator, hvars
  <2>13. CASE JoinPoll
    BY <2>13 DEF IInv, Accounted, EmptyAtEnd, JoinPoll, EOnly, EFrame, qvars, evaluator,
       hvars
  <2>14. CASE Drain
    BY <2>14 DEF IInv, Accounted, EmptyAtEnd, Drain, GoPoll, EFrame, qvars, evaluator, hvars
  <2>15. CASE DrainPoll
    BY <2>15 DEF IInv, Accounted, EmptyAtEnd, DrainPoll, GoPoll, EFrame, qvars, evaluator,
       hvars
  <2>16. CASE DrainPop
    BY <2>16 DEF IInv, Accounted, EmptyAtEnd, DrainPop, EFrame, evaluator, hvars
  <2>17. CASE UnsetShell
    BY <2>17 DEF IInv, Accounted, EmptyAtEnd, UnsetShell, EFrame, qvars, evaluator, hvars
  <2> QED
    BY <1>3, <2>1, <2>2, <2>3, <2>4, <2>5, <2>6, <2>7, <2>8, <2>9, <2>10, <2>11, <2>12,
       <2>13, <2>14, <2>15, <2>16, <2>17 DEF EvalMoves
<1>4. ASSUME PollMoves PROVE EmptyAtEnd'
  BY <1>4, Frames DEF IInv, Accounted, EmptyAtEnd, PFrame, hvars, evars, qvars, flags,
     evaluator, hist
<1> QED
  BY <1>1, <1>2, <1>3, <1>4 DEF Step

\* Every step accounts for every line.
LEMMA AccountedStep ==
  ASSUME IInv, ~crashed, Step
  PROVE  Accounted'
<1>1. \A i \in 1..lines : Work(i) => Safe(i)
  BY DEF IInv, Accounted, Safe
<1>2. script' = script /\ lines \in Nat /\ (lines' = lines \/ (lines' = lines + 1 /\ Unqueued'))
  <2>1. CASE ReadLine
    BY <2>1, NumberTypes DEF ReadLine, LinePC, HFrame, TopFrame, Unqueued, IInv
  <2>2. CASE ~ReadLine
    BY <2>2, QuietSteps, NumberTypes, Frames DEF Quiet, Moves, Step, IInv, Enqueue,
       PushSentinel, DiscardJunk,
       Pops, Pop, DrainPop, Evaluates, EvalExpr, EvalTop, EvalThrows, EvalUnparsed, HFrame, PollFrame, TopFrame, EFrame, PFrame, hvars
  <2> QED
    BY <2>1, <2>2
<1>3. \A i \in 1..lines' : Work(i)' => Safe(i)'
  <2> SUFFICES ASSUME NEW i \in 1..lines', Work(i)
               PROVE  Safe(i)'
    BY <1>2 DEF Work
  <2>1. CASE i \in 1..lines
    BY <1>1, <2>1, SafeStep
  <2>2. CASE i \notin 1..lines
    BY <1>2, <2>2 DEF Safe
  <2> QED
    BY <2>1, <2>2
<1> QED
  BY <1>3, EmptyStep DEF Accounted, Safe, EmptyAtEnd

-----------------------------------------------------------------------------
(* The order of the answers. *)

\* The steps that neither make an answer nor take it further.
AnswerQuiet ==
  /\ UNCHANGED <<answer, got, delivered, evaluated, script, kind>>
  /\ ready' => ready
  /\ \A t \in {"E", "P"} : poll'[t] = "send" => poll[t] = "send"
AnswerMoves ==
  \/ \E t \in {"E", "P"} : PollResult(t) \/ PollDisplay(t) \/ PollSend(t)
  \/ InterruptEvaluator \/ Evaluates

\* A step either leaves the answers alone or makes, takes or sends one.
LEMMA AnswerSteps ==
  ASSUME IInv, ~crashed, Step
  PROVE  AnswerQuiet \/ AnswerMoves
<1>1. ASSUME NEW t \in {"E", "P"}, Poll(t) PROVE AnswerQuiet \/ AnswerMoves
  <2>1. CASE PollPending(t)
    BY <2>1 DEF AnswerQuiet, IInv, TypeOK, PollPending, PollFrame, GoPoll, hvars, evars,
       pvars, qvars
  <2>2. CASE PollResult(t)
    BY <2>2 DEF AnswerMoves
  <2>3. CASE PollDisplay(t)
    BY <2>3 DEF AnswerMoves
  <2>4. CASE PollSend(t)
    BY <2>4 DEF AnswerMoves
  <2>5. CASE PollDone(t)
    BY <2>5 DEF AnswerQuiet, IInv, TypeOK, PollDone, PollFrame, GoPoll, hvars, evars,
       pvars, qvars
  <2>6. CASE PollFinish(t)
    BY <2>6 DEF AnswerQuiet, IInv, TypeOK, PollFinish, PollFrame, GoPoll, hvars, evars,
       pvars, qvars
  <2> QED
    BY <1>1, <2>1, <2>2, <2>3, <2>4, <2>5, <2>6 DEF Poll
<1>2. ASSUME HandlerMoves PROVE AnswerQuiet \/ AnswerMoves
  <2>1. CASE ReadLine
    BY <2>1 DEF AnswerQuiet, IInv, TypeOK, ReadLine, HFrame, LinePC, qvars, flags,
       TopFrame, polls
  <2>2. CASE Disconnect
    BY <2>2 DEF AnswerQuiet, IInv, TypeOK, Disconnect, HOnly, HFrame, qvars, flags,
       TopFrame, polls
  <2>3. CASE AwaitInit
    BY <2>3 DEF AnswerQuiet, IInv, TypeOK, AwaitInit, HOnly, LinePC, HFrame, qvars, flags,
       TopFrame, polls
  <2>4. CASE HaltDisplay
    BY <2>4 DEF AnswerQuiet, IInv, TypeOK, HaltDisplay, TopFrame, qvars, flags, polls
  <2>5. CASE Enqueue
    BY <2>5 DEF AnswerQuiet, IInv, TypeOK, Enqueue, HFrame, flags, TopFrame, polls
  <2>6. CASE AnswerTelnet
    BY <2>6 DEF AnswerQuiet, IInv, TypeOK, AnswerTelnet, HFrame, put_output, qvars, flags,
       TopFrame, polls
  <2>7. CASE Interrupt
    BY <2>7 DEF AnswerQuiet, IInv, TypeOK, Interrupt, HFrame, put_output, qvars, flags,
       TopFrame, polls
  <2>8. CASE QuitTop
    BY <2>8 DEF AnswerQuiet, IInv, TypeOK, QuitTop, HFrame, qvars, TopFrame, polls
  <2>9. CASE DiscardJunk
    BY <2>9 DEF AnswerQuiet, IInv, TypeOK, DiscardJunk, HFrame, flags, TopFrame, polls
  <2>10. CASE TestEvaluator
    BY <2>10 DEF AnswerQuiet, IInv, TypeOK, TestEvaluator, HOnly, HFrame, qvars, flags,
       TopFrame, polls
  <2>11. CASE InterruptEvaluator
    BY <2>11 DEF AnswerMoves
  <2>12. CASE PutAbortPrompt
    BY <2>12 DEF AnswerQuiet, IInv, TypeOK, PutAbortPrompt, HFrame, put_output, qvars,
       flags, TopFrame, polls
  <2>13. CASE FinishInterrupted
    BY <2>13 DEF AnswerQuiet, IInv, TypeOK, FinishInterrupted, HFrame, qvars, TopFrame,
       polls
  <2>14. CASE LeaveShell
    BY <2>14 DEF AnswerQuiet, IInv, TypeOK, LeaveShell, HFrame, qvars, TopFrame, polls
  <2>15. CASE CancelQueue
    BY <2>15 DEF AnswerQuiet, IInv, TypeOK, CancelQueue, HFrame, put_output, flags,
       TopFrame, polls
  <2>16. CASE EndOfEval
    BY <2>16 DEF AnswerQuiet, IInv, TypeOK, EndOfEval, HOnly, HFrame, qvars, flags,
       TopFrame, polls
  <2>17. CASE SetSelfDestruct
    BY <2>17 DEF AnswerQuiet, IInv, TypeOK, SetSelfDestruct, HFrame, qvars, TopFrame, polls
  <2>18. CASE PushSentinel
    BY <2>18 DEF AnswerQuiet, IInv, TypeOK, PushSentinel, HFrame, flags, TopFrame, polls
  <2>19. CASE JoinEval
    BY <2>19 DEF AnswerQuiet, IInv, TypeOK, JoinEval, HOnly, HFrame, qvars, flags,
       TopFrame, polls
  <2> QED
    BY <1>2, <2>1, <2>2, <2>3, <2>4, <2>5, <2>6, <2>7, <2>8, <2>9, <2>10, <2>11, <2>12,
       <2>13, <2>14, <2>15, <2>16, <2>17, <2>18, <2>19 DEF HandlerMoves, Handle
<1>3. ASSUME EvalMoves PROVE AnswerQuiet \/ AnswerMoves
  <2>1. CASE StartPoll
    BY <2>1 DEF AnswerQuiet, IInv, TypeOK, StartPoll, EFrame, qvars, evaluator, hvars
  <2>2. CASE WhileNotDone
    BY <2>2 DEF AnswerQuiet, IInv, TypeOK, WhileNotDone, EOnly, EFrame, qvars, evaluator,
       hvars
  <2>3. CASE WakePoll
    BY <2>3 DEF AnswerQuiet, IInv, TypeOK, WakePoll, EOnly, EFrame, qvars, evaluator, hvars
  <2>4. CASE Pop
    BY <2>4 DEF AnswerQuiet, IInv, TypeOK, Pop, EFrame, evaluator, hvars
  <2>5. CASE StartEval
    BY <2>5 DEF AnswerQuiet, IInv, TypeOK, StartEval, EFrame, qvars, evaluator, hvars
  <2>6. CASE BeginEval
    BY <2>6 DEF AnswerQuiet, IInv, TypeOK, BeginEval, EFrame, qvars, hvars
  <2>7. CASE EvalExpr
    BY <2>7 DEF AnswerMoves, Evaluates
  <2>8. CASE EvalTop
    BY <2>8 DEF AnswerMoves, Evaluates
  <2>9. CASE EvalThrows
    BY <2>9 DEF AnswerMoves, Evaluates
  <2>10. CASE EvalUnparsed
    BY <2>10 DEF AnswerMoves, Evaluates
  <2>11. CASE TestSelfDestruct
    BY <2>11 DEF AnswerQuiet, IInv, TypeOK, TestSelfDestruct, EOnly, EFrame, qvars,
       evaluator, hvars
  <2>12. CASE CancelReset
    BY <2>12 DEF AnswerQuiet, IInv, TypeOK, CancelReset, EFrame, evaluator, hvars
  <2>13. CASE JoinPoll
    BY <2>13 DEF AnswerQuiet, IInv, TypeOK, JoinPoll, EOnly, EFrame, qvars, evaluator, hvars
  <2>14. CASE Drain
    BY <2>14 DEF AnswerQuiet, IInv, TypeOK, Drain, GoPoll, EFrame, qvars, evaluator, hvars
  <2>15. CASE DrainPoll
    BY <2>15 DEF AnswerQuiet, IInv, TypeOK, DrainPoll, GoPoll, EFrame, qvars, evaluator,
       hvars
  <2>16. CASE DrainPop
    BY <2>16 DEF AnswerQuiet, IInv, TypeOK, DrainPop, EFrame, evaluator, hvars
  <2>17. CASE UnsetShell
    BY <2>17 DEF AnswerQuiet, IInv, TypeOK, UnsetShell, EFrame, qvars, evaluator, hvars
  <2> QED
    BY <1>3, <2>1, <2>2, <2>3, <2>4, <2>5, <2>6, <2>7, <2>8, <2>9, <2>10, <2>11, <2>12,
       <2>13, <2>14, <2>15, <2>16, <2>17 DEF EvalMoves
<1>4. ASSUME PollMoves PROVE AnswerQuiet \/ AnswerMoves
  <2>1. CASE InitDone
    BY <2>1 DEF AnswerQuiet, IInv, TypeOK, InitDone, PFrame, hvars, evars, qvars, flags,
       evaluator, hist
  <2>2. CASE LockPoll
    BY <2>2 DEF AnswerQuiet, IInv, TypeOK, LockPoll, PFrame, hvars, evars, qvars, flags,
       evaluator, hist
  <2>3. CASE PollLoop
    BY <2>3 DEF AnswerQuiet, IInv, TypeOK, PollLoop, GoPoll, PFrame, hvars, evars, qvars,
       flags, evaluator, hist
  <2>4. CASE PollAgain
    BY <2>4 DEF AnswerQuiet, IInv, TypeOK, PollAgain, GoPoll, PFrame, hvars, evars, qvars,
       flags, evaluator, hist
  <2>5. CASE WaitPoll
    BY <2>5 DEF AnswerQuiet, IInv, TypeOK, WaitPoll, PFrame, hvars, evars, qvars, flags,
       evaluator, hist
  <2>6. CASE PollLast
    BY <2>6 DEF AnswerQuiet, IInv, TypeOK, PollLast, GoPoll, PFrame, hvars, evars, qvars,
       flags, evaluator, hist
  <2> QED
    BY <1>4, <2>1, <2>2, <2>3, <2>4, <2>5, <2>6 DEF PollMoves
<1> QED
  BY <1>1, <1>2, <1>3, <1>4 DEF Step

\* A step that leaves the answers alone keeps their order.
LEMMA AnswerQuietStep ==
  ASSUME IInv, AnswerQuiet
  PROVE  Answers'
<1>1. AnswerLines'
  BY DEF AnswerQuiet, IInv, Answers, AnswerLines, Members
<1>2. NoRepeat' <=> NoRepeat
  BY DEF AnswerQuiet, NoRepeat, Members
<1>3. NoRepeat => AnswersInOrder' /\ Sending' /\ (ready' => Newer(answer)')
  BY DEF AnswerQuiet, IInv, Answers, AnswersInOrder, Sending, Newer
<1> QED
  BY <1>1, <1>2, <1>3 DEF Answers

\* One thread polls at a time.
LEMMA OnePoller ==
  ASSUME IInv, NEW t \in {"E", "P"}, poll[t] # "idle"
  PROVE  \A x \in {"E", "P"} : x # t => poll[x] = "idle"
  BY DEF IInv, Leaving, DrainPCs

\* The answer is taken: it is newer than all that were sent.
LEMMA TakeStep ==
  ASSUME IInv, NEW t \in {"E", "P"}, poll[t] = "result", UNCHANGED <<answer, delivered, evaluated, script, kind>>,
         \/ ready /\ got' = [got EXCEPT ![t] = answer] /\ ready' = FALSE
         \/ got' = [got EXCEPT ![t] = 0] /\ (ready' => ready) /\ poll'[t] # "send"
         \/ got' = [got EXCEPT ![t] = 0] /\ ready' = FALSE,
         \A x \in {"E", "P"} : x # t => poll'[x] = poll[x]
  PROVE  Answers'
<1>1. \A x \in {"E", "P"} : x # t => poll'[x] = "idle" /\ got'[x] = got[x]
  BY OnePoller DEF IInv, TypeOK
<1>2. \/ ready /\ got'[t] = answer /\ ~ready'
      \/ got'[t] = 0 /\ (ready' => ready) /\ poll'[t] # "send"
      \/ got'[t] = 0 /\ ~ready'
  BY DEF IInv, TypeOK
<1>3. AnswerLines'
  BY <1>1, <1>2 DEF IInv, Answers, AnswerLines, Members
<1>4. NoRepeat' <=> NoRepeat
  BY DEF NoRepeat, Members
<1>5. ASSUME NoRepeat PROVE AnswersInOrder' /\ Sending' /\ (ready' => Newer(answer)')
  <2>1. AnswersInOrder'
    BY <1>5 DEF IInv, Answers, AnswersInOrder
  <2>2. Sending'
    BY <1>1, <1>2, <1>5 DEF IInv, Answers, Sending, Newer
  <2>3. ready' => Newer(answer)'
    BY <1>1, <1>2, <1>5 DEF IInv, Answers, Newer
  <2> QED
    BY <2>1, <2>2, <2>3
<1> QED
  BY <1>3, <1>4, <1>5 DEF Answers

\* An answer that is sent is later than those sent before it.
LEMMA SendStep ==
  ASSUME IInv, NEW t \in {"E", "P"}, PollSend(t)
  PROVE  Answers'
<1>0. PICK g : g = got[t]
  OBVIOUS
<1>1. /\ poll[t] = "send" /\ poll' = [poll EXCEPT ![t] = "idle"]
      /\ delivered' = (IF g = 0 THEN delivered ELSE Append(delivered, g))
      /\ UNCHANGED <<answer, got, ready, evaluated, script, kind>>
  BY <1>0 DEF PollSend, GoPoll, PollFrame, hvars
<1>2. \A x \in {"E", "P"} : poll'[x] # "send"
  BY <1>1, OnePoller DEF IInv, TypeOK
<1>3. g \in Nat /\ (g # 0 => g \in Lines) /\ delivered \in Seq(Lines) /\ Len(script) \in Nat
  <2>1. Len(script) \in Nat /\ g \in 0..Len(script) /\ delivered \in Seq(Lines)
    BY <1>0, ScriptDomain DEF IInv, TypeOK
  <2> QED
    BY <2>1 DEF Lines
<1>4. CASE g = 0
  <2>1. delivered' = delivered
    BY <1>1, <1>4
  <2>2. AnswerLines'
    BY <1>1, <2>1 DEF IInv, Answers, AnswerLines, Members
  <2>3. NoRepeat => AnswersInOrder' /\ Sending' /\ (ready' => Newer(answer)')
    BY <1>1, <1>2, <2>1 DEF IInv, Answers, AnswersInOrder, Sending, Newer
  <2> QED
    BY <1>1, <2>2, <2>3 DEF Answers, NoRepeat, Members
<1>5. CASE g # 0
  <2> DEFINE n == Len(delivered) + 1
  <2>1. /\ delivered'[n] = g /\ DOMAIN delivered' = DOMAIN delivered \cup {n}
        /\ \A k \in DOMAIN delivered : delivered'[k] = delivered[k] /\ k \in Nat /\ k < n
        /\ n \in Nat
    BY <1>1, <1>3, <1>5, AppendFacts
  <2> HIDE DEF n
  <2>2. g \in Members(evaluated)
    BY <1>0, <1>5 DEF IInv, Answers, AnswerLines
  <2>3. AnswerLines'
    <3>1. Members(delivered)' = Members(delivered) \cup {g}
      BY <2>1 DEF Members
    <3> QED
      BY <1>1, <2>2, <3>1 DEF IInv, Answers, AnswerLines, Members
  <2>4. ASSUME NoRepeat PROVE AnswersInOrder' /\ Sending' /\ (ready' => Newer(answer)')
    <3>1. \A k \in DOMAIN delivered : delivered[k] < g
      BY <1>0, <1>1, <1>5, <2>4 DEF IInv, Answers, Sending
    <3>2. AnswersInOrder'
      BY <2>1, <2>4, <3>1 DEF IInv, Answers, AnswersInOrder, NoRepeat
    <3>3. ready' => Newer(answer)'
      BY <1>0, <1>1, <1>2, <2>1, <2>4 DEF IInv, Answers, Newer
    <3> QED
      BY <1>2, <3>2, <3>3 DEF Sending
  <2> QED
    BY <1>1, <2>3, <2>4 DEF Answers, NoRepeat, Members
<1> QED
  BY <1>4, <1>5

\* A new answer is newer than all others.
LEMMA EvaluateAnswer ==
  ASSUME IInv, ~crashed, Evaluates
  PROVE  Answers'
<1>1. /\ epc = "eval" /\ UNCHANGED <<got, poll, delivered, script, kind>>
      /\ answer' = in \/ (answer' = answer /\ (ready' => ready))
  BY DEF Evaluates, EvalExpr, EvalTop, EvalThrows, EvalUnparsed, EFrame, hvars
<1>2. Members(evaluated)' = Members(evaluated) \cup {in} /\ in # 0
  BY EvaluatedMembers, NumberTypes, ScriptDomain DEF IInv, Lines
<1>3. AnswerLines'
  BY <1>1, <1>2 DEF IInv, Answers, AnswerLines, Members
<1>4. \A i \in Members(evaluated) \cup {0} : i < in
  BY <1>1, <1>2, NumberTypes DEF Members, IInv, Order, WorkBetween, InWork
<1>5. Newer(in)
  <2>1. \A k \in DOMAIN delivered : delivered[k] \in Members(evaluated)
    BY DEF IInv, Answers, AnswerLines, Members
  <2>2. \A t \in {"E", "P"} : got[t] \in Members(evaluated) \cup {0}
    BY DEF IInv, Answers, AnswerLines
  <2> QED
    BY <1>4, <2>1, <2>2 DEF Newer
<1>6. ASSUME NoRepeat PROVE AnswersInOrder' /\ Sending' /\ (ready' => Newer(answer)')
  <2>1. AnswersInOrder' /\ Sending'
    BY <1>1, <1>6 DEF IInv, Answers, AnswersInOrder, Sending
  <2>2. ready' => Newer(answer)'
    BY <1>1, <1>5, <1>6 DEF IInv, Answers, Newer
  <2> QED
    BY <2>1, <2>2
<1> QED
  BY <1>1, <1>3, <1>6 DEF Answers, NoRepeat, Members

\* An interrupt makes only McpEval repeat an answer.
LEMMA InterruptAnswer ==
  ASSUME IInv, InterruptEvaluator
  PROVE  Answers'
<1>1. /\ hpc = "interrupt" /\ UNCHANGED <<answer, got, poll, delivered, evaluated, script, kind>>
      /\ ready' = (IF kind = "mcp" THEN answer # 0 ELSE ready)
  BY DEF InterruptEvaluator, TopFrame, polls
<1>2. AnswerLines'
  BY <1>1 DEF IInv, Answers, AnswerLines, Members
<1>3. NoRepeat => ready' = ready
  BY <1>1 DEF IInv, Interrupted, NoRepeat
<1>4. NoRepeat => AnswersInOrder' /\ Sending' /\ (ready' => Newer(answer)')
  BY <1>1, <1>3 DEF IInv, Answers, AnswersInOrder, Sending, Newer
<1> QED
  BY <1>1, <1>2, <1>4 DEF Answers, NoRepeat, Members

\* Every step keeps the answers in order.
LEMMA AnswersStep ==
  ASSUME IInv, ~crashed, Step
  PROVE  Answers'
<1>1. ASSUME NEW t \in {"E", "P"}, PollResult(t) PROVE Answers'
  BY <1>1, TakeStep DEF PollResult, GoPoll, PollFrame, hvars, IInv, TypeOK
<1>2. ASSUME NEW t \in {"E", "P"}, PollDisplay(t) PROVE Answers'
  BY <1>2, TakeStep DEF PollDisplay, GoPoll, PollFrame, hvars, IInv, TypeOK
<1> QED
  BY <1>1, <1>2, AnswerSteps, AnswerQuietStep, SendStep, EvaluateAnswer,
     InterruptAnswer DEF AnswerMoves

-----------------------------------------------------------------------------
(* Types. *)

Places ==
  /\ hpc \in HandlerPCs /\ epc \in EvalPCs /\ ppc \in PollPCs
  /\ poll \in [{"E", "P"} -> {"idle", "pending", "result", "send", "done", "finish"}]
Numbers ==
  /\ <<script, kind>> \in Sessions /\ lines \in 0..Len(script)
  /\ in \in 0..Len(script) /\ got \in [{"E", "P"} -> 0..Len(script)]
  /\ queue \in Seq(0..Len(script)) /\ answer \in 0..Len(script)
  /\ evaluated \in Seq(Lines) /\ delivered \in Seq(Lines) /\ discarded \subseteq Lines
Switches ==
  /\ draining \in BOOLEAN /\ canceled \in BOOLEAN /\ initDone \in BOOLEAN
  /\ selfDestruct \in BOOLEAN /\ evalDone \in BOOLEAN
  /\ pollLock \in BOOLEAN /\ pending \in BOOLEAN /\ hasShell \in BOOLEAN
  /\ busy \in BOOLEAN /\ ready \in BOOLEAN /\ halted \in BOOLEAN /\ crashed \in BOOLEAN

\* The type invariant in three parts.
LEMMA TypeParts == TypeOK <=> Places /\ Numbers /\ Switches
  BY DEF TypeOK, Places, Numbers, Switches

\* Type correctness: program counters and the evaluator.
LEMMA PlacesStep ==
  ASSUME IInv, ~crashed, Step
  PROVE  Places'
<1>0. Places
  BY TypeParts DEF IInv
<1>1. ASSUME NEW t \in {"E", "P"}, Poll(t) PROVE Places'
  <2>1. CASE PollPending(t)
    BY <2>1, <1>0 DEF Places, HandlerPCs, EvalPCs, PollPCs, PollPending, PollFrame, GoPoll,
       hvars, evars, pvars, qvars
  <2>2. CASE PollResult(t)
    BY <2>2, <1>0 DEF Places, HandlerPCs, EvalPCs, PollPCs, PollResult, PollFrame, GoPoll,
       hvars, evars, pvars, qvars
  <2>3. CASE PollDisplay(t)
    BY <2>3, <1>0 DEF Places, HandlerPCs, EvalPCs, PollPCs, PollDisplay, PollFrame, GoPoll,
       hvars, evars, pvars, qvars
  <2>4. CASE PollSend(t)
    BY <2>4, <1>0 DEF Places, HandlerPCs, EvalPCs, PollPCs, PollSend, PollFrame, GoPoll,
       hvars, evars, pvars, qvars
  <2>5. CASE PollDone(t)
    BY <2>5, <1>0 DEF Places, HandlerPCs, EvalPCs, PollPCs, PollDone, PollFrame, GoPoll,
       hvars, evars, pvars, qvars
  <2>6. CASE PollFinish(t)
    BY <2>6, <1>0 DEF Places, HandlerPCs, EvalPCs, PollPCs, PollFinish, PollFrame, GoPoll,
       hvars, evars, pvars, qvars
  <2> QED
    BY <1>1, <2>1, <2>2, <2>3, <2>4, <2>5, <2>6 DEF Poll
<1>2. ASSUME HandlerMoves PROVE Places'
  <2>1. CASE ReadLine
    BY <2>1, <1>0 DEF Places, HandlerPCs, EvalPCs, PollPCs, ReadLine, HFrame, LinePC,
       qvars, flags, TopFrame, polls
  <2>2. CASE Disconnect
    BY <2>2, <1>0 DEF Places, HandlerPCs, EvalPCs, PollPCs, Disconnect, HOnly, HFrame,
       qvars, flags, TopFrame, polls
  <2>3. CASE AwaitInit
    BY <2>3, <1>0 DEF Places, HandlerPCs, EvalPCs, PollPCs, AwaitInit, HOnly, LinePC,
       HFrame, qvars, flags, TopFrame, polls
  <2>4. CASE HaltDisplay
    BY <2>4, <1>0 DEF Places, HandlerPCs, EvalPCs, PollPCs, HaltDisplay, TopFrame, qvars,
       flags, polls
  <2>5. CASE Enqueue
    BY <2>5, <1>0 DEF Places, HandlerPCs, EvalPCs, PollPCs, Enqueue, HFrame, flags,
       TopFrame, polls
  <2>6. CASE AnswerTelnet
    BY <2>6, <1>0 DEF Places, HandlerPCs, EvalPCs, PollPCs, AnswerTelnet, HFrame,
       put_output, qvars, flags, TopFrame, polls
  <2>7. CASE Interrupt
    BY <2>7, <1>0 DEF Places, HandlerPCs, EvalPCs, PollPCs, Interrupt, HFrame, put_output,
       qvars, flags, TopFrame, polls
  <2>8. CASE QuitTop
    BY <2>8, <1>0 DEF Places, HandlerPCs, EvalPCs, PollPCs, QuitTop, HFrame, qvars,
       TopFrame, polls
  <2>9. CASE DiscardJunk
    BY <2>9, <1>0 DEF Places, HandlerPCs, EvalPCs, PollPCs, DiscardJunk, HFrame, flags,
       TopFrame, polls
  <2>10. CASE TestEvaluator
    BY <2>10, <1>0 DEF Places, HandlerPCs, EvalPCs, PollPCs, TestEvaluator, HOnly, HFrame,
       qvars, flags, TopFrame, polls
  <2>11. CASE InterruptEvaluator
    BY <2>11, <1>0 DEF Places, HandlerPCs, EvalPCs, PollPCs, InterruptEvaluator, TopFrame,
       qvars, flags, polls
  <2>12. CASE PutAbortPrompt
    BY <2>12, <1>0 DEF Places, HandlerPCs, EvalPCs, PollPCs, PutAbortPrompt, HFrame,
       put_output, qvars, flags, TopFrame, polls
  <2>13. CASE FinishInterrupted
    BY <2>13, <1>0 DEF Places, HandlerPCs, EvalPCs, PollPCs, FinishInterrupted, HFrame,
       qvars, TopFrame, polls
  <2>14. CASE LeaveShell
    BY <2>14, <1>0 DEF Places, HandlerPCs, EvalPCs, PollPCs, LeaveShell, HFrame, qvars,
       TopFrame, polls
  <2>15. CASE CancelQueue
    BY <2>15, <1>0 DEF Places, HandlerPCs, EvalPCs, PollPCs, CancelQueue, HFrame,
       put_output, flags, TopFrame, polls
  <2>16. CASE EndOfEval
    BY <2>16, <1>0 DEF Places, HandlerPCs, EvalPCs, PollPCs, EndOfEval, HOnly, HFrame,
       qvars, flags, TopFrame, polls
  <2>17. CASE SetSelfDestruct
    BY <2>17, <1>0 DEF Places, HandlerPCs, EvalPCs, PollPCs, SetSelfDestruct, HFrame,
       qvars, TopFrame, polls
  <2>18. CASE PushSentinel
    BY <2>18, <1>0 DEF Places, HandlerPCs, EvalPCs, PollPCs, PushSentinel, HFrame, flags,
       TopFrame, polls
  <2>19. CASE JoinEval
    BY <2>19, <1>0 DEF Places, HandlerPCs, EvalPCs, PollPCs, JoinEval, HOnly, HFrame,
       qvars, flags, TopFrame, polls
  <2> QED
    BY <1>2, <2>1, <2>2, <2>3, <2>4, <2>5, <2>6, <2>7, <2>8, <2>9, <2>10, <2>11, <2>12,
       <2>13, <2>14, <2>15, <2>16, <2>17, <2>18, <2>19 DEF HandlerMoves, Handle
<1>3. ASSUME EvalMoves PROVE Places'
  <2>1. CASE StartPoll
    BY <2>1, <1>0 DEF Places, HandlerPCs, EvalPCs, PollPCs, StartPoll, EFrame, qvars,
       evaluator, hvars
  <2>2. CASE WhileNotDone
    BY <2>2, <1>0 DEF Places, HandlerPCs, EvalPCs, PollPCs, WhileNotDone, EOnly, EFrame,
       qvars, evaluator, hvars
  <2>3. CASE WakePoll
    BY <2>3, <1>0 DEF Places, HandlerPCs, EvalPCs, PollPCs, WakePoll, EOnly, EFrame, qvars,
       evaluator, hvars
  <2>4. CASE Pop
    BY <2>4, <1>0 DEF Places, HandlerPCs, EvalPCs, PollPCs, Pop, EFrame, evaluator, hvars
  <2>5. CASE StartEval
    BY <2>5, <1>0 DEF Places, HandlerPCs, EvalPCs, PollPCs, StartEval, EFrame, qvars,
       evaluator, hvars
  <2>6. CASE BeginEval
    BY <2>6, <1>0 DEF Places, HandlerPCs, EvalPCs, PollPCs, BeginEval, EFrame, qvars, hvars
  <2>7. CASE EvalExpr
    BY <2>7, <1>0 DEF Places, HandlerPCs, EvalPCs, PollPCs, EvalExpr, EFrame, qvars, hvars
  <2>8. CASE EvalTop
    BY <2>8, <1>0 DEF Places, HandlerPCs, EvalPCs, PollPCs, EvalTop, EFrame, qvars, hvars
  <2>9. CASE EvalThrows
    BY <2>9, <1>0 DEF Places, HandlerPCs, EvalPCs, PollPCs, EvalThrows, EFrame, qvars, hvars
  <2>10. CASE EvalUnparsed
    BY <2>10, <1>0 DEF Places, HandlerPCs, EvalPCs, PollPCs, EvalUnparsed, EFrame, qvars,
       hvars
  <2>11. CASE TestSelfDestruct
    BY <2>11, <1>0 DEF Places, HandlerPCs, EvalPCs, PollPCs, TestSelfDestruct, EOnly,
       EFrame, qvars, evaluator, hvars
  <2>12. CASE CancelReset
    BY <2>12, <1>0 DEF Places, HandlerPCs, EvalPCs, PollPCs, CancelReset, EFrame,
       evaluator, hvars
  <2>13. CASE JoinPoll
    BY <2>13, <1>0 DEF Places, HandlerPCs, EvalPCs, PollPCs, JoinPoll, EOnly, EFrame,
       qvars, evaluator, hvars
  <2>14. CASE Drain
    BY <2>14, <1>0 DEF Places, HandlerPCs, EvalPCs, PollPCs, Drain, GoPoll, EFrame, qvars,
       evaluator, hvars
  <2>15. CASE DrainPoll
    BY <2>15, <1>0 DEF Places, HandlerPCs, EvalPCs, PollPCs, DrainPoll, GoPoll, EFrame,
       qvars, evaluator, hvars
  <2>16. CASE DrainPop
    BY <2>16, <1>0 DEF Places, HandlerPCs, EvalPCs, PollPCs, DrainPop, EFrame, evaluator,
       hvars
  <2>17. CASE UnsetShell
    BY <2>17, <1>0 DEF Places, HandlerPCs, EvalPCs, PollPCs, UnsetShell, EFrame, qvars,
       evaluator, hvars
  <2> QED
    BY <1>3, <2>1, <2>2, <2>3, <2>4, <2>5, <2>6, <2>7, <2>8, <2>9, <2>10, <2>11, <2>12,
       <2>13, <2>14, <2>15, <2>16, <2>17 DEF EvalMoves
<1>4. ASSUME PollMoves PROVE Places'
  <2>1. CASE InitDone
    BY <2>1, <1>0 DEF Places, HandlerPCs, EvalPCs, PollPCs, InitDone, PFrame, hvars, evars,
       qvars, flags, evaluator, hist
  <2>2. CASE LockPoll
    BY <2>2, <1>0 DEF Places, HandlerPCs, EvalPCs, PollPCs, LockPoll, PFrame, hvars, evars,
       qvars, flags, evaluator, hist
  <2>3. CASE PollLoop
    BY <2>3, <1>0 DEF Places, HandlerPCs, EvalPCs, PollPCs, PollLoop, GoPoll, PFrame,
       hvars, evars, qvars, flags, evaluator, hist
  <2>4. CASE PollAgain
    BY <2>4, <1>0 DEF Places, HandlerPCs, EvalPCs, PollPCs, PollAgain, GoPoll, PFrame,
       hvars, evars, qvars, flags, evaluator, hist
  <2>5. CASE WaitPoll
    BY <2>5, <1>0 DEF Places, HandlerPCs, EvalPCs, PollPCs, WaitPoll, PFrame, hvars, evars,
       qvars, flags, evaluator, hist
  <2>6. CASE PollLast
    BY <2>6, <1>0 DEF Places, HandlerPCs, EvalPCs, PollPCs, PollLast, GoPoll, PFrame,
       hvars, evars, qvars, flags, evaluator, hist
  <2> QED
    BY <1>4, <2>1, <2>2, <2>3, <2>4, <2>5, <2>6 DEF PollMoves
<1> QED
  BY <1>1, <1>2, <1>3, <1>4 DEF Step

\* Type correctness: the flags.
LEMMA SwitchesStep ==
  ASSUME IInv, ~crashed, Step
  PROVE  Switches'
<1>0. Switches
  BY TypeParts DEF IInv
<1>1. ASSUME NEW t \in {"E", "P"}, Poll(t) PROVE Switches'
  <2>1. CASE PollPending(t)
    BY <2>1, <1>0, Zenon DEF Switches, PollPending, PollFrame, GoPoll, hvars, evars, pvars,
       qvars
  <2>2. CASE PollResult(t)
    BY <2>2, <1>0, Zenon DEF Switches, PollResult, PollFrame, GoPoll, hvars, evars, pvars,
       qvars
  <2>3. CASE PollDisplay(t)
    BY <2>3, <1>0, Zenon DEF Switches, PollDisplay, PollFrame, GoPoll, hvars, evars, pvars,
       qvars
  <2>4. CASE PollSend(t)
    BY <2>4, <1>0, Zenon DEF Switches, PollSend, PollFrame, GoPoll, hvars, evars, pvars,
       qvars
  <2>5. CASE PollDone(t)
    BY <2>5, <1>0, Zenon DEF Switches, PollDone, PollFrame, GoPoll, hvars, evars, pvars,
       qvars
  <2>6. CASE PollFinish(t)
    BY <2>6, <1>0, Zenon DEF Switches, PollFinish, PollFrame, GoPoll, hvars, evars, pvars,
       qvars
  <2> QED
    BY <1>1, <2>1, <2>2, <2>3, <2>4, <2>5, <2>6 DEF Poll
<1>2. ASSUME HandlerMoves PROVE Switches'
  <2>1. CASE ReadLine
    BY <2>1, <1>0, Zenon DEF Switches, ReadLine, HFrame, LinePC, qvars, flags, TopFrame,
       polls
  <2>2. CASE Disconnect
    BY <2>2, <1>0, Zenon DEF Switches, Disconnect, HOnly, HFrame, qvars, flags, TopFrame,
       polls
  <2>3. CASE AwaitInit
    BY <2>3, <1>0, Zenon DEF Switches, AwaitInit, HOnly, LinePC, HFrame, qvars, flags,
       TopFrame, polls
  <2>4. CASE HaltDisplay
    BY <2>4, <1>0, Zenon DEF Switches, HaltDisplay, TopFrame, qvars, flags, polls
  <2>5. CASE Enqueue
    BY <2>5, <1>0, Zenon DEF Switches, Enqueue, HFrame, flags, TopFrame, polls
  <2>6. CASE AnswerTelnet
    BY <2>6, <1>0, Zenon DEF Switches, AnswerTelnet, HFrame, put_output, qvars, flags,
       TopFrame, polls
  <2>7. CASE Interrupt
    BY <2>7, <1>0, Zenon DEF Switches, Interrupt, HFrame, put_output, qvars, flags,
       TopFrame, polls
  <2>8. CASE QuitTop
    BY <2>8, <1>0, Zenon DEF Switches, QuitTop, HFrame, qvars, TopFrame, polls
  <2>9. CASE DiscardJunk
    BY <2>9, <1>0, Zenon DEF Switches, DiscardJunk, HFrame, flags, TopFrame, polls
  <2>10. CASE TestEvaluator
    BY <2>10, <1>0, Zenon DEF Switches, TestEvaluator, HOnly, HFrame, qvars, flags,
       TopFrame, polls
  <2>11. CASE InterruptEvaluator
    BY <2>11, <1>0, Zenon DEF Switches, InterruptEvaluator, TopFrame, qvars, flags, polls
  <2>12. CASE PutAbortPrompt
    BY <2>12, <1>0, Zenon DEF Switches, PutAbortPrompt, HFrame, put_output, qvars, flags,
       TopFrame, polls
  <2>13. CASE FinishInterrupted
    BY <2>13, <1>0, Zenon DEF Switches, FinishInterrupted, HFrame, qvars, TopFrame, polls
  <2>14. CASE LeaveShell
    BY <2>14, <1>0, Zenon DEF Switches, LeaveShell, HFrame, qvars, TopFrame, polls
  <2>15. CASE CancelQueue
    BY <2>15, <1>0, Zenon DEF Switches, CancelQueue, HFrame, put_output, flags, TopFrame,
       polls
  <2>16. CASE EndOfEval
    BY <2>16, <1>0, Zenon DEF Switches, EndOfEval, HOnly, HFrame, qvars, flags, TopFrame,
       polls
  <2>17. CASE SetSelfDestruct
    BY <2>17, <1>0, Zenon DEF Switches, SetSelfDestruct, HFrame, qvars, TopFrame, polls
  <2>18. CASE PushSentinel
    BY <2>18, <1>0, Zenon DEF Switches, PushSentinel, HFrame, flags, TopFrame, polls
  <2>19. CASE JoinEval
    BY <2>19, <1>0, Zenon DEF Switches, JoinEval, HOnly, HFrame, qvars, flags, TopFrame,
       polls
  <2> QED
    BY <1>2, <2>1, <2>2, <2>3, <2>4, <2>5, <2>6, <2>7, <2>8, <2>9, <2>10, <2>11, <2>12,
       <2>13, <2>14, <2>15, <2>16, <2>17, <2>18, <2>19 DEF HandlerMoves, Handle
<1>3. ASSUME EvalMoves PROVE Switches'
  <2>1. CASE StartPoll
    BY <2>1, <1>0, Zenon DEF Switches, StartPoll, EFrame, qvars, evaluator, hvars
  <2>2. CASE WhileNotDone
    BY <2>2, <1>0, Zenon DEF Switches, WhileNotDone, EOnly, EFrame, qvars, evaluator, hvars
  <2>3. CASE WakePoll
    BY <2>3, <1>0, Zenon DEF Switches, WakePoll, EOnly, EFrame, qvars, evaluator, hvars
  <2>4. CASE Pop
    BY <2>4, <1>0, Zenon DEF Switches, Pop, EFrame, evaluator, hvars
  <2>5. CASE StartEval
    BY <2>5, <1>0, Zenon DEF Switches, StartEval, EFrame, qvars, evaluator, hvars
  <2>6. CASE BeginEval
    BY <2>6, <1>0, Zenon DEF Switches, BeginEval, EFrame, qvars, hvars
  <2>7. CASE EvalExpr
    BY <2>7, <1>0, Zenon DEF Switches, EvalExpr, EFrame, qvars, hvars
  <2>8. CASE EvalTop
    BY <2>8, <1>0, Zenon DEF Switches, EvalTop, EFrame, qvars, hvars
  <2>9. CASE EvalThrows
    BY <2>9, <1>0, Zenon DEF Switches, EvalThrows, EFrame, qvars, hvars
  <2>10. CASE EvalUnparsed
    BY <2>10, <1>0, Zenon DEF Switches, EvalUnparsed, EFrame, qvars, hvars
  <2>11. CASE TestSelfDestruct
    BY <2>11, <1>0, Zenon DEF Switches, TestSelfDestruct, EOnly, EFrame, qvars, evaluator,
       hvars
  <2>12. CASE CancelReset
    BY <2>12, <1>0, Zenon DEF Switches, CancelReset, EFrame, evaluator, hvars
  <2>13. CASE JoinPoll
    BY <2>13, <1>0, Zenon DEF Switches, JoinPoll, EOnly, EFrame, qvars, evaluator, hvars
  <2>14. CASE Drain
    BY <2>14, <1>0, Zenon DEF Switches, Drain, GoPoll, EFrame, qvars, evaluator, hvars
  <2>15. CASE DrainPoll
    BY <2>15, <1>0, Zenon DEF Switches, DrainPoll, GoPoll, EFrame, qvars, evaluator, hvars
  <2>16. CASE DrainPop
    BY <2>16, <1>0, Zenon DEF Switches, DrainPop, EFrame, evaluator, hvars
  <2>17. CASE UnsetShell
    BY <2>17, <1>0, Zenon DEF Switches, UnsetShell, EFrame, qvars, evaluator, hvars
  <2> QED
    BY <1>3, <2>1, <2>2, <2>3, <2>4, <2>5, <2>6, <2>7, <2>8, <2>9, <2>10, <2>11, <2>12,
       <2>13, <2>14, <2>15, <2>16, <2>17 DEF EvalMoves
<1>4. ASSUME PollMoves PROVE Switches'
  <2>1. CASE InitDone
    BY <2>1, <1>0, Zenon DEF Switches, InitDone, PFrame, hvars, evars, qvars, flags,
       evaluator, hist
  <2>2. CASE LockPoll
    BY <2>2, <1>0, Zenon DEF Switches, LockPoll, PFrame, hvars, evars, qvars, flags,
       evaluator, hist
  <2>3. CASE PollLoop
    BY <2>3, <1>0, Zenon DEF Switches, PollLoop, GoPoll, PFrame, hvars, evars, qvars,
       flags, evaluator, hist
  <2>4. CASE PollAgain
    BY <2>4, <1>0, Zenon DEF Switches, PollAgain, GoPoll, PFrame, hvars, evars, qvars,
       flags, evaluator, hist
  <2>5. CASE WaitPoll
    BY <2>5, <1>0, Zenon DEF Switches, WaitPoll, PFrame, hvars, evars, qvars, flags,
       evaluator, hist
  <2>6. CASE PollLast
    BY <2>6, <1>0, Zenon DEF Switches, PollLast, GoPoll, PFrame, hvars, evars, qvars,
       flags, evaluator, hist
  <2> QED
    BY <1>4, <2>1, <2>2, <2>3, <2>4, <2>5, <2>6 DEF PollMoves
<1> QED
  BY <1>1, <1>2, <1>3, <1>4 DEF Step

\* Type correctness: lines, queue and answers.
LEMMA NumbersStep ==
  ASSUME IInv, ~crashed, Step
  PROVE  Numbers'
<1>0. Numbers /\ Len(script) \in Nat
  BY TypeParts, ScriptDomain DEF IInv
<1>1. ASSUME NEW t \in {"E", "P"}, Poll(t) PROVE Numbers'
  <2>1. CASE PollPending(t)
    BY <2>1, <1>0 DEF Numbers, Lines, PollPending, PollFrame, GoPoll, hvars, evars, pvars,
       qvars
  <2>2. CASE PollResult(t)
    BY <2>2, <1>0 DEF Numbers, Lines, PollResult, PollFrame, GoPoll, hvars, evars, pvars,
       qvars
  <2>3. CASE PollDisplay(t)
    BY <2>3, <1>0 DEF Numbers, Lines, PollDisplay, PollFrame, GoPoll, hvars, evars, pvars,
       qvars
  <2>4. CASE PollSend(t)
    <3>1. Lines' = Lines /\ (got[t] # 0 => got[t] \in Lines) /\ delivered \in Seq(Lines)
      BY <2>4, <1>0 DEF Numbers, Lines, PollSend, PollFrame, hvars
    <3>2. delivered' \in Seq(Lines)
      BY <2>4, <3>1, AppendFacts DEF PollSend
    <3> QED
      BY <2>4, <1>0, <3>1, <3>2 DEF Numbers, PollSend, PollFrame, hvars, evars, qvars
  <2>5. CASE PollDone(t)
    BY <2>5, <1>0 DEF Numbers, Lines, PollDone, PollFrame, GoPoll, hvars, evars, pvars,
       qvars
  <2>6. CASE PollFinish(t)
    BY <2>6, <1>0 DEF Numbers, Lines, PollFinish, PollFrame, GoPoll, hvars, evars, pvars,
       qvars
  <2> QED
    BY <1>1, <2>1, <2>2, <2>3, <2>4, <2>5, <2>6 DEF Poll
<1>2. ASSUME HandlerMoves PROVE Numbers'
  <2>1. CASE ReadLine
    BY <2>1, <1>0 DEF Numbers, Lines, ReadLine, HFrame, LinePC, qvars, flags, TopFrame,
       polls
  <2>2. CASE Disconnect
    BY <2>2, <1>0 DEF Numbers, Lines, Disconnect, HOnly, HFrame, qvars, flags, TopFrame,
       polls
  <2>3. CASE AwaitInit
    BY <2>3, <1>0 DEF Numbers, Lines, AwaitInit, HOnly, LinePC, HFrame, qvars, flags,
       TopFrame, polls
  <2>4. CASE HaltDisplay
    BY <2>4, <1>0 DEF Numbers, Lines, HaltDisplay, TopFrame, qvars, flags, polls
  <2>5. CASE Enqueue
    <3>1. queue' = queue \/ queue' = Append(queue, lines)
      BY <2>5 DEF Enqueue
    <3>2. queue \in Seq(0..Len(script)) /\ lines \in 0..Len(script)
      BY <1>0 DEF Numbers
    <3>3. queue' \in Seq(0..Len(script))
      BY <3>1, <3>2, AppendFacts
    <3> QED
      BY <2>5, <1>0, <3>3 DEF Numbers, Lines, Enqueue, HFrame, TopFrame, polls
  <2>6. CASE AnswerTelnet
    BY <2>6, <1>0 DEF Numbers, Lines, AnswerTelnet, HFrame, put_output, qvars, flags,
       TopFrame, polls
  <2>7. CASE Interrupt
    BY <2>7, <1>0 DEF Numbers, Lines, Interrupt, HFrame, put_output, qvars, flags,
       TopFrame, polls
  <2>8. CASE QuitTop
    BY <2>8, <1>0 DEF Numbers, Lines, QuitTop, HFrame, qvars, TopFrame, polls
  <2>9. CASE DiscardJunk
    <3>1. Head(queue) \in 0..Len(script) /\ queue' \in Seq(0..Len(script))
      BY <2>9, <1>0, TailFacts DEF Numbers, DiscardJunk
    <3>2. discarded \subseteq 1..Len(script) /\ {Head(queue)} \ {0} \subseteq 1..Len(script)
      <4>1. \A i \in 0..Len(script) : i # 0 => i \in 1..Len(script)
        BY <1>0
      <4> QED
        BY <1>0, <3>1, <4>1 DEF Numbers, Lines
    <3>3. discarded' \subseteq 1..Len(script)
      BY <2>9, <3>2 DEF DiscardJunk
    <3> QED
      BY <2>9, <1>0, <3>1, <3>3 DEF Numbers, Lines, DiscardJunk, HFrame, TopFrame, polls
  <2>10. CASE TestEvaluator
    BY <2>10, <1>0 DEF Numbers, Lines, TestEvaluator, HOnly, HFrame, qvars, flags,
       TopFrame, polls
  <2>11. CASE InterruptEvaluator
    BY <2>11, <1>0 DEF Numbers, Lines, InterruptEvaluator, TopFrame, qvars, flags, polls
  <2>12. CASE PutAbortPrompt
    BY <2>12, <1>0 DEF Numbers, Lines, PutAbortPrompt, HFrame, put_output, qvars, flags,
       TopFrame, polls
  <2>13. CASE FinishInterrupted
    BY <2>13, <1>0 DEF Numbers, Lines, FinishInterrupted, HFrame, qvars, TopFrame, polls
  <2>14. CASE LeaveShell
    BY <2>14, <1>0 DEF Numbers, Lines, LeaveShell, HFrame, qvars, TopFrame, polls
  <2>15. CASE CancelQueue
    BY <2>15, <1>0 DEF Numbers, Lines, CancelQueue, HFrame, put_output, flags, TopFrame,
       polls
  <2>16. CASE EndOfEval
    BY <2>16, <1>0 DEF Numbers, Lines, EndOfEval, HOnly, HFrame, qvars, flags, TopFrame,
       polls
  <2>17. CASE SetSelfDestruct
    BY <2>17, <1>0 DEF Numbers, Lines, SetSelfDestruct, HFrame, qvars, TopFrame, polls
  <2>18. CASE PushSentinel
    <3>1. queue' = queue \/ queue' = Append(queue, 0)
      BY <2>18 DEF PushSentinel
    <3>2. queue \in Seq(0..Len(script)) /\ 0 \in 0..Len(script)
      BY <1>0 DEF Numbers
    <3>3. queue' \in Seq(0..Len(script))
      BY <3>1, <3>2, AppendFacts
    <3> QED
      BY <2>18, <1>0, <3>3 DEF Numbers, Lines, PushSentinel, HFrame, TopFrame, polls
  <2>19. CASE JoinEval
    BY <2>19, <1>0 DEF Numbers, Lines, JoinEval, HOnly, HFrame, qvars, flags, TopFrame,
       polls
  <2> QED
    BY <1>2, <2>1, <2>2, <2>3, <2>4, <2>5, <2>6, <2>7, <2>8, <2>9, <2>10, <2>11, <2>12,
       <2>13, <2>14, <2>15, <2>16, <2>17, <2>18, <2>19 DEF HandlerMoves, Handle
<1>3. ASSUME EvalMoves PROVE Numbers'
  <2>1. CASE StartPoll
    BY <2>1, <1>0 DEF Numbers, Lines, StartPoll, EFrame, qvars, evaluator, hvars
  <2>2. CASE WhileNotDone
    BY <2>2, <1>0 DEF Numbers, Lines, WhileNotDone, EOnly, EFrame, qvars, evaluator, hvars
  <2>3. CASE WakePoll
    BY <2>3, <1>0 DEF Numbers, Lines, WakePoll, EOnly, EFrame, qvars, evaluator, hvars
  <2>4. CASE Pop
    <3>1. CASE canceled
      BY <2>4, <1>0, <3>1 DEF Numbers, Lines, Pop, EFrame, evaluator, hvars
    <3>2. CASE ~canceled
      <4>1. Head(queue) \in 0..Len(script) /\ queue' \in Seq(0..Len(script))
        BY <2>4, <1>0, <3>2, TailFacts DEF Numbers, Pop
      <4> QED
        BY <2>4, <1>0, <3>2, <4>1 DEF Numbers, Lines, Pop, EFrame, evaluator, hvars
    <3> QED
      BY <3>1, <3>2
  <2>5. CASE StartEval
    BY <2>5, <1>0 DEF Numbers, Lines, StartEval, EFrame, qvars, evaluator, hvars
  <2>6. CASE BeginEval
    BY <2>6, <1>0 DEF Numbers, Lines, BeginEval, EFrame, qvars, hvars
  <2>7. CASE EvalExpr
    <3>1. Lines' = Lines /\ in \in Lines /\ evaluated \in Seq(Lines)
      BY <2>7, <1>0, EvaluatedMembers DEF Numbers, Lines, Evaluates, EvalExpr, EFrame, hvars
    <3>2. evaluated' \in Seq(Lines)
      BY <2>7, <3>1, AppendFacts DEF EvalExpr
    <3> QED
      BY <2>7, <1>0, <3>1, <3>2 DEF Numbers, EvalExpr, EFrame, hvars, qvars
  <2>8. CASE EvalTop
    <3>1. Lines' = Lines /\ in \in Lines /\ evaluated \in Seq(Lines)
      BY <2>8, <1>0, EvaluatedMembers DEF Numbers, Lines, Evaluates, EvalTop, EFrame, hvars
    <3>2. evaluated' \in Seq(Lines)
      BY <2>8, <3>1, AppendFacts DEF EvalTop
    <3> QED
      BY <2>8, <1>0, <3>1, <3>2 DEF Numbers, EvalTop, EFrame, hvars, qvars
  <2>9. CASE EvalThrows
    <3>1. Lines' = Lines /\ in \in Lines /\ evaluated \in Seq(Lines)
      BY <2>9, <1>0, EvaluatedMembers DEF Numbers, Lines, Evaluates, EvalThrows, EFrame,
         hvars
    <3>2. evaluated' \in Seq(Lines)
      BY <2>9, <3>1, AppendFacts DEF EvalThrows
    <3> QED
      BY <2>9, <1>0, <3>1, <3>2 DEF Numbers, EvalThrows, EFrame, hvars, qvars
  <2>10. CASE EvalUnparsed
    <3>1. Lines' = Lines /\ in \in Lines /\ evaluated \in Seq(Lines)
      BY <2>10, <1>0, EvaluatedMembers DEF Numbers, Lines, Evaluates, EvalUnparsed, EFrame,
         hvars
    <3>2. evaluated' \in Seq(Lines)
      BY <2>10, <3>1, AppendFacts DEF EvalUnparsed
    <3> QED
      BY <2>10, <1>0, <3>1, <3>2 DEF Numbers, EvalUnparsed, EFrame, hvars, qvars
  <2>11. CASE TestSelfDestruct
    BY <2>11, <1>0 DEF Numbers, Lines, TestSelfDestruct, EOnly, EFrame, qvars, evaluator,
       hvars
  <2>12. CASE CancelReset
    BY <2>12, <1>0 DEF Numbers, Lines, CancelReset, EFrame, evaluator, hvars
  <2>13. CASE JoinPoll
    BY <2>13, <1>0 DEF Numbers, Lines, JoinPoll, EOnly, EFrame, qvars, evaluator, hvars
  <2>14. CASE Drain
    BY <2>14, <1>0 DEF Numbers, Lines, Drain, GoPoll, EFrame, qvars, evaluator, hvars
  <2>15. CASE DrainPoll
    BY <2>15, <1>0 DEF Numbers, Lines, DrainPoll, GoPoll, EFrame, qvars, evaluator, hvars
  <2>16. CASE DrainPop
    <3>1. CASE canceled
      BY <2>16, <1>0, <3>1 DEF Numbers, Lines, DrainPop, EFrame, evaluator, hvars
    <3>2. CASE ~canceled
      <4>1. Head(queue) \in 0..Len(script) /\ queue' \in Seq(0..Len(script))
        BY <2>16, <1>0, <3>2, TailFacts DEF Numbers, DrainPop
      <4> QED
        BY <2>16, <1>0, <3>2, <4>1 DEF Numbers, Lines, DrainPop, EFrame, evaluator, hvars
    <3> QED
      BY <3>1, <3>2
  <2>17. CASE UnsetShell
    BY <2>17, <1>0 DEF Numbers, Lines, UnsetShell, EFrame, qvars, evaluator, hvars
  <2> QED
    BY <1>3, <2>1, <2>2, <2>3, <2>4, <2>5, <2>6, <2>7, <2>8, <2>9, <2>10, <2>11, <2>12,
       <2>13, <2>14, <2>15, <2>16, <2>17 DEF EvalMoves
<1>4. ASSUME PollMoves PROVE Numbers'
  <2>1. CASE InitDone
    BY <2>1, <1>0 DEF Numbers, Lines, InitDone, PFrame, hvars, evars, qvars, flags,
       evaluator, hist
  <2>2. CASE LockPoll
    BY <2>2, <1>0 DEF Numbers, Lines, LockPoll, PFrame, hvars, evars, qvars, flags,
       evaluator, hist
  <2>3. CASE PollLoop
    BY <2>3, <1>0 DEF Numbers, Lines, PollLoop, GoPoll, PFrame, hvars, evars, qvars, flags,
       evaluator, hist
  <2>4. CASE PollAgain
    BY <2>4, <1>0 DEF Numbers, Lines, PollAgain, GoPoll, PFrame, hvars, evars, qvars,
       flags, evaluator, hist
  <2>5. CASE WaitPoll
    BY <2>5, <1>0 DEF Numbers, Lines, WaitPoll, PFrame, hvars, evars, qvars, flags,
       evaluator, hist
  <2>6. CASE PollLast
    BY <2>6, <1>0 DEF Numbers, Lines, PollLast, GoPoll, PFrame, hvars, evars, qvars, flags,
       evaluator, hist
  <2> QED
    BY <1>4, <2>1, <2>2, <2>3, <2>4, <2>5, <2>6 DEF PollMoves
<1> QED
  BY <1>1, <1>2, <1>3, <1>4 DEF Step

-----------------------------------------------------------------------------
(* The theorems. *)

\* A shell that has just been created satisfies the invariant.
LEMMA InitInv ==
  ASSUME Init
  PROVE  IInv
<1>1. PICK s \in Sessions : script = s[1] /\ kind = s[2]
  BY DEF Init
<1>2. /\ <<script, kind>> \in Sessions /\ script \in Seq(Kinds) /\ Len(script) \in Nat
  BY <1>1, GenericShellAssumption
<1>3. Places
  BY DEF Init, Places, HandlerPCs, EvalPCs, PollPCs
<1>4. Switches
  BY Zenon DEF Init, Switches
<1>5. Numbers
  BY <1>2 DEF Init, Numbers, Lines
<1>6. Flag /\ Leaving
  BY DEF Init, Flag, Leaving, Unqueued, DrainPCs
<1>7. Order
  BY DEF Init, Order, EvaluatedInOrder, QueueSorted, EvaluatedFirst, WorkBetween,
     AllReached, InWork
<1>8. Accounted /\ Interrupted
  BY DEF Init, Accounted, Interrupted
<1>9. Answers
  BY DEF Init, Answers, AnswerLines, AnswersInOrder, Sending, Members
<1> QED
  BY <1>3, <1>4, <1>5, <1>6, <1>7, <1>8, <1>9, TypeParts DEF IInv

\* So does one in which nothing happens.
LEMMA StutterInv ==
  ASSUME IInv, UNCHANGED vars
  PROVE  IInv'
<1> USE DEF vars, hvars, evars, pvars, polls, qvars, flags, evaluator, hist
<1>1. Flag' /\ Leaving' /\ Interrupted'
  BY DEF IInv, Flag, Leaving, Unqueued, Interrupted, Members
<1>2. Order'
  BY DEF IInv, Order, EvaluatedInOrder, QueueSorted, EvaluatedFirst, WorkBetween,
     AllReached,
     InWork, Reached, Unqueued
<1>3. Accounted'
  BY DEF IInv, Accounted, Queued, InWork, Unqueued, Members, Work
<1>4. Answers'
  BY AnswerQuietStep DEF AnswerQuiet
<1>5. TypeOK'
  BY DEF IInv, TypeOK, Lines
<1> QED
  BY <1>1, <1>2, <1>3, <1>4, <1>5 DEF IInv

\* The inductive invariant holds in every reachable state.
LEMMA InvHolds == Spec => []IInv
<1>1. Init => IInv
  BY InitInv
<1>2. ASSUME IInv, [Next]_vars PROVE IInv'
  <2>1. CASE ~crashed /\ Step
    <3>1. TypeOK'
      <4>1. Places' /\ Numbers' /\ Switches'
        BY <1>2, <2>1, PlacesStep, NumbersStep, SwitchesStep
      <4> QED
        BY <4>1 DEF TypeOK, Places, Numbers, Switches
    <3> QED
      BY <1>2, <2>1, <3>1, FlagStep, LeavingStep, OrderStep, AccountedStep, InterruptedStep,
         AnswersStep DEF IInv
  <2>2. CASE UNCHANGED vars
    BY <1>2, <2>2, StutterInv
  <2> QED
    BY <1>2, <2>1, <2>2 DEF Next, Finished, Step, HandlerMoves, EvalLoop, EvalMoves,
       PollThread, PollMoves
<1> QED
  BY <1>1, <1>2, PTL DEF Spec

\* The assertion of start_eval() holds in every session, however polls,
\* exceptions and interrupts meet (GenericShell.cc).
THEOREM FlagNeverBad == Spec => []EvaluatorFlag
<1>1. IInv => EvaluatorFlag
  BY DEF IInv, Flag, EvaluatorFlag
<1> QED
  BY <1>1, InvHolds, PTL

\* In every session expressions run once each and in the order sent.
THEOREM LinesRunInOrder == Spec => []EvaluatedInOrder
<1>1. IInv => EvaluatedInOrder
  BY DEF IInv, Order
<1> QED
  BY <1>1, InvHolds, PTL

\* In every session without an interrupted McpEval answers leave once each and
\* in the order of the expressions, whichever thread polls for them.
THEOREM AnswersLeaveInOrder == Spec => []AnswersInOrder
<1>1. IInv => AnswersInOrder
  BY DEF IInv, Answers, NoRepeat, AnswersInOrder
<1> QED
  BY <1>1, InvHolds, PTL

\* In every session the destructor leaves no work undone, no thread running
\* and no pointer to the shell (GenericShell.cc:85-107).
THEOREM ExitIsClean == Spec => []CleanExit
<1>1. ASSUME IInv PROVE WorkDoneAtExit
  <2> SUFFICES ASSUME hpc = "deleted", NEW i \in 1..lines, Work(i)
               PROVE  i \in Members(evaluated) \cup discarded
    BY DEF WorkDoneAtExit
  <2>1. epc = "exited"
    BY <1>1 DEF IInv, Leaving
  <2>2. ~Queued(i) /\ ~InWork /\ ~Unqueued
    BY <1>1, <2>1 DEF IInv, Accounted, Queued, InWork, Unqueued
  <2> QED
    BY <1>1, <2>2 DEF IInv, Accounted
<1>2. ASSUME IInv PROVE NoDanglingShell
  BY <1>2 DEF IInv, Leaving, DrainPCs, NoDanglingShell
<1>3. IInv => CleanExit
  BY <1>1, <1>2 DEF IInv, CleanExit
<1> QED
  BY <1>3, InvHolds, PTL
-----------------------------------------------------------------------------
(* The shell implements LineShell. *)

\* The lines that were thrown away have been reached.
DiscardedReached == \A i \in discarded : i \in Nat /\ Reached(i)

\* No answer is newer than the one the evaluator holds.
Latest ==
  /\ \A k \in DOMAIN delivered : delivered[k] <= answer
  /\ \A t \in {"E", "P"} : poll[t] = "send" =>
       /\ got[t] <= answer
       /\ got[t] # 0 => \A k \in DOMAIN delivered : delivered[k] <= got[t]

ShellInv == IInv /\ DiscardedReached /\ Latest

\* The steps the abstract shell does not see, and the others.
Calm ==
  /\ UNCHANGED <<queue, in, evaluated, discarded, delivered, script, kind, Deleted>>
  /\ (InWork /\ ~crashed)' <=> (InWork /\ ~crashed)
ShellMoves ==
  \/ Enqueue \/ PushSentinel \/ DiscardJunk \/ Pops \/ Evaluates \/ JoinEval
  \/ \E t \in {"E", "P"} : PollSend(t)

\* A step either is not seen or accepts, begins, ends, drops or answers a line,
\* or closes the shell.
LEMMA ShellSteps ==
  ASSUME IInv, ~crashed, Step
  PROVE  Calm \/ ShellMoves
<1>1. ASSUME NEW t \in {"E", "P"}, Poll(t) PROVE Calm \/ ShellMoves
  <2>1. CASE PollSend(t)
    BY <2>1 DEF ShellMoves
  <2>2. CASE ~PollSend(t)
    <3>1. delivered' = delivered
      BY <1>1, <2>2 DEF Poll, PollPending, PollResult, PollDisplay, PollDone, PollFinish
    <3> QED
      BY <1>1, <3>1, Frames DEF Calm, Deleted, InWork, PollFrame, hvars, evars, pvars, qvars
  <2> QED
    BY <2>1, <2>2
<1>2. ASSUME HandlerMoves PROVE Calm \/ ShellMoves
  <2>1. CASE ReadLine
    BY <2>1 DEF Calm, Deleted, InWork, IInv, TypeOK, ReadLine, HFrame, LinePC, qvars, TopFrame
  <2>2. CASE Disconnect
    BY <2>2 DEF Calm, Deleted, InWork, IInv, TypeOK, Disconnect, HOnly, HFrame, qvars,
       flags, TopFrame, polls
  <2>3. CASE AwaitInit
    BY <2>3 DEF Calm, Deleted, InWork, IInv, TypeOK, AwaitInit, HOnly, LinePC, HFrame,
       qvars, flags, TopFrame, polls
  <2>4. CASE HaltDisplay
    BY <2>4 DEF Calm, Deleted, InWork, IInv, TypeOK, HaltDisplay, TopFrame, qvars, flags,
       polls
  <2>5. CASE Enqueue
    BY <2>5 DEF ShellMoves
  <2>6. CASE AnswerTelnet
    BY <2>6 DEF Calm, Deleted, InWork, IInv, TypeOK, AnswerTelnet, HFrame, put_output,
       qvars, flags, TopFrame, polls
  <2>7. CASE Interrupt
    BY <2>7 DEF Calm, Deleted, InWork, IInv, TypeOK, Interrupt, HFrame, put_output,
       qvars, flags, TopFrame, polls
  <2>8. CASE QuitTop
    BY <2>8 DEF Calm, Deleted, InWork, IInv, TypeOK, QuitTop, HFrame, qvars, TopFrame,
       polls
  <2>9. CASE DiscardJunk
    BY <2>9 DEF ShellMoves
  <2>10. CASE TestEvaluator
    BY <2>10 DEF Calm, Deleted, InWork, IInv, TypeOK, TestEvaluator, HOnly, HFrame,
       qvars, flags, TopFrame, polls
  <2>11. CASE InterruptEvaluator
    BY <2>11 DEF Calm, Deleted, InWork, IInv, TypeOK, InterruptEvaluator, TopFrame,
       qvars, flags, polls
  <2>12. CASE PutAbortPrompt
    BY <2>12 DEF Calm, Deleted, InWork, IInv, TypeOK, PutAbortPrompt, HFrame, put_output,
       qvars, flags, TopFrame, polls
  <2>13. CASE FinishInterrupted
    BY <2>13 DEF Calm, Deleted, InWork, IInv, TypeOK, FinishInterrupted, HFrame, qvars,
       TopFrame, polls
  <2>14. CASE LeaveShell
    BY <2>14 DEF Calm, Deleted, InWork, IInv, TypeOK, LeaveShell, HFrame, qvars,
       TopFrame, polls
  <2>15. CASE CancelQueue
    BY <2>15 DEF Calm, Deleted, InWork, IInv, TypeOK, CancelQueue, HFrame, put_output,
       flags, TopFrame, polls
  <2>16. CASE EndOfEval
    BY <2>16 DEF Calm, Deleted, InWork, EndOfEval, HOnly, HFrame, TopFrame, qvars
  <2>17. CASE SetSelfDestruct
    BY <2>17 DEF Calm, Deleted, InWork, IInv, TypeOK, SetSelfDestruct, HFrame, qvars,
       TopFrame, polls
  <2>18. CASE PushSentinel
    BY <2>18 DEF ShellMoves
  <2>19. CASE JoinEval
    BY <2>19 DEF ShellMoves
  <2> QED
    BY <1>2, <2>1, <2>2, <2>3, <2>4, <2>5, <2>6, <2>7, <2>8, <2>9, <2>10, <2>11, <2>12,
       <2>13, <2>14, <2>15, <2>16, <2>17, <2>18, <2>19 DEF HandlerMoves, Handle
<1>3. ASSUME EvalMoves PROVE Calm \/ ShellMoves
  <2>1. CASE StartPoll
    BY <2>1 DEF Calm, Deleted, InWork, IInv, TypeOK, StartPoll, EFrame, qvars, evaluator,
       hvars
  <2>2. CASE WhileNotDone
    BY <2>2 DEF Calm, Deleted, InWork, IInv, TypeOK, WhileNotDone, EOnly, EFrame, qvars,
       evaluator, hvars
  <2>3. CASE WakePoll
    BY <2>3 DEF Calm, Deleted, InWork, IInv, TypeOK, WakePoll, EOnly, EFrame, qvars,
       evaluator, hvars
  <2>4. CASE Pop
    <3>1. CASE canceled
      BY <2>4, <3>1 DEF Calm, Deleted, InWork, Pop, EFrame, qvars, hvars
    <3>2. CASE ~canceled
      BY <2>4, <3>2 DEF ShellMoves, Pops
    <3> QED
      BY <3>1, <3>2
  <2>5. CASE StartEval
    BY <2>5 DEF Calm, Deleted, InWork, IInv, TypeOK, StartEval, EFrame, qvars, evaluator,
       hvars
  <2>6. CASE BeginEval
    BY <2>6 DEF Calm, Deleted, InWork, IInv, TypeOK, BeginEval, EFrame, qvars, hvars
  <2>7. CASE EvalExpr
    BY <2>7 DEF ShellMoves, Evaluates
  <2>8. CASE EvalTop
    BY <2>8 DEF ShellMoves, Evaluates
  <2>9. CASE EvalThrows
    BY <2>9 DEF ShellMoves, Evaluates
  <2>10. CASE EvalUnparsed
    BY <2>10 DEF ShellMoves, Evaluates
  <2>11. CASE TestSelfDestruct
    BY <2>11 DEF Calm, Deleted, InWork, IInv, TypeOK, TestSelfDestruct, EOnly, EFrame,
       qvars, evaluator, hvars
  <2>12. CASE CancelReset
    BY <2>12 DEF Calm, Deleted, InWork, IInv, TypeOK, CancelReset, EFrame, evaluator,
       hvars
  <2>13. CASE JoinPoll
    BY <2>13 DEF Calm, Deleted, InWork, IInv, TypeOK, JoinPoll, EOnly, EFrame, qvars,
       evaluator, hvars
  <2>14. CASE Drain
    BY <2>14 DEF Calm, Deleted, InWork, IInv, TypeOK, Drain, GoPoll, EFrame, qvars,
       evaluator, hvars
  <2>15. CASE DrainPoll
    BY <2>15 DEF Calm, Deleted, InWork, IInv, TypeOK, DrainPoll, GoPoll, EFrame, qvars,
       evaluator, hvars
  <2>16. CASE DrainPop
    <3>1. CASE canceled
      BY <2>16, <3>1 DEF Calm, Deleted, InWork, DrainPop, EFrame, qvars, hvars
    <3>2. CASE ~canceled
      BY <2>16, <3>2 DEF ShellMoves, Pops
    <3> QED
      BY <3>1, <3>2
  <2>17. CASE UnsetShell
    BY <2>17 DEF Calm, Deleted, InWork, IInv, TypeOK, UnsetShell, EFrame, qvars,
       evaluator, hvars
  <2> QED
    BY <1>3, <2>1, <2>2, <2>3, <2>4, <2>5, <2>6, <2>7, <2>8, <2>9, <2>10, <2>11, <2>12,
       <2>13, <2>14, <2>15, <2>16, <2>17 DEF EvalMoves
<1>4. ASSUME PollMoves PROVE Calm \/ ShellMoves
  BY <1>4, Frames DEF Calm, Deleted, InWork, PFrame, hvars, evars, qvars, flags,
     evaluator, hist
<1> QED
  BY <1>1, <1>2, <1>3, <1>4 DEF Step

\* Thrown away are lines that the handler thread has queued before.
LEMMA DiscardedStep ==
  ASSUME IInv, DiscardedReached, ~crashed, Step
  PROVE  DiscardedReached'
<1>1. ASSUME discarded' = discarded, lines' = lines, Unqueued' => Unqueued
      PROVE  DiscardedReached'
  BY <1>1 DEF DiscardedReached, Reached
<1>2. CASE Quiet /\ discarded' = discarded
  BY <1>1, <1>2 DEF Quiet
<1>3. CASE ReadLine
  <2>1. hpc = "read" /\ lines' = lines + 1 /\ discarded' = discarded /\ lines \in Nat
    BY <1>3, NumberTypes DEF ReadLine, IInv
  <2>2. \A i \in Nat : Reached(i) => Reached(i)'
    BY <2>1 DEF Reached
  <2> QED
    BY <2>1, <2>2 DEF DiscardedReached
<1>4. CASE Enqueue \/ PushSentinel
  BY <1>1, <1>4 DEF Enqueue, PushSentinel, HFrame, TopFrame, Unqueued
<1>5. CASE DiscardJunk
  <2>1. /\ queue # <<>> /\ queue' = Tail(queue) /\ UNCHANGED <<lines, evaluated, hpc>>
        /\ discarded' = discarded \cup ({Head(queue)} \ {0})
    BY <1>5 DEF DiscardJunk, HFrame, TopFrame
  <2>2. Unqueued' = Unqueued
    BY <2>1 DEF Unqueued
  <2>3. PICK h : h = Head(queue)
    OBVIOUS
  <2>4. h \in Nat /\ (h # 0 => h <= lines /\ (Unqueued => h < lines))
    BY <2>1, <2>2, <2>3, TailOrder
  <2> QED
    BY <2>1, <2>2, <2>3, <2>4 DEF DiscardedReached, Reached
<1>6. CASE Pops \/ Evaluates
  BY <1>1, <1>6 DEF Pops, Pop, DrainPop, Evaluates, EvalExpr, EvalTop, EvalThrows,
     EvalUnparsed, EFrame, hvars, Unqueued
<1>7. CASE Quiet /\ ~DiscardJunk
  <2>1. discarded' = discarded
    BY <1>3, <1>7, ShellSteps DEF Calm, ShellMoves, Enqueue, PushSentinel, Pops, Pop, DrainPop,
       Evaluates, EvalExpr, EvalTop, EvalThrows, EvalUnparsed, EFrame, JoinEval, HOnly,
       PollSend, PollFrame
  <2> QED
    BY <1>2, <1>7, <2>1
<1> QED
  BY <1>3, <1>4, <1>5, <1>6, <1>7, QuietSteps DEF Moves

\* No step sends an answer older than one sent before, not even after an interrupt.
LEMMA LatestStep ==
  ASSUME IInv, Latest, ~crashed, Step
  PROVE  Latest'
<1>1. CASE AnswerQuiet
  BY <1>1 DEF AnswerQuiet, Latest
<1>2. ASSUME NEW t \in {"E", "P"}, PollResult(t) \/ PollDisplay(t) PROVE Latest'
  <2>1. /\ poll[t] = "result" /\ UNCHANGED <<answer, delivered>>
        /\ got'[t] \in {answer, 0}
        /\ \A x \in {"E", "P"} : x # t => poll'[x] = poll[x]
    BY <1>2 DEF PollResult, PollDisplay, GoPoll, PollFrame, IInv, TypeOK
  <2>2. \A x \in {"E", "P"} : x # t => poll'[x] # "send"
    BY <2>1, OnePoller
  <2>3. answer \in Nat
    BY NumberTypes DEF IInv
  <2> QED
    BY <2>1, <2>2, <2>3 DEF Latest
<1>3. ASSUME NEW t \in {"E", "P"}, PollSend(t) PROVE Latest'
  <2>0. PICK g : g = got[t]
    OBVIOUS
  <2>1. /\ poll[t] = "send" /\ UNCHANGED <<answer, got>>
        /\ delivered' = (IF g = 0 THEN delivered ELSE Append(delivered, g))
    BY <1>3, <2>0 DEF PollSend, PollFrame
  <2>2. \A x \in {"E", "P"} : poll'[x] # "send"
    BY <1>3, <2>1, OnePoller DEF PollSend, GoPoll, IInv, TypeOK
  <2>3. g # 0 => g \in Lines
    BY <2>0, ScriptDomain DEF IInv, TypeOK, Lines
  <2>4. \A k \in DOMAIN delivered' : delivered'[k] <= answer
    <3>1. CASE g = 0
      BY <2>1, <3>1 DEF Latest
    <3>2. CASE g # 0
      <4> DEFINE n == Len(delivered) + 1
      <4>1. /\ delivered'[n] = g /\ DOMAIN delivered' = DOMAIN delivered \cup {n}
            /\ \A k \in DOMAIN delivered : delivered'[k] = delivered[k]
        BY <2>1, <2>3, <3>2, AppendFacts DEF IInv, TypeOK
      <4> HIDE DEF n
      <4> QED
        BY <2>0, <2>1, <4>1 DEF Latest
    <3> QED
      BY <3>1, <3>2
  <2> QED
    BY <2>1, <2>2, <2>4 DEF Latest
<1>4. CASE InterruptEvaluator
  BY <1>4 DEF InterruptEvaluator, TopFrame, polls, Latest
<1>5. CASE Evaluates
  <2>1. /\ epc = "eval" /\ UNCHANGED <<got, poll, delivered>> /\ answer' \in {in, answer}
    BY <1>5 DEF Evaluates, EvalExpr, EvalTop, EvalThrows, EvalUnparsed, EFrame
  <2>2. answer \in Nat /\ in \in Nat /\ (\A k \in DOMAIN delivered : delivered[k] \in Nat)
        /\ (\A t \in {"E", "P"} : got[t] \in Nat)
    BY NumberTypes DEF IInv
  <2>3. answer <= in
    <3>1. answer = 0 \/ \E k \in DOMAIN evaluated : answer = evaluated[k]
      BY DEF IInv, Answers, AnswerLines, Members
    <3>2. \A k \in DOMAIN evaluated : evaluated[k] < in /\ evaluated[k] \in Nat
      BY <2>1, NumberTypes DEF IInv, Order, WorkBetween, InWork
    <3> QED
      BY <2>2, <3>1, <3>2
  <2> QED
    BY <2>1, <2>2, <2>3 DEF Latest
<1> QED
  BY <1>1, <1>2, <1>3, <1>4, <1>5, AnswerSteps DEF AnswerMoves

\* The invariant of the refinement.
LEMMA ShellInvHolds == Spec => []ShellInv
<1>1. Init => DiscardedReached /\ Latest
  BY DEF Init, DiscardedReached, Latest
<1>2. ASSUME IInv, DiscardedReached, Latest, [Next]_vars PROVE DiscardedReached' /\ Latest'
  <2>1. CASE ~crashed /\ Step
    BY <1>2, <2>1, DiscardedStep, LatestStep
  <2>2. CASE UNCHANGED vars
    BY <1>2, <2>2 DEF vars, hvars, polls, evaluator, hist, DiscardedReached, Reached, Unqueued,
       Latest
  <2> QED
    BY <1>2, <2>1, <2>2 DEF Next, Finished, Step, HandlerMoves, EvalLoop, EvalMoves,
       PollThread, PollMoves
<1> QED
  BY <1>1, <1>2, InvHolds, PTL DEF Spec, ShellInv

\* Steps of the threads among themselves are not seen.
LEMMA CalmUnseen ==
  ASSUME Calm
  PROVE  UNCHANGED Abstract!vars
<1>1. Waiting' = Waiting /\ Running' = Running
  BY DEF Calm, Waiting, Running, Members
<1>2. MayRepeat' = MayRepeat
  BY DEF Calm, MayRepeat, Members
<1> QED
  BY <1>1, <1>2 DEF Calm, Abstract!vars

\* The lines of the script are numbers the abstract shell knows.
LEMMA KnownLines ==
  ASSUME TypeOK
  PROVE  Lines \subseteq LineNumbers
<1>1. <<script, kind>> \in Sessions /\ <<script, kind>>[1] = script
  BY DEF TypeOK
<1>2. DOMAIN script \subseteq LineNumbers
  BY <1>1, Zenon DEF LineNumbers
<1> QED
  BY <1>2, ScriptDomain DEF Lines

\* The lines in the queue, as a set.
LEMMA WaitingQueued == \A i : i \in Waiting <=> Queued(i)
  BY DEF Waiting, Members, Queued

\* enqueue_work() accepts a line.
LEMMA EnqueueAccepts ==
  ASSUME ShellInv, ~crashed, Enqueue
  PROVE  Abstract!Accept(lines) /\ lines \in LineNumbers
<1>1. /\ hpc = "line" /\ hpc' = "after" /\ ~canceled /\ queue' = Append(queue, lines)
      /\ UNCHANGED <<lines, epc, in, evaluated, discarded, delivered, script, kind, crashed>>
  BY DEF Enqueue, ShellInv, IInv, Leaving, Unqueued, HFrame, TopFrame
<1>2. Unqueued /\ lines > 0 /\ lines \in Lines
  BY <1>1, ScriptDomain DEF ShellInv, IInv, TypeOK, Leaving, Unqueued, Lines
<1>3. Waiting' = Waiting \cup {lines}
  <2> DEFINE n == Len(queue) + 1
  <2>1. queue \in Seq(0..Len(script)) /\ lines \in 0..Len(script)
    BY DEF ShellInv, IInv, TypeOK
  <2>2. /\ queue'[n] = lines /\ DOMAIN queue' = DOMAIN queue \cup {n}
        /\ \A k \in DOMAIN queue : queue'[k] = queue[k] /\ k < n
    BY <1>1, <2>1, AppendFacts
  <2> HIDE DEF n
  <2>3. Members(queue)' = Members(queue) \cup {lines}
    BY <2>2 DEF Members
  <2> QED
    BY <1>2, <2>3, ScriptDomain DEF Waiting
<1>4. \A j \in Waiting : j < lines
  BY <1>2, NumberTypes, WaitingQueued DEF Queued, ShellInv, IInv, Order, AllReached, Reached
<1>5. \A j \in Running : j < lines
  BY <1>2, NumberTypes DEF Running, ShellInv, IInv, Order, AllReached, Reached
<1>6. /\ \A j \in discarded : j < lines
      /\ \A k \in DOMAIN evaluated : evaluated[k] < lines
  BY <1>2, NumberTypes DEF ShellInv, IInv, DiscardedReached, Order, AllReached, Reached
<1>7. UNCHANGED <<Running, MayRepeat, Deleted>> /\ ~Deleted
  BY <1>1 DEF Running, InWork, MayRepeat, Members, Deleted
<1>8. lines \in LineNumbers
  BY <1>2, KnownLines DEF ShellInv, IInv
<1> QED
  BY <1>1, <1>3, <1>4, <1>5, <1>6, <1>7, <1>8 DEF Abstract!Accept

\* The empty string in the queue is not seen.
LEMMA SentinelUnseen ==
  ASSUME ShellInv, PushSentinel
  PROVE  UNCHANGED Abstract!vars
<1>1. /\ queue' = queue \/ queue' = Append(queue, 0)
      /\ hpc = "push" /\ hpc' = "join"
      /\ UNCHANGED <<epc, in, evaluated, discarded, delivered, script, kind, crashed>>
  BY DEF PushSentinel, HFrame, TopFrame
<1>2. queue \in Seq(0..Len(script)) /\ 0 \in 0..Len(script)
  BY ScriptDomain DEF ShellInv, IInv, TypeOK
<1>3. Waiting' = Waiting
  <2>1. CASE queue' = queue
    BY <2>1 DEF Waiting, Members
  <2>2. CASE queue' = Append(queue, 0)
    <3> DEFINE n == Len(queue) + 1
    <3>1. /\ queue'[n] = 0 /\ DOMAIN queue' = DOMAIN queue \cup {n}
          /\ \A k \in DOMAIN queue : queue'[k] = queue[k]
      BY <1>2, <2>2, AppendFacts
    <3> HIDE DEF n
    <3>2. Members(queue)' = Members(queue) \cup {0}
      BY <3>1 DEF Members
    <3> QED
      BY <3>2 DEF Waiting
  <2> QED
    BY <1>1, <2>1, <2>2
<1>4. UNCHANGED <<Running, MayRepeat, Deleted>>
  BY <1>1 DEF Running, InWork, MayRepeat, Members, Deleted
<1> QED
  BY <1>1, <1>3, <1>4 DEF Abstract!vars

\* What is taken from the front of the queue is the oldest line, unless it is
\* the empty string.
LEMMA FrontIsOldest ==
  ASSUME IInv, queue # <<>>, queue' = Tail(queue), UNCHANGED <<lines, evaluated>>,
         Unqueued' => Unqueued, NEW h, h = Head(queue)
  PROVE  /\ h = 0 => Waiting' = Waiting
         /\ h # 0 => Abstract!Oldest(h) /\ Waiting' = Waiting \ {h} /\ h \in LineNumbers
<1>1. /\ \A i : Queued(i) => Queued(i)' \/ i = h
      /\ \A i : Queued(i)' => Queued(i)
      /\ h \in 0..Len(script)
  BY TailQueued
<1>2. \A i : i \in Waiting' <=> Queued(i)'
  BY DEF Waiting, Members, Queued
<1>3. CASE h = 0
  <2>1. \A i : Queued(i) <=> Queued(i)'
    BY <1>1, <1>3 DEF Queued
  <2> QED
    BY <1>2, <1>3, <2>1, WaitingQueued DEF Waiting
<1>4. CASE h # 0
  <2>1. \A k \in DOMAIN queue' : queue'[k] # 0 => h < queue'[k]
    BY <1>4, TailOrder
  <2>2. h \in Nat /\ \A k \in DOMAIN queue : queue[k] \in Nat
    BY <1>1, NumberTypes DEF IInv
  <2>3. Queued(h)
    <3>1. 1 \in DOMAIN queue /\ h = queue[1]
      BY TailFacts DEF IInv, TypeOK
    <3> QED
      BY <1>4, <3>1 DEF Queued
  <2>4. ~Queued(h)'
    BY <2>1, <2>2 DEF Queued
  <2>5. \A i : Queued(i) => h <= i
    <3> SUFFICES ASSUME NEW i, Queued(i) PROVE h <= i
      OBVIOUS
    <3>1. CASE i = h
      BY <2>2, <3>1
    <3>2. CASE i # h
      <4>1. Queued(i)' /\ i \in Nat
        BY <1>1, <2>2, <3>2 DEF Queued
      <4>2. h < i
        BY <2>1, <4>1 DEF Queued
      <4> QED
        BY <2>2, <4>1, <4>2
    <3> QED
      BY <3>1, <3>2
  <2>6. Abstract!Oldest(h)
    BY <2>3, <2>5, WaitingQueued DEF Abstract!Oldest
  <2>7. \A i : i \in Waiting' <=> i \in Waiting /\ i # h
    BY <1>1, <1>2, <2>4, WaitingQueued
  <2>8. h \in LineNumbers
    BY <1>1, <1>4, ScriptDomain, KnownLines DEF Lines, IInv
  <2> QED
    BY <1>4, <2>6, <2>7, <2>8
<1> QED
  BY <1>3, <1>4

\* user_interrupt() throws the oldest line away.
LEMMA DiscardDiscards ==
  ASSUME ShellInv, DiscardJunk
  PROVE  UNCHANGED Abstract!vars \/ \E i \in LineNumbers : Abstract!Discard(i)
<1>0. PICK h : h = Head(queue)
  OBVIOUS
<1>1. /\ queue # <<>> /\ queue' = Tail(queue) /\ hpc = "junk"
      /\ discarded' = discarded \cup ({h} \ {0})
      /\ UNCHANGED <<lines, hpc, epc, in, evaluated, delivered, script, kind, crashed>>
  BY <1>0 DEF DiscardJunk, HFrame, TopFrame
<1>2. /\ h = 0 => Waiting' = Waiting
      /\ h # 0 => Abstract!Oldest(h) /\ Waiting' = Waiting \ {h} /\ h \in LineNumbers
  <2>1. IInv /\ Unqueued' = Unqueued
    BY <1>1 DEF ShellInv, Unqueued
  <2> QED
    BY <1>0, <1>1, <2>1, FrontIsOldest
<1>3. UNCHANGED <<Running, MayRepeat, Deleted>> /\ ~Deleted
  BY <1>1 DEF Running, InWork, MayRepeat, Members, Deleted
<1>4. CASE h = 0
  BY <1>1, <1>2, <1>3, <1>4 DEF Abstract!vars
<1>5. CASE h # 0
  <2>1. Abstract!Discard(h)
    BY <1>1, <1>2, <1>3, <1>5 DEF Abstract!Discard
  <2> QED
    BY <1>2, <1>5, <2>1
<1> QED
  BY <1>4, <1>5

\* While the eval thread works the shell is not deleted.
LEMMA OpenWhileEval ==
  ASSUME IInv, epc \notin {"none", "exited"}
  PROVE  ~Deleted
  BY DEF IInv, Leaving, Deleted

\* pop(), in the loop and in the drain, begins the oldest line.
LEMMA PopStarts ==
  ASSUME ShellInv, ~crashed, Pops
  PROVE  UNCHANGED Abstract!vars \/ \E i \in LineNumbers : Abstract!Start(i)
<1>0. PICK h : h = Head(queue)
  OBVIOUS
<1>1. /\ queue # <<>> /\ queue' = Tail(queue) /\ in' = h
      /\ epc \in {"pop", "drainPop"}
      /\ epc' = (IF h = 0 THEN (IF epc = "pop" THEN "test" ELSE "drain")
                 ELSE (IF epc = "pop" THEN "wake2" ELSE "start"))
      /\ UNCHANGED <<lines, hpc, evaluated, discarded, delivered, script, kind, crashed>>
  BY <1>0 DEF Pops, Pop, DrainPop, EFrame, hvars
<1>2. /\ h = 0 => Waiting' = Waiting
      /\ h # 0 => Abstract!Oldest(h) /\ Waiting' = Waiting \ {h} /\ h \in LineNumbers
  <2>1. IInv /\ Unqueued' = Unqueued
    BY <1>1 DEF ShellInv, Unqueued
  <2> QED
    BY <1>0, <1>1, <2>1, FrontIsOldest
<1>3. /\ Running = {} /\ Running' = (IF h = 0 THEN {} ELSE {h})
  BY <1>1 DEF Running, InWork
<1>4. UNCHANGED <<MayRepeat, Deleted>> /\ ~Deleted
  BY <1>1, OpenWhileEval DEF ShellInv, MayRepeat, Members, Deleted
<1>5. CASE h = 0
  BY <1>1, <1>2, <1>3, <1>4, <1>5 DEF Abstract!vars
<1>6. CASE h # 0
  <2>1. Abstract!Start(h)
    BY <1>1, <1>2, <1>3, <1>4, <1>6 DEF Abstract!Start
  <2> QED
    BY <1>2, <1>6, <2>1
<1> QED
  BY <1>5, <1>6

\* eval_expr() ends the line, also when it throws and nothing catches it.
LEMMA EvaluateFinishes ==
  ASSUME ShellInv, ~crashed, Evaluates
  PROVE  Abstract!Finish(in) /\ in \in LineNumbers
<1>1. /\ epc = "eval" /\ evaluated' = Append(evaluated, in)
      /\ UNCHANGED <<queue, hpc, discarded, delivered, script, kind>>
      /\ epc' \in {"drain", "wake3", "test"} \/ crashed'
  BY DEF Evaluates, EvalExpr, EvalTop, EvalThrows, EvalUnparsed, EFrame, hvars, qvars
<1>2. Running = {in} /\ Running' = {}
  BY <1>1 DEF Running, InWork
<1>3. UNCHANGED <<Waiting, MayRepeat, Deleted>> /\ ~Deleted
  BY <1>1, OpenWhileEval DEF ShellInv, Waiting, MayRepeat, Members, Deleted
<1>4. in \in LineNumbers
  BY EvaluatedMembers, KnownLines DEF ShellInv, IInv
<1> QED
  BY <1>1, <1>2, <1>3, <1>4 DEF Abstract!Finish

\* poll_and_send() answers a line that was evaluated, and none older than the last.
LEMMA SendAnswers ==
  ASSUME ShellInv, NEW t \in {"E", "P"}, PollSend(t)
  PROVE  UNCHANGED Abstract!vars \/ \E i \in LineNumbers : Abstract!Answer(i)
<1>0. PICK g : g = got[t]
  OBVIOUS
<1>1. /\ poll[t] = "send" /\ delivered' = (IF g = 0 THEN delivered ELSE Append(delivered, g))
      /\ UNCHANGED <<queue, hpc, epc, in, evaluated, discarded, script, kind, crashed>>
  BY <1>0 DEF PollSend, PollFrame, hvars, evars, qvars
<1>2. UNCHANGED <<Waiting, Running, MayRepeat, Deleted>>
  BY <1>1 DEF Waiting, Running, InWork, MayRepeat, Members, Deleted
<1>3. CASE g = 0
  BY <1>1, <1>2, <1>3 DEF Abstract!vars
<1>4. CASE g # 0
  <2>1. ~Deleted
    BY <1>1 DEF ShellInv, IInv, Leaving, DrainPCs, Deleted
  <2>2. \E k \in DOMAIN evaluated : evaluated[k] = g
    BY <1>0, <1>4 DEF ShellInv, IInv, Answers, AnswerLines, Members
  <2>3. \A k \in DOMAIN delivered : delivered[k] < g \/ (MayRepeat /\ delivered[k] = g)
    <3>1. ~MayRepeat => NoRepeat
      BY DEF MayRepeat, NoRepeat
    <3>2. NoRepeat => \A k \in DOMAIN delivered : delivered[k] < g
      BY <1>0, <1>1, <1>4 DEF ShellInv, IInv, Answers, Sending
    <3>3. \A k \in DOMAIN delivered : delivered[k] <= g
      BY <1>0, <1>1, <1>4 DEF ShellInv, Latest
    <3>4. g \in Nat /\ \A k \in DOMAIN delivered : delivered[k] \in Nat
      BY <1>0, NumberTypes DEF ShellInv, IInv
    <3> QED
      BY <3>1, <3>2, <3>3, <3>4
  <2>4. g \in LineNumbers
    BY <1>0, <1>4, ScriptDomain, KnownLines DEF ShellInv, IInv, TypeOK, Lines
  <2>5. Abstract!Answer(g)
    BY <1>1, <1>2, <1>4, <2>1, <2>2, <2>3 DEF Abstract!Answer
  <2> QED
    BY <2>4, <2>5
<1> QED
  BY <1>3, <1>4

\* The destructor closes a shell in which nothing is left to do.
LEMMA JoinCloses ==
  ASSUME ShellInv, JoinEval
  PROVE  Abstract!Close
<1>1. /\ hpc = "join" /\ hpc' = "deleted" /\ epc \in {"none", "exited"}
      /\ UNCHANGED <<queue, epc, in, evaluated, discarded, delivered, script, kind, crashed>>
  BY DEF JoinEval, HOnly, HFrame, TopFrame, qvars
<1>2. Running = {} /\ UNCHANGED <<Waiting, Running, MayRepeat>> /\ ~Deleted /\ Deleted'
  BY <1>1 DEF Waiting, Running, InWork, MayRepeat, Members, Deleted
<1>3. \A k \in DOMAIN queue : queue[k] = 0
  <2>1. CASE epc = "exited"
    BY <2>1 DEF ShellInv, IInv, Accounted
  <2>2. CASE epc = "none"
    <3>1. lines = 0 /\ \A k \in DOMAIN queue : queue[k] # 0 => queue[k] <= lines
      BY <2>2 DEF ShellInv, IInv, Leaving, Order, AllReached, Reached
    <3> QED
      BY <3>1, NumberTypes DEF ShellInv, IInv
  <2> QED
    BY <1>1, <2>1, <2>2
<1>4. Waiting = {}
  BY <1>3 DEF Waiting, Members
<1> QED
  BY <1>1, <1>2, <1>4 DEF Abstract!Close

\* In every session the three threads with their queue and their flags behave
\* as a shell that evaluates one line after another, oldest first, loses none,
\* repeats no answer but the last of an interrupted McpEval, and ends with
\* nothing left to do (GenericShell.cc:85-107, 367-766).
THEOREM ShellIsALineShell == Spec => ImplementsLineShell
<1>1. Init => Abstract!Init
  <2> SUFFICES ASSUME Init PROVE Abstract!Init
    OBVIOUS
  <2>1. Waiting = {} /\ Running = {} /\ ~Deleted
    BY DEF Init, Waiting, Running, InWork, Members, Deleted
  <2>2. MayRepeat \in BOOLEAN /\ Deleted \in BOOLEAN
    BY DEF MayRepeat, Deleted
  <2> QED
    BY <2>1, <2>2 DEF Init, Abstract!Init
<1>2. ASSUME ShellInv, [Next]_vars PROVE [Abstract!Next]_(Abstract!vars)
  <2>1. CASE ~crashed /\ Step
    <3>1. CASE Calm
      BY <3>1, CalmUnseen
    <3>2. CASE Enqueue
      BY <1>2, <2>1, <3>2, EnqueueAccepts DEF Abstract!Next
    <3>3. CASE PushSentinel
      BY <1>2, <3>3, SentinelUnseen
    <3>4. CASE DiscardJunk
      BY <1>2, <3>4, DiscardDiscards DEF Abstract!Next
    <3>5. CASE Pops
      BY <1>2, <2>1, <3>5, PopStarts DEF Abstract!Next
    <3>6. CASE Evaluates
      BY <1>2, <2>1, <3>6, EvaluateFinishes DEF Abstract!Next
    <3>7. CASE JoinEval
      BY <1>2, <3>7, JoinCloses DEF Abstract!Next
    <3>8. ASSUME NEW t \in {"E", "P"}, PollSend(t) PROVE [Abstract!Next]_(Abstract!vars)
      BY <1>2, <3>8, SendAnswers DEF Abstract!Next
    <3> QED
      BY <1>2, <2>1, <3>1, <3>2, <3>3, <3>4, <3>5, <3>6, <3>7, <3>8, ShellSteps
         DEF ShellMoves, ShellInv
  <2>2. CASE UNCHANGED vars
    <3>1. Calm
      BY <2>2 DEF vars, hvars, evars, qvars, hist, Calm, InWork, Deleted
    <3> QED
      BY <3>1, CalmUnseen
  <2> QED
    BY <1>2, <2>1, <2>2 DEF Next, Finished, Step, HandlerMoves, EvalLoop, EvalMoves,
       PollThread, PollMoves
<1> QED
  BY <1>1, <1>2, ShellInvHolds, PTL DEF Spec, Abstract!Spec, ImplementsLineShell

=============================================================================
