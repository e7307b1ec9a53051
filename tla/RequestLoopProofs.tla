------------------------- MODULE RequestLoopProofs -------------------------
(***************************************************************************)
(* The request queue for any number of consoles and any scripts: the use   *)
(* count of a console is the number of requests that point to it, requests *)
(* are executed in the order sent, and a shell command has opened its      *)
(* shell when OnLine() returns.                                            *)
(***************************************************************************)
EXTENDS RequestLoop, FiniteSetTheorems, TLAPS

\* The kinds of line on which a handler thread can be where it is.
LinesRead ==
  \A c \in Consoles :
    /\ lines[c] <= Len(Script[c])
    /\ hpc[c] \in {"scm", "fall", "help", "push", "processing"} => lines[c] > 0
    /\ hpc[c] \in {"scm", "fall", "help"} => Script[c][lines[c]] = "expr"
    /\ hpc[c] = "push" => Script[c][lines[c]] \in RequestKinds \cup {"expr"}
    /\ hpc[c] = "processing" => Script[c][lines[c]] \in {"shell", "expr"}
    /\ hpc[c] \in {"fall", "help"} => ~running

\* processRequestsMutex, and the request that its holder has popped: a
\* shutdown command, if it is past stop().
Exclusive ==
  \A t \in Threads :
    /\ phase[t] \in {"idle", "want"} <=> lock # t
    /\ phase[t] \in {"idle", "want", "next"} <=> cur[t] = None
    /\ phase[t] \in {"cancel", "put", "touch"} => Kind(cur[t]) = "shutdown"

\* Who may be in processRequests().
Callers ==
  /\ \A c \in Consoles : phase[c] # "idle" => hpc[c] = "processing"
  /\ phase[Loop] # "idle" => lpc \in {"processing", "draining"}
  /\ lpc = "done" => \A c \in Consoles : hpc[c] = "gone"

\* The line that c has read is one of which it has yet to make a request.
Unsent(c) == hpc[c] \in {"scm", "fall", "push", "help"}

Numbered(r) ==
  /\ r[2] <= lines[Console(r)]
  /\ Unsent(Console(r)) => r[2] < lines[Console(r)]

QueueSorted == \A i, j \in DOMAIN queue : i < j => Before(queue[i], queue[j])
ExecutedFirst == \A i \in DOMAIN executed, j \in DOMAIN queue : Before(executed[i], queue[j])
CurBetween ==
  \A t \in Threads : cur[t] # None =>
    /\ \A j \in DOMAIN queue : Before(cur[t], queue[j])
    /\ phase[t] = "exec" => \A i \in DOMAIN executed : Before(executed[i], cur[t])
AllNumbered ==
  /\ \A i \in DOMAIN executed : Numbered(executed[i])
  /\ \A i \in DOMAIN queue : Numbered(queue[i])
  /\ \A t \in Threads : cur[t] # None => Numbered(cur[t])

\* From the first request executed to the last one queued, those of a
\* console are in the order of its lines.
Order == InOrder /\ QueueSorted /\ ExecutedFirst /\ CurBetween /\ AllNumbered

\* The request for a shell that c waits for is in the queue or is being executed.
ShellRequest(c) == <<c, lines[c], "shell">>
ShellDue(c) ==
  \/ \E i \in DOMAIN queue : queue[i] = ShellRequest(c)
  \/ \E t \in Threads : phase[t] = "exec" /\ cur[t] = ShellRequest(c)
ShellComes ==
  \A c \in Consoles : hpc[c] = "processing" =>
    hasShell[c] \/ crashed \/ (phase[c] # "idle" /\ ShellDue(c))

Counted(c) == IsFiniteSet(Holding(c)) /\ useCount[c] = Cardinality(Holding(c))
Held == \A c \in Consoles : Counted(c) /\ (hpc[c] = "gone" => Holding(c) = {})

IInv ==
  /\ TypeOK /\ LinesRead /\ Exclusive /\ Callers
  /\ Order /\ ShellComes /\ ShellEntered /\ Held

\* A step that is not a stutter.
UserMoves == UserStop \/ UserCancel
Step == (\E c \in Consoles : HandlerStep(c)) \/ (\E t \in Threads : ProcessStep(t))
        \/ LoopStep \/ UserMoves

-----------------------------------------------------------------------------
(* Lines and requests. *)

\* What is assumed of the scripts.
LEMMA ScriptTypes ==
  ASSUME NEW c \in Consoles
  PROVE  /\ Len(Script[c]) \in Nat /\ DOMAIN Script[c] = 1..Len(Script[c])
         /\ \A i \in 1..Len(Script[c]) : Script[c][i] \in Kinds
<1>1. Script[c] \in Seq(Kinds)
  BY RequestLoopAssumption
<1> QED
  BY <1>1

\* The parts of a request.
LEMMA RequestTypes ==
  ASSUME NEW r \in Requests
  PROVE  /\ Console(r) \in Consoles /\ r[2] \in Nat /\ Kind(r) \in RequestKinds
         /\ r # None
<1>1. PICK c \in Consoles : \E i \in DOMAIN Script[c], k \in RequestKinds : r = <<c, i, k>>
  BY DEF Requests
<1>2. PICK i \in DOMAIN Script[c], k \in RequestKinds : r = <<c, i, k>>
  BY <1>1
<1>3. i \in Nat
  BY ScriptTypes
<1> QED
  BY <1>2, <1>3, RequestLoopAssumption DEF Console, Kind

\* A line of a script makes a request.
LEMMA MakesRequest ==
  ASSUME NEW c \in Consoles, NEW i \in 1..Len(Script[c]), NEW k \in RequestKinds
  PROVE  /\ <<c, i, k>> \in Requests
         /\ Console(<<c, i, k>>) = c /\ Kind(<<c, i, k>>) = k /\ <<c, i, k>>[2] = i
  BY ScriptTypes DEF Requests, Console, Kind

\* The request that a handler thread is about to push.
LEMMA PendingRequest ==
  ASSUME TypeOK, LinesRead, NEW c \in Consoles, hpc[c] \in {"push", "help"}
  PROVE  /\ Request(c) \in Requests /\ Console(Request(c)) = c /\ Request(c)[2] = lines[c]
         /\ Kind(Request(c)) = RequestKind(c)
<1>1. lines[c] \in 1..Len(Script[c])
  BY ScriptTypes DEF TypeOK, LinesRead
<1>2. RequestKind(c) \in RequestKinds
  BY DEF RequestKind, LinesRead, RequestKinds
<1> QED
  BY <1>1, <1>2, MakesRequest DEF Request

\* Who has popped a request holds the mutex, so nobody else has one.
LEMMA Alone ==
  ASSUME Exclusive, TypeOK, NEW t \in Threads, phase[t] \notin {"idle", "want"}
  PROVE  \A x \in Threads : x # t => phase[x] \in {"idle", "want"} /\ cur[x] = None
  BY DEF Exclusive

\* A thread that executes or touches a request has one.
LEMMA CurRequest ==
  ASSUME Exclusive, TypeOK, NEW t \in Threads, phase[t] \notin {"idle", "want", "next"}
  PROVE  cur[t] \in Requests /\ Console(cur[t]) \in Consoles
  BY RequestTypes DEF Exclusive, TypeOK

-----------------------------------------------------------------------------
(* The parts of the invariant, one action at a time. *)

\* Lines are taken one by one, and `help` is only asked for once the server stops.
LEMMA LinesStep ==
  ASSUME IInv, ~crashed, Step
  PROVE  LinesRead'
<1>1. ASSUME NEW c \in Consoles, HandlerStep(c) PROVE LinesRead'
  <2>1. CASE LineToShell(c)
    BY <2>1, ScriptTypes DEF IInv, TypeOK, LinesRead, Kinds, RequestKinds, LineToShell,
       ReadFrame, qvars, pvars, cvars
  <2>2. CASE LineRefused(c)
    BY <2>2, ScriptTypes DEF IInv, TypeOK, LinesRead, Kinds, RequestKinds, LineRefused,
       ReadFrame, qvars, pvars, cvars
  <2>3. CASE LineIgnored(c)
    BY <2>3, ScriptTypes DEF IInv, TypeOK, LinesRead, Kinds, RequestKinds, LineIgnored,
       ReadFrame, qvars, pvars, cvars
  <2>4. CASE LineToExpr(c)
    BY <2>4, ScriptTypes DEF IInv, TypeOK, LinesRead, Kinds, RequestKinds, LineToExpr,
       ReadFrame, qvars, pvars, cvars
  <2>5. CASE OpenShell(c)
    BY <2>5, ScriptTypes DEF IInv, TypeOK, LinesRead, Kinds, RequestKinds, OpenShell,
       ReadFrame, qvars, pvars, cvars
  <2>6. CASE FallThrough(c)
    BY <2>6, ScriptTypes DEF IInv, TypeOK, LinesRead, Kinds, RequestKinds, FallThrough,
       ReadFrame, qvars, pvars, cvars
  <2>7. CASE LineToRequest(c)
    BY <2>7, ScriptTypes DEF IInv, TypeOK, LinesRead, Kinds, RequestKinds, LineToRequest,
       ReadFrame, qvars, pvars, cvars
  <2>8. CASE pushRequest(c)
    BY <2>8 DEF IInv, TypeOK, LinesRead, RequestKind, Request, Kind, RequestKinds,
       pushRequest, cvars
  <2>9. CASE OnLineReturns(c)
    BY <2>9 DEF IInv, TypeOK, LinesRead, ShellComes, OnLineReturns, ReadFrame, qvars,
       pvars, cvars
  <2>10. CASE LeaveReadLoop(c)
    BY <2>10, ScriptTypes DEF IInv, TypeOK, LinesRead, Kinds, RequestKinds, LeaveReadLoop,
       ReadFrame, qvars, pvars, cvars
  <2>11. CASE ConsoleDtor(c)
    BY <2>11, ScriptTypes DEF IInv, TypeOK, LinesRead, Kinds, RequestKinds, ConsoleDtor,
       ReadFrame, qvars, pvars, cvars
  <2> QED
    BY <1>1, <2>1, <2>2, <2>3, <2>4, <2>5, <2>6, <2>7, <2>8, <2>9, <2>10, <2>11
       DEF HandlerStep
<1>2. ASSUME NEW t \in Threads, ProcessStep(t) PROVE LinesRead'
  <2>1. CASE LockRequests(t)
    BY <2>1, ScriptTypes DEF IInv, TypeOK, LinesRead, Kinds, RequestKinds, LockRequests,
       ProcFrame, qvars, cvars, hvars
  <2>2. CASE QueueEmpty(t)
    BY <2>2, ScriptTypes DEF IInv, TypeOK, LinesRead, Kinds, RequestKinds, QueueEmpty,
       ProcFrame, qvars, cvars, hvars
  <2>3. CASE popRequest(t)
    BY <2>3, ScriptTypes DEF IInv, TypeOK, LinesRead, Kinds, RequestKinds, popRequest,
       ProcFrame, qvars, cvars, hvars
  <2>4. CASE popCanceled(t)
    BY <2>4, ScriptTypes DEF IInv, TypeOK, LinesRead, Kinds, RequestKinds, popCanceled,
       qvars, cvars, hvars
  <2>5. CASE ExecuteCommand(t)
    BY <2>5, ScriptTypes DEF IInv, TypeOK, LinesRead, Kinds, RequestKinds, ExecuteCommand,
       ProcFrame, qvars, cvars, hvars
  <2>6. CASE ExecuteExit(t)
    BY <2>6, ScriptTypes DEF IInv, TypeOK, LinesRead, Kinds, RequestKinds, ExecuteExit,
       ProcFrame, qvars, cvars, hvars
  <2>7. CASE ExecuteShutdown(t)
    BY <2>7, ScriptTypes DEF IInv, TypeOK, LinesRead, Kinds, RequestKinds, ExecuteShutdown,
       ProcFrame, qvars, cvars, hvars
  <2>8. CASE ShutdownCancel(t)
    BY <2>8, ScriptTypes DEF IInv, TypeOK, LinesRead, Kinds, RequestKinds, ShutdownCancel,
       ProcFrame, qvars, cvars, hvars
  <2>9. CASE ShutdownPut(t)
    BY <2>9, ScriptTypes DEF IInv, TypeOK, LinesRead, Kinds, RequestKinds, ShutdownPut,
       ProcFrame, qvars, cvars, hvars
  <2>10. CASE ShutdownExit(t)
    BY <2>10, ScriptTypes DEF IInv, TypeOK, LinesRead, Kinds, RequestKinds, ShutdownExit,
       ProcFrame, qvars, cvars, hvars
  <2>11. CASE DeleteRequest(t)
    BY <2>11, ScriptTypes DEF IInv, TypeOK, LinesRead, Kinds, RequestKinds, DeleteRequest,
       ProcFrame, qvars, cvars, hvars
  <2> QED
    BY <1>2, <2>1, <2>2, <2>3, <2>4, <2>5, <2>6, <2>7, <2>8, <2>9, <2>10, <2>11
       DEF ProcessStep
<1>3. ASSUME LoopStep PROVE LinesRead'
  <2>1. CASE LoopWhile
    BY <2>1, ScriptTypes DEF IInv, TypeOK, LinesRead, Kinds, RequestKinds, LoopWhile,
       LoopFrame, hvars
  <2>2. CASE LoopBarrier
    BY <2>2, ScriptTypes DEF IInv, TypeOK, LinesRead, Kinds, RequestKinds, LoopBarrier,
       LoopFrame, hvars
  <2>3. CASE LoopSize
    BY <2>3, ScriptTypes DEF IInv, TypeOK, LinesRead, Kinds, RequestKinds, LoopSize,
       LoopFrame, hvars
  <2>4. CASE LoopProcessed
    BY <2>4, ScriptTypes DEF IInv, TypeOK, LinesRead, Kinds, RequestKinds, LoopProcessed,
       LoopFrame, hvars
  <2>5. CASE LoopReset
    BY <2>5, ScriptTypes DEF IInv, TypeOK, LinesRead, Kinds, RequestKinds, LoopReset,
       LoopFrame, hvars
  <2>6. CASE LoopStopListening
    BY <2>6, ScriptTypes DEF IInv, TypeOK, LinesRead, Kinds, RequestKinds,
       LoopStopListening, LoopFrame, hvars
  <2>7. CASE LoopDrain
    BY <2>7, ScriptTypes DEF IInv, TypeOK, LinesRead, Kinds, RequestKinds, LoopDrain,
       LoopFrame, hvars
  <2>8. CASE LoopJoin
    BY <2>8, ScriptTypes DEF IInv, TypeOK, LinesRead, Kinds, RequestKinds, LoopJoin,
       LoopFrame, hvars
  <2> QED
    BY <1>3, <2>1, <2>2, <2>3, <2>4, <2>5, <2>6, <2>7, <2>8 DEF LoopStep
<1>4. ASSUME UserMoves PROVE LinesRead'
  <2>1. CASE UserStop
    BY <2>1, ScriptTypes DEF IInv, TypeOK, LinesRead, Kinds, RequestKinds, UserStop, qvars,
       pvars, hvars, cvars
  <2>2. CASE UserCancel
    BY <2>2, ScriptTypes DEF IInv, TypeOK, LinesRead, Kinds, RequestKinds, UserCancel,
       qvars, pvars, hvars, cvars
  <2> QED
    BY <1>4, <2>1, <2>2 DEF UserMoves
<1> QED
  BY <1>1, <1>2, <1>3, <1>4 DEF Step

\* The mutex is held by whoever is between taking it and giving it back.
LEMMA ExclusiveStep ==
  ASSUME IInv, ~crashed, Step
  PROVE  Exclusive'
<1>1. ASSUME NEW c \in Consoles, HandlerStep(c) PROVE Exclusive'
  <2>1. CASE LineToShell(c)
    BY <2>1 DEF IInv, TypeOK, Exclusive, LineToShell, ReadFrame, qvars, pvars, cvars
  <2>2. CASE LineRefused(c)
    BY <2>2 DEF IInv, TypeOK, Exclusive, LineRefused, ReadFrame, qvars, pvars, cvars
  <2>3. CASE LineIgnored(c)
    BY <2>3 DEF IInv, TypeOK, Exclusive, LineIgnored, ReadFrame, qvars, pvars, cvars
  <2>4. CASE LineToExpr(c)
    BY <2>4 DEF IInv, TypeOK, Exclusive, LineToExpr, ReadFrame, qvars, pvars, cvars
  <2>5. CASE OpenShell(c)
    BY <2>5 DEF IInv, TypeOK, Exclusive, OpenShell, ReadFrame, qvars, pvars, cvars
  <2>6. CASE FallThrough(c)
    BY <2>6 DEF IInv, TypeOK, Exclusive, FallThrough, ReadFrame, qvars, pvars, cvars
  <2>7. CASE LineToRequest(c)
    BY <2>7 DEF IInv, TypeOK, Exclusive, LineToRequest, ReadFrame, qvars, pvars, cvars
  <2>8. CASE pushRequest(c)
    BY <2>8 DEF IInv, TypeOK, Exclusive, Callers, Threads, pushRequest, cvars
  <2>9. CASE OnLineReturns(c)
    BY <2>9 DEF IInv, TypeOK, Exclusive, OnLineReturns, ReadFrame, qvars, pvars, cvars
  <2>10. CASE LeaveReadLoop(c)
    BY <2>10 DEF IInv, TypeOK, Exclusive, LeaveReadLoop, ReadFrame, qvars, pvars, cvars
  <2>11. CASE ConsoleDtor(c)
    BY <2>11 DEF IInv, TypeOK, Exclusive, ConsoleDtor, ReadFrame, qvars, pvars, cvars
  <2> QED
    BY <1>1, <2>1, <2>2, <2>3, <2>4, <2>5, <2>6, <2>7, <2>8, <2>9, <2>10, <2>11
       DEF HandlerStep
<1>2. ASSUME NEW t \in Threads, ProcessStep(t) PROVE Exclusive'
  <2>1. CASE LockRequests(t)
    <3>1. None \notin Threads
      BY RequestLoopAssumption
    <3> QED
      BY <2>1, <3>1 DEF IInv, TypeOK, Exclusive, LockRequests, ProcFrame, cvars, hvars,
         qvars
  <2>2. CASE QueueEmpty(t)
    <3>1. None \notin Threads
      BY RequestLoopAssumption
    <3> QED
      BY <2>2, <3>1 DEF IInv, TypeOK, Exclusive, QueueEmpty, ProcFrame, cvars, hvars, qvars
  <2>3. CASE popRequest(t)
    <3>1. Head(queue) \in Requests /\ Head(queue) # None
      BY <2>3, RequestTypes DEF IInv, TypeOK, popRequest
    <3> QED
      BY <2>3, <3>1 DEF IInv, TypeOK, Exclusive, popRequest, ProcFrame, qvars, cvars, hvars
  <2>4. CASE popCanceled(t)
    <3>1. None \notin Threads
      BY RequestLoopAssumption
    <3> QED
      BY <2>4, <3>1 DEF IInv, TypeOK, Exclusive, popCanceled, cvars, hvars, qvars
  <2>5. CASE ExecuteCommand(t)
    BY <2>5 DEF IInv, TypeOK, Exclusive, ExecuteCommand, ProcFrame, qvars, cvars, hvars
  <2>6. CASE ExecuteExit(t)
    BY <2>6 DEF IInv, TypeOK, Exclusive, ExecuteExit, ProcFrame, qvars, cvars, hvars
  <2>7. CASE ExecuteShutdown(t)
    BY <2>7 DEF IInv, TypeOK, Exclusive, ExecuteShutdown, ProcFrame, qvars, cvars, hvars
  <2>8. CASE ShutdownCancel(t)
    BY <2>8 DEF IInv, TypeOK, Exclusive, ShutdownCancel, ProcFrame, qvars, cvars, hvars
  <2>9. CASE ShutdownPut(t)
    BY <2>9 DEF IInv, TypeOK, Exclusive, ShutdownPut, ProcFrame, qvars, cvars, hvars
  <2>10. CASE ShutdownExit(t)
    BY <2>10 DEF IInv, TypeOK, Exclusive, ShutdownExit, ProcFrame, qvars, cvars, hvars
  <2>11. CASE DeleteRequest(t)
    BY <2>11 DEF IInv, TypeOK, Exclusive, DeleteRequest, ProcFrame, qvars, cvars, hvars
  <2> QED
    BY <1>2, <2>1, <2>2, <2>3, <2>4, <2>5, <2>6, <2>7, <2>8, <2>9, <2>10, <2>11
       DEF ProcessStep
<1>3. ASSUME LoopStep PROVE Exclusive'
  <2>1. CASE LoopWhile
    BY <2>1 DEF IInv, TypeOK, Exclusive, LoopWhile, LoopFrame, hvars
  <2>2. CASE LoopBarrier
    BY <2>2 DEF IInv, TypeOK, Exclusive, LoopBarrier, LoopFrame, hvars
  <2>3. CASE LoopSize
    BY <2>3 DEF IInv, TypeOK, Exclusive, Callers, Threads, LoopSize, LoopFrame, hvars
  <2>4. CASE LoopProcessed
    BY <2>4 DEF IInv, TypeOK, Exclusive, LoopProcessed, LoopFrame, hvars
  <2>5. CASE LoopReset
    BY <2>5 DEF IInv, TypeOK, Exclusive, LoopReset, LoopFrame, hvars
  <2>6. CASE LoopStopListening
    BY <2>6 DEF IInv, TypeOK, Exclusive, LoopStopListening, LoopFrame, hvars
  <2>7. CASE LoopDrain
    BY <2>7 DEF IInv, TypeOK, Exclusive, Callers, Threads, LoopDrain, LoopFrame, hvars
  <2>8. CASE LoopJoin
    BY <2>8 DEF IInv, TypeOK, Exclusive, LoopJoin, LoopFrame, hvars
  <2> QED
    BY <1>3, <2>1, <2>2, <2>3, <2>4, <2>5, <2>6, <2>7, <2>8 DEF LoopStep
<1>4. ASSUME UserMoves PROVE Exclusive'
  <2>1. CASE UserStop
    BY <2>1 DEF IInv, TypeOK, Exclusive, UserStop, qvars, pvars, hvars, cvars
  <2>2. CASE UserCancel
    BY <2>2 DEF IInv, TypeOK, Exclusive, UserCancel, qvars, pvars, hvars, cvars
  <2> QED
    BY <1>4, <2>1, <2>2 DEF UserMoves
<1> QED
  BY <1>1, <1>2, <1>3, <1>4 DEF Step

\* Only a handler thread in OnLine() and the loop call processRequests().
LEMMA CallersStep ==
  ASSUME IInv, ~crashed, Step
  PROVE  Callers'
<1>1. ASSUME NEW c \in Consoles, HandlerStep(c) PROVE Callers'
  <2>1. CASE LineToShell(c)
    BY <2>1, RequestLoopAssumption DEF IInv, TypeOK, Callers, Threads, LineToShell,
       ReadFrame, qvars, pvars, cvars
  <2>2. CASE LineRefused(c)
    BY <2>2, RequestLoopAssumption DEF IInv, TypeOK, Callers, Threads, LineRefused,
       ReadFrame, qvars, pvars, cvars
  <2>3. CASE LineIgnored(c)
    BY <2>3, RequestLoopAssumption DEF IInv, TypeOK, Callers, Threads, LineIgnored,
       ReadFrame, qvars, pvars, cvars
  <2>4. CASE LineToExpr(c)
    BY <2>4, RequestLoopAssumption DEF IInv, TypeOK, Callers, Threads, LineToExpr,
       ReadFrame, qvars, pvars, cvars
  <2>5. CASE OpenShell(c)
    BY <2>5, RequestLoopAssumption DEF IInv, TypeOK, Callers, Threads, OpenShell,
       ReadFrame, qvars, pvars, cvars
  <2>6. CASE FallThrough(c)
    BY <2>6, RequestLoopAssumption DEF IInv, TypeOK, Callers, Threads, FallThrough,
       ReadFrame, qvars, pvars, cvars
  <2>7. CASE LineToRequest(c)
    BY <2>7, RequestLoopAssumption DEF IInv, TypeOK, Callers, Threads, LineToRequest,
       ReadFrame, qvars, pvars, cvars
  <2>8. CASE pushRequest(c)
    BY <2>8, RequestLoopAssumption DEF IInv, TypeOK, Callers, Threads, pushRequest, cvars
  <2>9. CASE OnLineReturns(c)
    BY <2>9, RequestLoopAssumption DEF IInv, TypeOK, Callers, Threads, OnLineReturns,
       ReadFrame, qvars, pvars, cvars
  <2>10. CASE LeaveReadLoop(c)
    BY <2>10, RequestLoopAssumption DEF IInv, TypeOK, Callers, Threads, LeaveReadLoop,
       ReadFrame, qvars, pvars, cvars
  <2>11. CASE ConsoleDtor(c)
    BY <2>11, RequestLoopAssumption DEF IInv, TypeOK, Callers, Threads, ConsoleDtor,
       ReadFrame, qvars, pvars, cvars
  <2> QED
    BY <1>1, <2>1, <2>2, <2>3, <2>4, <2>5, <2>6, <2>7, <2>8, <2>9, <2>10, <2>11
       DEF HandlerStep
<1>2. ASSUME NEW t \in Threads, ProcessStep(t) PROVE Callers'
  <2>1. CASE LockRequests(t)
    BY <2>1, RequestLoopAssumption DEF IInv, TypeOK, Callers, Threads, LockRequests,
       ProcFrame, qvars, cvars, hvars
  <2>2. CASE QueueEmpty(t)
    BY <2>2, RequestLoopAssumption DEF IInv, TypeOK, Callers, Threads, QueueEmpty,
       ProcFrame, qvars, cvars, hvars
  <2>3. CASE popRequest(t)
    BY <2>3, RequestLoopAssumption DEF IInv, TypeOK, Callers, Threads, popRequest,
       ProcFrame, qvars, cvars, hvars
  <2>4. CASE popCanceled(t)
    BY <2>4, RequestLoopAssumption DEF IInv, TypeOK, Callers, Threads, popCanceled, qvars,
       cvars, hvars
  <2>5. CASE ExecuteCommand(t)
    BY <2>5, RequestLoopAssumption DEF IInv, TypeOK, Callers, Threads, ExecuteCommand,
       ProcFrame, qvars, cvars, hvars
  <2>6. CASE ExecuteExit(t)
    BY <2>6, RequestLoopAssumption DEF IInv, TypeOK, Callers, Threads, ExecuteExit,
       ProcFrame, qvars, cvars, hvars
  <2>7. CASE ExecuteShutdown(t)
    BY <2>7, RequestLoopAssumption DEF IInv, TypeOK, Callers, Threads, ExecuteShutdown,
       ProcFrame, qvars, cvars, hvars
  <2>8. CASE ShutdownCancel(t)
    BY <2>8, RequestLoopAssumption DEF IInv, TypeOK, Callers, Threads, ShutdownCancel,
       ProcFrame, qvars, cvars, hvars
  <2>9. CASE ShutdownPut(t)
    BY <2>9, RequestLoopAssumption DEF IInv, TypeOK, Callers, Threads, ShutdownPut,
       ProcFrame, qvars, cvars, hvars
  <2>10. CASE ShutdownExit(t)
    BY <2>10, RequestLoopAssumption DEF IInv, TypeOK, Callers, Threads, ShutdownExit,
       ProcFrame, qvars, cvars, hvars
  <2>11. CASE DeleteRequest(t)
    BY <2>11, RequestLoopAssumption DEF IInv, TypeOK, Callers, Threads, DeleteRequest,
       ProcFrame, qvars, cvars, hvars
  <2> QED
    BY <1>2, <2>1, <2>2, <2>3, <2>4, <2>5, <2>6, <2>7, <2>8, <2>9, <2>10, <2>11
       DEF ProcessStep
<1>3. ASSUME LoopStep PROVE Callers'
  <2>1. CASE LoopWhile
    BY <2>1, RequestLoopAssumption DEF IInv, TypeOK, Callers, Threads, LoopWhile,
       LoopFrame, hvars
  <2>2. CASE LoopBarrier
    BY <2>2, RequestLoopAssumption DEF IInv, TypeOK, Callers, Threads, LoopBarrier,
       LoopFrame, hvars
  <2>3. CASE LoopSize
    BY <2>3, RequestLoopAssumption DEF IInv, TypeOK, Callers, Threads, LoopSize, LoopFrame,
       hvars
  <2>4. CASE LoopProcessed
    BY <2>4, RequestLoopAssumption DEF IInv, TypeOK, Callers, Threads, LoopProcessed,
       LoopFrame, hvars
  <2>5. CASE LoopReset
    BY <2>5, RequestLoopAssumption DEF IInv, TypeOK, Callers, Threads, LoopReset,
       LoopFrame, hvars
  <2>6. CASE LoopStopListening
    BY <2>6, RequestLoopAssumption DEF IInv, TypeOK, Callers, Threads, LoopStopListening,
       LoopFrame, hvars
  <2>7. CASE LoopDrain
    BY <2>7, RequestLoopAssumption DEF IInv, TypeOK, Callers, Threads, LoopDrain,
       LoopFrame, hvars
  <2>8. CASE LoopJoin
    BY <2>8, RequestLoopAssumption DEF IInv, TypeOK, Callers, Threads, LoopJoin, LoopFrame,
       hvars
  <2> QED
    BY <1>3, <2>1, <2>2, <2>3, <2>4, <2>5, <2>6, <2>7, <2>8 DEF LoopStep
<1>4. ASSUME UserMoves PROVE Callers'
  <2>1. CASE UserStop
    BY <2>1, RequestLoopAssumption DEF IInv, TypeOK, Callers, Threads, UserStop, qvars,
       pvars, hvars, cvars
  <2>2. CASE UserCancel
    BY <2>2, RequestLoopAssumption DEF IInv, TypeOK, Callers, Threads, UserCancel, qvars,
       pvars, hvars, cvars
  <2> QED
    BY <1>4, <2>1, <2>2 DEF UserMoves
<1> QED
  BY <1>1, <1>2, <1>3, <1>4 DEF Step

-----------------------------------------------------------------------------
(* The order of the requests. *)

\* Append() puts its element last and moves nothing else.
LEMMA AppendFacts ==
  ASSUME NEW S, NEW q \in Seq(S), NEW r \in S
  PROVE  /\ Append(q, r) \in Seq(S) /\ Append(q, r)[Len(q) + 1] = r
         /\ DOMAIN Append(q, r) = DOMAIN q \cup {Len(q) + 1}
         /\ \A i \in DOMAIN q : Append(q, r)[i] = q[i] /\ i \in Nat /\ i < Len(q) + 1
         /\ Len(q) \in Nat
  OBVIOUS

\* Tail() takes the first element and moves the others up by one.
LEMMA TailFacts ==
  ASSUME NEW S, NEW q \in Seq(S), q # <<>>
  PROVE  /\ Head(q) \in S /\ Tail(q) \in Seq(S) /\ 1 \in DOMAIN q /\ Head(q) = q[1]
         /\ \A i \in DOMAIN Tail(q) : Tail(q)[i] = q[i + 1] /\ i + 1 \in DOMAIN q /\ i \in Nat /\ 1 < i + 1
         /\ \A i \in DOMAIN q : i = 1 \/ (i - 1 \in DOMAIN Tail(q) /\ Tail(q)[i - 1] = q[i])
  OBVIOUS

\* The steps that matter to the order are those that push, pop, execute or
\* drop a request.
Pushes(c) == pushRequest(c) /\ ~canceled
Executes(t) == ExecuteCommand(t) \/ ExecuteExit(t) \/ ExecuteShutdown(t)
Drops(t) == ShutdownExit(t) \/ DeleteRequest(t)
Quiet ==
  /\ UNCHANGED <<queue, executed, cur>>
  /\ \A x \in Threads : phase'[x] = "exec" <=> phase[x] = "exec"
Moves == (\E c \in Consoles : Pushes(c)) \/ (\E t \in Threads : popRequest(t) \/ Executes(t) \/ Drops(t))

\* A step either leaves the requests where they are or moves one of them.
LEMMA QuietSteps ==
  ASSUME IInv, ~crashed, Step
  PROVE  Quiet \/ Moves
<1>1. ASSUME NEW c \in Consoles, HandlerStep(c) PROVE Quiet \/ Moves
  <2>1. CASE LineToShell(c)
    BY <2>1 DEF Quiet, IInv, TypeOK, LineToShell, ReadFrame, qvars, pvars, cvars
  <2>2. CASE LineRefused(c)
    BY <2>2 DEF Quiet, IInv, TypeOK, LineRefused, ReadFrame, qvars, pvars, cvars
  <2>3. CASE LineIgnored(c)
    BY <2>3 DEF Quiet, IInv, TypeOK, LineIgnored, ReadFrame, qvars, pvars, cvars
  <2>4. CASE LineToExpr(c)
    BY <2>4 DEF Quiet, IInv, TypeOK, LineToExpr, ReadFrame, qvars, pvars, cvars
  <2>5. CASE OpenShell(c)
    BY <2>5 DEF Quiet, IInv, TypeOK, OpenShell, ReadFrame, qvars, pvars, cvars
  <2>6. CASE FallThrough(c)
    BY <2>6 DEF Quiet, IInv, TypeOK, FallThrough, ReadFrame, qvars, pvars, cvars
  <2>7. CASE LineToRequest(c)
    BY <2>7 DEF Quiet, IInv, TypeOK, LineToRequest, ReadFrame, qvars, pvars, cvars
  <2>8. CASE pushRequest(c)
    BY <2>8 DEF Quiet, Moves, Pushes, pushRequest
  <2>9. CASE OnLineReturns(c)
    BY <2>9 DEF Quiet, IInv, TypeOK, OnLineReturns, ReadFrame, qvars, pvars, cvars
  <2>10. CASE LeaveReadLoop(c)
    BY <2>10 DEF Quiet, IInv, TypeOK, LeaveReadLoop, ReadFrame, qvars, pvars, cvars
  <2>11. CASE ConsoleDtor(c)
    BY <2>11 DEF Quiet, IInv, TypeOK, ConsoleDtor, ReadFrame, qvars, pvars, cvars
  <2> QED
    BY <1>1, <2>1, <2>2, <2>3, <2>4, <2>5, <2>6, <2>7, <2>8, <2>9, <2>10, <2>11
       DEF HandlerStep
<1>2. ASSUME NEW t \in Threads, ProcessStep(t) PROVE Quiet \/ Moves
  <2>1. CASE LockRequests(t)
    BY <2>1 DEF Quiet, IInv, TypeOK, LockRequests, ProcFrame, qvars, cvars, hvars
  <2>2. CASE QueueEmpty(t)
    BY <2>2 DEF Quiet, IInv, TypeOK, QueueEmpty, ProcFrame, qvars, cvars, hvars
  <2>3. CASE popRequest(t)
    BY <2>3 DEF Moves
  <2>4. CASE popCanceled(t)
    BY <2>4 DEF Quiet, IInv, TypeOK, popCanceled, qvars, cvars, hvars
  <2>5. CASE ExecuteCommand(t)
    BY <2>5 DEF Moves, Executes
  <2>6. CASE ExecuteExit(t)
    BY <2>6 DEF Moves, Executes
  <2>7. CASE ExecuteShutdown(t)
    BY <2>7 DEF Moves, Executes
  <2>8. CASE ShutdownCancel(t)
    BY <2>8 DEF Quiet, IInv, TypeOK, ShutdownCancel, ProcFrame, qvars, cvars, hvars
  <2>9. CASE ShutdownPut(t)
    BY <2>9 DEF Quiet, IInv, TypeOK, ShutdownPut, ProcFrame, qvars, cvars, hvars
  <2>10. CASE ShutdownExit(t)
    BY <2>10 DEF Moves, Drops
  <2>11. CASE DeleteRequest(t)
    BY <2>11 DEF Moves, Drops
  <2> QED
    BY <1>2, <2>1, <2>2, <2>3, <2>4, <2>5, <2>6, <2>7, <2>8, <2>9, <2>10, <2>11
       DEF ProcessStep
<1>3. ASSUME LoopStep PROVE Quiet \/ Moves
  <2>1. CASE LoopWhile
    BY <2>1 DEF Quiet, IInv, TypeOK, LoopWhile, LoopFrame, hvars
  <2>2. CASE LoopBarrier
    BY <2>2 DEF Quiet, IInv, TypeOK, LoopBarrier, LoopFrame, hvars
  <2>3. CASE LoopSize
    BY <2>3 DEF Quiet, IInv, TypeOK, Callers, Threads, LoopSize, LoopFrame, hvars
  <2>4. CASE LoopProcessed
    BY <2>4 DEF Quiet, IInv, TypeOK, LoopProcessed, LoopFrame, hvars
  <2>5. CASE LoopReset
    BY <2>5 DEF Quiet, IInv, TypeOK, LoopReset, LoopFrame, hvars
  <2>6. CASE LoopStopListening
    BY <2>6 DEF Quiet, IInv, TypeOK, LoopStopListening, LoopFrame, hvars
  <2>7. CASE LoopDrain
    BY <2>7 DEF Quiet, IInv, TypeOK, Callers, Threads, LoopDrain, LoopFrame, hvars
  <2>8. CASE LoopJoin
    BY <2>8 DEF Quiet, IInv, TypeOK, LoopJoin, LoopFrame, hvars
  <2> QED
    BY <1>3, <2>1, <2>2, <2>3, <2>4, <2>5, <2>6, <2>7, <2>8 DEF LoopStep
<1>4. ASSUME UserMoves PROVE Quiet \/ Moves
  <2>1. CASE UserStop
    BY <2>1 DEF Quiet, IInv, TypeOK, UserStop, qvars, pvars, hvars, cvars
  <2>2. CASE UserCancel
    BY <2>2 DEF Quiet, IInv, TypeOK, UserCancel, qvars, pvars, hvars, cvars
  <2> QED
    BY <1>4, <2>1, <2>2 DEF UserMoves
<1> QED
  BY <1>1, <1>2, <1>3, <1>4 DEF Step

\* A request keeps its place among the lines of its console.
LEMMA KeepsNumber ==
  ASSUME IInv, ~crashed, Step, NEW r \in Requests, Numbered(r)
  PROVE  Numbered(r)'
<1>0. /\ Console(r) \in Consoles /\ r[2] \in Nat /\ lines \in [Consoles -> Nat]
      /\ r[2] <= lines[Console(r)]
  BY RequestTypes DEF IInv, TypeOK, Numbered
<1>1. ASSUME NEW c \in Consoles, HandlerStep(c) PROVE Numbered(r)'
  <2>1. CASE LineToShell(c)
    BY <2>1, <1>0 DEF Numbered, Unsent, IInv, TypeOK, LineToShell, ReadFrame, qvars, pvars,
       cvars
  <2>2. CASE LineRefused(c)
    BY <2>2, <1>0 DEF Numbered, Unsent, IInv, TypeOK, LineRefused, ReadFrame, qvars, pvars,
       cvars
  <2>3. CASE LineIgnored(c)
    BY <2>3, <1>0 DEF Numbered, Unsent, IInv, TypeOK, LineIgnored, ReadFrame, qvars, pvars,
       cvars
  <2>4. CASE LineToExpr(c)
    BY <2>4, <1>0 DEF Numbered, Unsent, IInv, TypeOK, LineToExpr, ReadFrame, qvars, pvars,
       cvars
  <2>5. CASE OpenShell(c)
    BY <2>5, <1>0 DEF Numbered, Unsent, IInv, TypeOK, OpenShell, ReadFrame, qvars, pvars,
       cvars
  <2>6. CASE FallThrough(c)
    BY <2>6, <1>0 DEF Numbered, Unsent, IInv, TypeOK, FallThrough, ReadFrame, qvars, pvars,
       cvars
  <2>7. CASE LineToRequest(c)
    BY <2>7, <1>0 DEF Numbered, Unsent, IInv, TypeOK, LineToRequest, ReadFrame, qvars,
       pvars, cvars
  <2>8. CASE pushRequest(c)
    BY <2>8, <1>0 DEF Numbered, Unsent, IInv, TypeOK, pushRequest, cvars
  <2>9. CASE OnLineReturns(c)
    BY <2>9, <1>0 DEF Numbered, Unsent, IInv, TypeOK, ShellComes, OnLineReturns, ReadFrame,
       qvars, pvars, cvars
  <2>10. CASE LeaveReadLoop(c)
    BY <2>10, <1>0 DEF Numbered, Unsent, IInv, TypeOK, LeaveReadLoop, ReadFrame, qvars,
       pvars, cvars
  <2>11. CASE ConsoleDtor(c)
    BY <2>11, <1>0 DEF Numbered, Unsent, IInv, TypeOK, ConsoleDtor, ReadFrame, qvars,
       pvars, cvars
  <2> QED
    BY <1>1, <2>1, <2>2, <2>3, <2>4, <2>5, <2>6, <2>7, <2>8, <2>9, <2>10, <2>11
       DEF HandlerStep
<1>2. ASSUME NEW t \in Threads, ProcessStep(t) PROVE Numbered(r)'
  <2>1. CASE LockRequests(t)
    BY <2>1, <1>0 DEF Numbered, Unsent, LockRequests, ProcFrame, qvars, cvars, hvars
  <2>2. CASE QueueEmpty(t)
    BY <2>2, <1>0 DEF Numbered, Unsent, QueueEmpty, ProcFrame, qvars, cvars, hvars
  <2>3. CASE popRequest(t)
    BY <2>3, <1>0 DEF Numbered, Unsent, popRequest, ProcFrame, qvars, cvars, hvars
  <2>4. CASE popCanceled(t)
    BY <2>4, <1>0 DEF Numbered, Unsent, popCanceled, qvars, cvars, hvars
  <2>5. CASE ExecuteCommand(t)
    BY <2>5, <1>0 DEF Numbered, Unsent, ExecuteCommand, ProcFrame, qvars, cvars, hvars
  <2>6. CASE ExecuteExit(t)
    BY <2>6, <1>0 DEF Numbered, Unsent, ExecuteExit, ProcFrame, qvars, cvars, hvars
  <2>7. CASE ExecuteShutdown(t)
    BY <2>7, <1>0 DEF Numbered, Unsent, ExecuteShutdown, ProcFrame, qvars, cvars, hvars
  <2>8. CASE ShutdownCancel(t)
    BY <2>8, <1>0 DEF Numbered, Unsent, ShutdownCancel, ProcFrame, qvars, cvars, hvars
  <2>9. CASE ShutdownPut(t)
    BY <2>9, <1>0 DEF Numbered, Unsent, ShutdownPut, ProcFrame, qvars, cvars, hvars
  <2>10. CASE ShutdownExit(t)
    BY <2>10, <1>0 DEF Numbered, Unsent, ShutdownExit, ProcFrame, qvars, cvars, hvars
  <2>11. CASE DeleteRequest(t)
    BY <2>11, <1>0 DEF Numbered, Unsent, DeleteRequest, ProcFrame, qvars, cvars, hvars
  <2> QED
    BY <1>2, <2>1, <2>2, <2>3, <2>4, <2>5, <2>6, <2>7, <2>8, <2>9, <2>10, <2>11
       DEF ProcessStep
<1>3. ASSUME LoopStep PROVE Numbered(r)'
  <2>1. CASE LoopWhile
    BY <2>1, <1>0 DEF Numbered, Unsent, LoopWhile, LoopFrame, hvars
  <2>2. CASE LoopBarrier
    BY <2>2, <1>0 DEF Numbered, Unsent, LoopBarrier, LoopFrame, hvars
  <2>3. CASE LoopSize
    BY <2>3, <1>0 DEF Numbered, Unsent, LoopSize, LoopFrame, hvars
  <2>4. CASE LoopProcessed
    BY <2>4, <1>0 DEF Numbered, Unsent, LoopProcessed, LoopFrame, hvars
  <2>5. CASE LoopReset
    BY <2>5, <1>0 DEF Numbered, Unsent, LoopReset, LoopFrame, hvars
  <2>6. CASE LoopStopListening
    BY <2>6, <1>0 DEF Numbered, Unsent, LoopStopListening, LoopFrame, hvars
  <2>7. CASE LoopDrain
    BY <2>7, <1>0 DEF Numbered, Unsent, LoopDrain, LoopFrame, hvars
  <2>8. CASE LoopJoin
    BY <2>8, <1>0 DEF Numbered, Unsent, LoopJoin, LoopFrame, hvars
  <2> QED
    BY <1>3, <2>1, <2>2, <2>3, <2>4, <2>5, <2>6, <2>7, <2>8 DEF LoopStep
<1>4. ASSUME UserMoves PROVE Numbered(r)'
  <2>1. CASE UserStop
    BY <2>1, <1>0 DEF Numbered, Unsent, UserStop, qvars, pvars, hvars, cvars
  <2>2. CASE UserCancel
    BY <2>2, <1>0 DEF Numbered, Unsent, UserCancel, qvars, pvars, hvars, cvars
  <2> QED
    BY <1>4, <2>1, <2>2 DEF UserMoves
<1> QED
  BY <1>1, <1>2, <1>3, <1>4 DEF Step

\* A step that moves no request keeps their order.
LEMMA QuietOrder ==
  ASSUME IInv, ~crashed, Step, Quiet
  PROVE  Order'
<1>1. \A i \in DOMAIN queue : queue[i] \in Requests
  BY DEF IInv, TypeOK
<1>2. \A i \in DOMAIN executed : executed[i] \in Requests
  BY DEF IInv, TypeOK
<1>3. \A t \in Threads : cur[t] # None => cur[t] \in Requests
  BY DEF IInv, TypeOK
<1>4. AllNumbered'
  BY <1>1, <1>2, <1>3, KeepsNumber DEF Quiet, IInv, Order, AllNumbered
<1>5. InOrder' /\ QueueSorted' /\ ExecutedFirst'
  BY DEF Quiet, IInv, Order, InOrder, QueueSorted, ExecutedFirst
<1>6. CurBetween'
  BY DEF Quiet, IInv, Order, CurBetween
<1> QED
  BY <1>4, <1>5, <1>6 DEF Order

\* The line of which c makes a request is later than those of its others.
LEMMA PushOrder ==
  ASSUME IInv, ~crashed, Step, NEW c \in Consoles, Pushes(c)
  PROVE  Order'
<1>0. PICK r : r = Request(c)
  OBVIOUS
<1> DEFINE n == Len(queue) + 1
<1>1. hpc[c] \in {"push", "help"} /\ queue' = Append(queue, r) /\ UNCHANGED <<executed, cur, lines>>
  BY <1>0 DEF Pushes, pushRequest
<1>2. r \in Requests /\ Console(r) = c /\ r[2] = lines[c] /\ lines[c] \in Nat
  BY <1>0, <1>1, PendingRequest DEF IInv, TypeOK
<1>3. /\ queue'[n] = r /\ DOMAIN queue' = DOMAIN queue \cup {n}
      /\ \A i \in DOMAIN queue : queue'[i] = queue[i] /\ i \in Nat /\ i < n
      /\ n \in Nat
  BY <1>1, <1>2, AppendFacts DEF IInv, TypeOK
<1>4. \A i \in DOMAIN queue : queue[i] \in Requests
  BY DEF IInv, TypeOK
<1>5. \A i \in DOMAIN executed : executed[i] \in Requests
  BY DEF IInv, TypeOK
<1>6. \A t \in Threads : cur[t] # None => cur[t] \in Requests
  BY DEF IInv, TypeOK
<1>7. ASSUME NEW s \in Requests, Numbered(s) PROVE Before(s, r)
  BY <1>1, <1>2, <1>7 DEF Numbered, Unsent, Before
<1>8. Numbered(r)'
  <2>1. hpc' = [hpc EXCEPT ![c] = "processing"] \/ hpc' = [hpc EXCEPT ![c] = "read"]
    BY DEF Pushes, pushRequest
  <2> QED
    BY <1>1, <1>2, <2>1 DEF IInv, TypeOK, Numbered, Unsent
<1> HIDE DEF n
<1>9. AllNumbered'
  BY <1>1, <1>3, <1>4, <1>5, <1>6, <1>8, KeepsNumber DEF IInv, Order, AllNumbered
<1>10. QueueSorted'
  <2> SUFFICES ASSUME NEW i \in DOMAIN queue', NEW j \in DOMAIN queue', i < j
               PROVE  Before(queue'[i], queue'[j])
    BY DEF QueueSorted, Before
  <2>1. i \in DOMAIN queue
    BY <1>3
  <2>2. CASE j = n
    BY <1>3, <1>4, <1>7, <2>1, <2>2 DEF IInv, Order, AllNumbered
  <2>3. CASE j \in DOMAIN queue
    BY <1>3, <2>1, <2>3 DEF IInv, Order, QueueSorted
  <2> QED
    BY <1>3, <2>2, <2>3
<1>11. ExecutedFirst'
  <2> SUFFICES ASSUME NEW i \in DOMAIN executed', NEW j \in DOMAIN queue'
               PROVE  Before(executed'[i], queue'[j])
    BY DEF ExecutedFirst, Before
  <2>1. CASE j = n
    BY <1>1, <1>3, <1>5, <1>7, <2>1 DEF IInv, Order, AllNumbered
  <2>2. CASE j \in DOMAIN queue
    BY <1>1, <1>3, <2>2 DEF IInv, Order, ExecutedFirst
  <2> QED
    BY <1>3, <2>1, <2>2
<1>12. CurBetween'
  <2> SUFFICES ASSUME NEW t \in Threads, cur'[t] # None
               PROVE  /\ \A j \in DOMAIN queue' : Before(cur'[t], queue'[j])
                      /\ phase'[t] = "exec" => \A i \in DOMAIN executed' : Before(executed'[i], cur'[t])
    BY DEF CurBetween, Before
  <2>1. Before(cur[t], r) /\ \A j \in DOMAIN queue : Before(cur[t], queue[j])
    BY <1>1, <1>6, <1>7 DEF IInv, Order, CurBetween, AllNumbered
  <2>2. phase'[t] = "exec" => phase[t] = "exec"
    BY DEF Pushes, pushRequest, IInv, TypeOK
  <2> QED
    BY <1>1, <1>3, <2>1, <2>2 DEF IInv, Order, CurBetween
<1>13. InOrder'
  BY <1>1 DEF IInv, Order, InOrder
<1> QED
  BY <1>9, <1>10, <1>11, <1>12, <1>13 DEF Order

\* The request that is popped comes between those executed and those queued.
LEMMA PopOrder ==
  ASSUME IInv, ~crashed, Step, NEW t \in Threads, popRequest(t)
  PROVE  Order'
<1>1. /\ queue # <<>> /\ queue' = Tail(queue) /\ executed' = executed
      /\ cur' = [cur EXCEPT ![t] = Head(queue)] /\ phase[t] = "next"
      /\ phase' = [phase EXCEPT ![t] = "exec"]
  BY DEF popRequest
<1>2. /\ Head(queue) \in Requests /\ 1 \in DOMAIN queue /\ Head(queue) = queue[1]
      /\ \A i \in DOMAIN queue' : queue'[i] = queue[i + 1] /\ i + 1 \in DOMAIN queue /\ i \in Nat /\ 1 < i + 1
  BY <1>1, TailFacts DEF IInv, TypeOK
<1>3. \A i \in DOMAIN queue : queue[i] \in Requests
  BY DEF IInv, TypeOK
<1>4. \A i \in DOMAIN executed : executed[i] \in Requests
  BY DEF IInv, TypeOK
<1>5. \A x \in Threads : x # t => cur'[x] = None
  BY <1>1, Alone DEF IInv, TypeOK
<1>6. cur'[t] = queue[1]
  BY <1>1, <1>2 DEF IInv, TypeOK
<1>7. AllNumbered'
  <2>1. \A r \in Requests : Numbered(r) => Numbered(r)'
    BY KeepsNumber
  <2>2. ASSUME NEW i \in DOMAIN queue' PROVE Numbered(queue[i])'
    <3>1. PICK r : r = queue[i + 1]
      OBVIOUS
    <3>2. r \in Requests /\ Numbered(r) /\ r = queue'[i]
      BY <1>2, <1>3, <3>1 DEF IInv, Order, AllNumbered
    <3> QED
      BY <2>1, <3>2
  <2>3. ASSUME NEW x \in Threads, cur'[x] # None PROVE Numbered(cur[x])'
    <3>1. PICK r : r = queue[1]
      OBVIOUS
    <3>2. r \in Requests /\ Numbered(r) /\ r = cur'[x]
      BY <1>2, <1>3, <1>5, <1>6, <2>3, <3>1 DEF IInv, Order, AllNumbered
    <3> QED
      BY <2>1, <3>2
  <2>4. ASSUME NEW i \in DOMAIN executed' PROVE Numbered(executed[i])'
    <3>1. executed[i] \in Requests /\ Numbered(executed[i]) /\ executed'[i] = executed[i]
      BY <1>1, <1>4 DEF IInv, Order, AllNumbered
    <3> QED
      BY <2>1, <3>1
  <2> QED
    BY <2>2, <2>3, <2>4 DEF AllNumbered
<1>8. QueueSorted' /\ ExecutedFirst' /\ InOrder'
  BY <1>1, <1>2 DEF IInv, Order, QueueSorted, ExecutedFirst, InOrder
<1>9. CurBetween'
  BY <1>1, <1>2, <1>5, <1>6 DEF IInv, Order, QueueSorted, ExecutedFirst, CurBetween
<1> QED
  BY <1>7, <1>8, <1>9 DEF Order

\* The request that is executed is the latest of its console so far.
LEMMA ExecuteOrder ==
  ASSUME IInv, ~crashed, Step, NEW t \in Threads, Executes(t)
  PROVE  Order'
<1>0. PICK r : r = cur[t]
  OBVIOUS
<1> DEFINE n == Len(executed) + 1
<1>1. /\ phase[t] = "exec" /\ executed' = Append(executed, r) /\ queue' = queue /\ cur' = cur
      /\ phase'[t] # "exec"
  BY <1>0 DEF Executes, ExecuteCommand, ExecuteExit, ExecuteShutdown, IInv, TypeOK, qvars
<1>2. r \in Requests /\ r # None
  BY <1>0, <1>1, CurRequest, RequestTypes DEF IInv
<1>3. /\ executed'[n] = r /\ DOMAIN executed' = DOMAIN executed \cup {n}
      /\ \A i \in DOMAIN executed : executed'[i] = executed[i] /\ i \in Nat /\ i < n
      /\ n \in Nat
  BY <1>1, <1>2, AppendFacts DEF IInv, TypeOK
<1>4. \A i \in DOMAIN executed : Before(executed[i], r)
  BY <1>0, <1>1, <1>2 DEF IInv, Order, CurBetween
<1>5. \A j \in DOMAIN queue : Before(r, queue[j])
  BY <1>0, <1>1, <1>2 DEF IInv, Order, CurBetween
<1>6. \A x \in Threads : x # t => cur[x] = None
  BY <1>1, Alone DEF IInv
<1>7. \A i \in DOMAIN queue : queue[i] \in Requests
  BY DEF IInv, TypeOK
<1>8. \A i \in DOMAIN executed : executed[i] \in Requests
  BY DEF IInv, TypeOK
<1> HIDE DEF n
<1>9. AllNumbered'
  BY <1>0, <1>1, <1>2, <1>3, <1>6, <1>7, <1>8, KeepsNumber DEF IInv, Order, AllNumbered
<1>10. InOrder'
  BY <1>3, <1>4 DEF IInv, Order, InOrder
<1>11. ExecutedFirst' /\ QueueSorted'
  BY <1>1, <1>3, <1>5 DEF IInv, Order, ExecutedFirst, QueueSorted
<1>12. CurBetween'
  BY <1>0, <1>1, <1>5, <1>6 DEF CurBetween
<1> QED
  BY <1>9, <1>10, <1>11, <1>12 DEF Order

\* A request that is given up leaves the others in order.
LEMMA DropOrder ==
  ASSUME IInv, ~crashed, Step, NEW t \in Threads, Drops(t)
  PROVE  Order'
<1>1. /\ queue' = queue /\ executed' = executed /\ phase[t] \notin {"idle", "want"}
      /\ cur' = [cur EXCEPT ![t] = None]
  BY DEF Drops, ShutdownExit, DeleteRequest, qvars
<1>2. \A x \in Threads : cur'[x] = None
  BY <1>1, Alone DEF IInv, TypeOK
<1>3. \A i \in DOMAIN queue : queue[i] \in Requests
  BY DEF IInv, TypeOK
<1>4. \A i \in DOMAIN executed : executed[i] \in Requests
  BY DEF IInv, TypeOK
<1>5. AllNumbered'
  BY <1>1, <1>2, <1>3, <1>4, KeepsNumber DEF IInv, Order, AllNumbered
<1> QED
  BY <1>1, <1>2, <1>5 DEF IInv, Order, InOrder, QueueSorted, ExecutedFirst, CurBetween

\* Every step keeps the requests of a console in order.
LEMMA OrderStep ==
  ASSUME IInv, ~crashed, Step
  PROVE  Order'
  BY QuietSteps, QuietOrder, PushOrder, PopOrder, ExecuteOrder, DropOrder DEF Moves

-----------------------------------------------------------------------------
(* Entering a shell. *)

\* The request for the shell stays where somebody will execute it.
LEMMA ShellStaysDue ==
  ASSUME IInv, ~crashed, Step, NEW c \in Consoles, ShellDue(c), lines'[c] = lines[c],
         hasShell'[c] \in BOOLEAN
  PROVE  hasShell'[c] \/ ShellDue(c)'
<1>0. PICK r : r = ShellRequest(c)
  OBVIOUS
<1>1. ShellRequest(c)' = r /\ Console(r) = c /\ Kind(r) = "shell"
  BY <1>0 DEF ShellRequest, Console, Kind
<1>2. CASE Quiet
  BY <1>0, <1>1, <1>2 DEF Quiet, ShellDue
<1>3. ASSUME NEW d \in Consoles, Pushes(d) PROVE ShellDue(c)'
  <2>1. queue' = Append(queue, Request(d)) /\ cur' = cur /\ Request(d) \in Requests
    BY <1>3, PendingRequest DEF Pushes, pushRequest, IInv
  <2>2. \A i \in DOMAIN queue : i \in DOMAIN queue' /\ queue'[i] = queue[i]
    BY <2>1, AppendFacts DEF IInv, TypeOK
  <2>3. \A x \in Threads : phase[x] = "exec" => phase'[x] = "exec"
    BY <1>3 DEF Pushes, pushRequest, IInv, TypeOK, Callers
  <2> QED
    BY <1>0, <1>1, <2>1, <2>2, <2>3 DEF ShellDue
<1>4. ASSUME NEW t \in Threads, popRequest(t) PROVE ShellDue(c)'
  <2>1. /\ queue # <<>> /\ queue' = Tail(queue) /\ phase[t] = "next"
        /\ cur' = [cur EXCEPT ![t] = Head(queue)] /\ phase' = [phase EXCEPT ![t] = "exec"]
    BY <1>4 DEF popRequest
  <2>2. Head(queue) = queue[1] /\ \A i \in DOMAIN queue : i = 1 \/ (i - 1 \in DOMAIN queue' /\ queue'[i - 1] = queue[i])
    BY <2>1, TailFacts DEF IInv, TypeOK
  <2>3. cur'[t] = queue[1] /\ phase'[t] = "exec"
    BY <2>1, <2>2 DEF IInv, TypeOK
  <2>4. \A x \in Threads : phase[x] # "exec"
    BY <2>1, Alone DEF IInv
  <2>5. PICK i \in DOMAIN queue : queue[i] = r
    BY <1>0, <2>4 DEF ShellDue
  <2> QED
    BY <1>1, <2>2, <2>3, <2>5 DEF ShellDue
<1>5. ASSUME NEW t \in Threads, Executes(t) PROVE hasShell'[c] \/ ShellDue(c)'
  <2>1. phase[t] = "exec" /\ queue' = queue
    BY <1>5 DEF Executes, ExecuteCommand, ExecuteExit, ExecuteShutdown, qvars
  <2>2. CASE cur[t] = r
    <3>1. ExecuteCommand(t)
      BY <1>1, <1>5, <2>2 DEF Executes, ExecuteExit, ExecuteShutdown
    <3> QED
      BY <1>1, <2>2, <3>1 DEF ExecuteCommand, IInv, TypeOK
  <2>3. CASE cur[t] # r
    <3>1. \A x \in Threads : x # t => phase[x] # "exec"
      BY <2>1, Alone DEF IInv
    <3>2. PICK i \in DOMAIN queue : queue[i] = r
      BY <1>0, <2>3, <3>1 DEF ShellDue
    <3> QED
      BY <1>1, <2>1, <3>2 DEF ShellDue
  <2> QED
    BY <2>2, <2>3
<1>6. ASSUME NEW t \in Threads, Drops(t) PROVE ShellDue(c)'
  <2>1. /\ queue' = queue /\ phase[t] \notin {"idle", "want", "exec"}
    BY <1>6 DEF Drops, ShutdownExit, DeleteRequest, qvars
  <2>2. \A x \in Threads : phase[x] # "exec"
    BY <2>1, Alone DEF IInv
  <2> QED
    BY <1>0, <1>1, <2>1, <2>2 DEF ShellDue
<1> QED
  BY QuietSteps, <1>2, <1>3, <1>4, <1>5, <1>6 DEF Moves

\* processRequests() returns to a handler thread only with an empty queue, or
\* by the exception that ends the process.
LEMMA ReturnsEmpty ==
  ASSUME IInv, ~crashed, Step, NEW c \in Consoles, phase[c] # "idle", phase'[c] = "idle"
  PROVE  crashed' \/ ~ShellDue(c)
<1>0. c # Loop
  BY RequestLoopAssumption
<1>1. ASSUME NEW d \in Consoles, HandlerStep(d) PROVE crashed' \/ ~ShellDue(c)
  <2>1. CASE LineToShell(d)
    BY <2>1, <1>0 DEF IInv, TypeOK, Callers, Threads, LineToShell, ReadFrame, qvars, pvars,
       cvars
  <2>2. CASE LineRefused(d)
    BY <2>2, <1>0 DEF IInv, TypeOK, Callers, Threads, LineRefused, ReadFrame, qvars, pvars,
       cvars
  <2>3. CASE LineIgnored(d)
    BY <2>3, <1>0 DEF IInv, TypeOK, Callers, Threads, LineIgnored, ReadFrame, qvars, pvars,
       cvars
  <2>4. CASE LineToExpr(d)
    BY <2>4, <1>0 DEF IInv, TypeOK, Callers, Threads, LineToExpr, ReadFrame, qvars, pvars,
       cvars
  <2>5. CASE OpenShell(d)
    BY <2>5, <1>0 DEF IInv, TypeOK, Callers, Threads, OpenShell, ReadFrame, qvars, pvars,
       cvars
  <2>6. CASE FallThrough(d)
    BY <2>6, <1>0 DEF IInv, TypeOK, Callers, Threads, FallThrough, ReadFrame, qvars, pvars,
       cvars
  <2>7. CASE LineToRequest(d)
    BY <2>7, <1>0 DEF IInv, TypeOK, Callers, Threads, LineToRequest, ReadFrame, qvars,
       pvars, cvars
  <2>8. CASE pushRequest(d)
    BY <2>8, <1>0 DEF IInv, TypeOK, Callers, Threads, pushRequest, cvars
  <2>9. CASE OnLineReturns(d)
    BY <2>9, <1>0 DEF IInv, TypeOK, Callers, Threads, OnLineReturns, ReadFrame, qvars,
       pvars, cvars
  <2>10. CASE LeaveReadLoop(d)
    BY <2>10, <1>0 DEF IInv, TypeOK, Callers, Threads, LeaveReadLoop, ReadFrame, qvars,
       pvars, cvars
  <2>11. CASE ConsoleDtor(d)
    BY <2>11, <1>0 DEF IInv, TypeOK, Callers, Threads, ConsoleDtor, ReadFrame, qvars,
       pvars, cvars
  <2> QED
    BY <1>1, <2>1, <2>2, <2>3, <2>4, <2>5, <2>6, <2>7, <2>8, <2>9, <2>10, <2>11
       DEF HandlerStep
<1>2. ASSUME NEW t \in Threads, ProcessStep(t) PROVE crashed' \/ ~ShellDue(c)
  <2>1. CASE LockRequests(t)
    BY <2>1, <1>0 DEF IInv, TypeOK, Callers, Threads, LockRequests, ProcFrame, qvars,
       cvars, hvars
  <2>2. CASE QueueEmpty(t)
    <3>1. t = c /\ queue = <<>> /\ phase[c] = "next"
      BY <2>2 DEF QueueEmpty, IInv, TypeOK
    <3>2. \A x \in Threads : phase[x] # "exec"
      BY <3>1, Alone DEF IInv
    <3> QED
      BY <3>1, <3>2 DEF ShellDue
  <2>3. CASE popRequest(t)
    BY <2>3, <1>0 DEF IInv, TypeOK, Callers, Threads, popRequest, ProcFrame, qvars, cvars,
       hvars
  <2>4. CASE popCanceled(t)
    BY <2>4, <1>0 DEF IInv, TypeOK, Callers, Threads, popCanceled, qvars, cvars, hvars
  <2>5. CASE ExecuteCommand(t)
    BY <2>5, <1>0 DEF IInv, TypeOK, Callers, Threads, ExecuteCommand, ProcFrame, qvars,
       cvars, hvars
  <2>6. CASE ExecuteExit(t)
    BY <2>6, <1>0 DEF IInv, TypeOK, Callers, Threads, ExecuteExit, ProcFrame, qvars, cvars,
       hvars
  <2>7. CASE ExecuteShutdown(t)
    BY <2>7, <1>0 DEF IInv, TypeOK, Callers, Threads, ExecuteShutdown, ProcFrame, qvars,
       cvars, hvars
  <2>8. CASE ShutdownCancel(t)
    BY <2>8, <1>0 DEF IInv, TypeOK, Callers, Threads, ShutdownCancel, ProcFrame, qvars,
       cvars, hvars
  <2>9. CASE ShutdownPut(t)
    BY <2>9, <1>0 DEF IInv, TypeOK, Callers, Threads, ShutdownPut, ProcFrame, qvars, cvars,
       hvars
  <2>10. CASE ShutdownExit(t)
    BY <2>10, <1>0 DEF IInv, TypeOK, Callers, Threads, ShutdownExit, ProcFrame, qvars,
       cvars, hvars
  <2>11. CASE DeleteRequest(t)
    BY <2>11, <1>0 DEF IInv, TypeOK, Callers, Threads, DeleteRequest, ProcFrame, qvars,
       cvars, hvars
  <2> QED
    BY <1>2, <2>1, <2>2, <2>3, <2>4, <2>5, <2>6, <2>7, <2>8, <2>9, <2>10, <2>11
       DEF ProcessStep
<1>3. ASSUME LoopStep PROVE crashed' \/ ~ShellDue(c)
  <2>1. CASE LoopWhile
    BY <2>1, <1>0 DEF IInv, TypeOK, Callers, Threads, LoopWhile, LoopFrame, hvars
  <2>2. CASE LoopBarrier
    BY <2>2, <1>0 DEF IInv, TypeOK, Callers, Threads, LoopBarrier, LoopFrame, hvars
  <2>3. CASE LoopSize
    BY <2>3, <1>0 DEF IInv, TypeOK, Callers, Threads, LoopSize, LoopFrame, hvars
  <2>4. CASE LoopProcessed
    BY <2>4, <1>0 DEF IInv, TypeOK, Callers, Threads, LoopProcessed, LoopFrame, hvars
  <2>5. CASE LoopReset
    BY <2>5, <1>0 DEF IInv, TypeOK, Callers, Threads, LoopReset, LoopFrame, hvars
  <2>6. CASE LoopStopListening
    BY <2>6, <1>0 DEF IInv, TypeOK, Callers, Threads, LoopStopListening, LoopFrame, hvars
  <2>7. CASE LoopDrain
    BY <2>7, <1>0 DEF IInv, TypeOK, Callers, Threads, LoopDrain, LoopFrame, hvars
  <2>8. CASE LoopJoin
    BY <2>8, <1>0 DEF IInv, TypeOK, Callers, Threads, LoopJoin, LoopFrame, hvars
  <2> QED
    BY <1>3, <2>1, <2>2, <2>3, <2>4, <2>5, <2>6, <2>7, <2>8 DEF LoopStep
<1>4. ASSUME UserMoves PROVE crashed' \/ ~ShellDue(c)
  <2>1. CASE UserStop
    BY <2>1, <1>0 DEF IInv, TypeOK, Callers, Threads, UserStop, qvars, pvars, hvars, cvars
  <2>2. CASE UserCancel
    BY <2>2, <1>0 DEF IInv, TypeOK, Callers, Threads, UserCancel, qvars, pvars, hvars, cvars
  <2> QED
    BY <1>4, <2>1, <2>2 DEF UserMoves
<1> QED
  BY <1>1, <1>2, <1>3, <1>4 DEF Step

Kept(c) ==
  /\ hpc[c] = "processing" => lines'[c] = lines[c]
  /\ hasShell'[c] \in BOOLEAN /\ (hpc[c] # "dtor" /\ hasShell[c] => hasShell'[c])

\* A console keeps its shell until its destructor, and reads no line while a request of its is waited for.
LEMMA ShellKept ==
  ASSUME IInv, ~crashed, Step, NEW c \in Consoles
  PROVE  Kept(c)
<1>1. ASSUME NEW d \in Consoles, HandlerStep(d) PROVE Kept(c)
  <2>1. CASE LineToShell(d)
    BY <2>1 DEF Kept, IInv, TypeOK, LineToShell, ReadFrame, qvars, pvars, cvars
  <2>2. CASE LineRefused(d)
    BY <2>2 DEF Kept, IInv, TypeOK, LineRefused, ReadFrame, qvars, pvars, cvars
  <2>3. CASE LineIgnored(d)
    BY <2>3 DEF Kept, IInv, TypeOK, LineIgnored, ReadFrame, qvars, pvars, cvars
  <2>4. CASE LineToExpr(d)
    BY <2>4 DEF Kept, IInv, TypeOK, LineToExpr, ReadFrame, qvars, pvars, cvars
  <2>5. CASE OpenShell(d)
    BY <2>5 DEF Kept, IInv, TypeOK, OpenShell, ReadFrame, qvars, pvars, cvars
  <2>6. CASE FallThrough(d)
    BY <2>6 DEF Kept, IInv, TypeOK, FallThrough, ReadFrame, qvars, pvars, cvars
  <2>7. CASE LineToRequest(d)
    BY <2>7 DEF Kept, IInv, TypeOK, LineToRequest, ReadFrame, qvars, pvars, cvars
  <2>8. CASE pushRequest(d)
    BY <2>8 DEF Kept, IInv, TypeOK, pushRequest, cvars
  <2>9. CASE OnLineReturns(d)
    BY <2>9 DEF Kept, IInv, TypeOK, OnLineReturns, ReadFrame, qvars, pvars, cvars
  <2>10. CASE LeaveReadLoop(d)
    BY <2>10 DEF Kept, IInv, TypeOK, LeaveReadLoop, ReadFrame, qvars, pvars, cvars
  <2>11. CASE ConsoleDtor(d)
    BY <2>11 DEF Kept, IInv, TypeOK, ConsoleDtor, ReadFrame, qvars, pvars, cvars
  <2> QED
    BY <1>1, <2>1, <2>2, <2>3, <2>4, <2>5, <2>6, <2>7, <2>8, <2>9, <2>10, <2>11
       DEF HandlerStep
<1>2. ASSUME NEW t \in Threads, ProcessStep(t) PROVE Kept(c)
  <2>1. CASE LockRequests(t)
    BY <2>1 DEF Kept, IInv, TypeOK, LockRequests, ProcFrame, qvars, cvars, hvars
  <2>2. CASE QueueEmpty(t)
    BY <2>2 DEF Kept, IInv, TypeOK, QueueEmpty, ProcFrame, qvars, cvars, hvars
  <2>3. CASE popRequest(t)
    BY <2>3 DEF Kept, IInv, TypeOK, popRequest, ProcFrame, qvars, cvars, hvars
  <2>4. CASE popCanceled(t)
    BY <2>4 DEF Kept, IInv, TypeOK, popCanceled, qvars, cvars, hvars
  <2>5. CASE ExecuteCommand(t)
    <3>1. Console(cur[t]) \in Consoles
      BY <2>5, CurRequest DEF Kept, IInv, ExecuteCommand
    <3> QED
      BY <2>5, <3>1 DEF Kept, IInv, TypeOK, ExecuteCommand, ProcFrame, hvars
  <2>6. CASE ExecuteExit(t)
    BY <2>6 DEF Kept, IInv, TypeOK, ExecuteExit, ProcFrame, qvars, cvars, hvars
  <2>7. CASE ExecuteShutdown(t)
    BY <2>7 DEF Kept, IInv, TypeOK, ExecuteShutdown, ProcFrame, qvars, cvars, hvars
  <2>8. CASE ShutdownCancel(t)
    BY <2>8 DEF Kept, IInv, TypeOK, ShutdownCancel, ProcFrame, qvars, cvars, hvars
  <2>9. CASE ShutdownPut(t)
    BY <2>9 DEF Kept, IInv, TypeOK, ShutdownPut, ProcFrame, qvars, cvars, hvars
  <2>10. CASE ShutdownExit(t)
    BY <2>10 DEF Kept, IInv, TypeOK, ShutdownExit, ProcFrame, qvars, cvars, hvars
  <2>11. CASE DeleteRequest(t)
    BY <2>11 DEF Kept, IInv, TypeOK, DeleteRequest, ProcFrame, qvars, cvars, hvars
  <2> QED
    BY <1>2, <2>1, <2>2, <2>3, <2>4, <2>5, <2>6, <2>7, <2>8, <2>9, <2>10, <2>11
       DEF ProcessStep
<1>3. ASSUME LoopStep PROVE Kept(c)
  <2>1. CASE LoopWhile
    BY <2>1 DEF Kept, IInv, TypeOK, LoopWhile, LoopFrame, hvars
  <2>2. CASE LoopBarrier
    BY <2>2 DEF Kept, IInv, TypeOK, LoopBarrier, LoopFrame, hvars
  <2>3. CASE LoopSize
    BY <2>3 DEF Kept, IInv, TypeOK, LoopSize, LoopFrame, hvars
  <2>4. CASE LoopProcessed
    BY <2>4 DEF Kept, IInv, TypeOK, LoopProcessed, LoopFrame, hvars
  <2>5. CASE LoopReset
    BY <2>5 DEF Kept, IInv, TypeOK, LoopReset, LoopFrame, hvars
  <2>6. CASE LoopStopListening
    BY <2>6 DEF Kept, IInv, TypeOK, LoopStopListening, LoopFrame, hvars
  <2>7. CASE LoopDrain
    BY <2>7 DEF Kept, IInv, TypeOK, LoopDrain, LoopFrame, hvars
  <2>8. CASE LoopJoin
    BY <2>8 DEF Kept, IInv, TypeOK, LoopJoin, LoopFrame, hvars
  <2> QED
    BY <1>3, <2>1, <2>2, <2>3, <2>4, <2>5, <2>6, <2>7, <2>8 DEF LoopStep
<1>4. ASSUME UserMoves PROVE Kept(c)
  <2>1. CASE UserStop
    BY <2>1 DEF Kept, IInv, TypeOK, UserStop, qvars, pvars, hvars, cvars
  <2>2. CASE UserCancel
    BY <2>2 DEF Kept, IInv, TypeOK, UserCancel, qvars, pvars, hvars, cvars
  <2> QED
    BY <1>4, <2>1, <2>2 DEF UserMoves
<1> QED
  BY <1>1, <1>2, <1>3, <1>4 DEF Step

\* A handler executes requests itself only after it has pushed one for a shell.
LEMMA EntersProcessing ==
  ASSUME IInv, ~crashed, Step, NEW c \in Consoles, hpc[c] # "processing", hpc'[c] = "processing"
  PROVE  Pushes(c) /\ Kind(Request(c)) = "shell"
<1>1. ASSUME NEW d \in Consoles, HandlerStep(d) PROVE Pushes(c) /\ Kind(Request(c)) = "shell"
  <2>1. CASE LineToShell(d)
    BY <2>1 DEF IInv, TypeOK, LineToShell, ReadFrame, qvars, pvars, cvars
  <2>2. CASE LineRefused(d)
    BY <2>2 DEF IInv, TypeOK, LineRefused, ReadFrame, qvars, pvars, cvars
  <2>3. CASE LineIgnored(d)
    BY <2>3 DEF IInv, TypeOK, LineIgnored, ReadFrame, qvars, pvars, cvars
  <2>4. CASE LineToExpr(d)
    BY <2>4 DEF IInv, TypeOK, LineToExpr, ReadFrame, qvars, pvars, cvars
  <2>5. CASE OpenShell(d)
    BY <2>5 DEF IInv, TypeOK, OpenShell, ReadFrame, qvars, pvars, cvars
  <2>6. CASE FallThrough(d)
    BY <2>6 DEF IInv, TypeOK, FallThrough, ReadFrame, qvars, pvars, cvars
  <2>7. CASE LineToRequest(d)
    BY <2>7 DEF IInv, TypeOK, LineToRequest, ReadFrame, qvars, pvars, cvars
  <2>8. CASE pushRequest(d)
    BY <2>8 DEF Pushes, IInv, TypeOK, pushRequest
  <2>9. CASE OnLineReturns(d)
    BY <2>9 DEF IInv, TypeOK, OnLineReturns, ReadFrame, qvars, pvars, cvars
  <2>10. CASE LeaveReadLoop(d)
    BY <2>10 DEF IInv, TypeOK, LeaveReadLoop, ReadFrame, qvars, pvars, cvars
  <2>11. CASE ConsoleDtor(d)
    BY <2>11 DEF IInv, TypeOK, ConsoleDtor, ReadFrame, qvars, pvars, cvars
  <2> QED
    BY <1>1, <2>1, <2>2, <2>3, <2>4, <2>5, <2>6, <2>7, <2>8, <2>9, <2>10, <2>11
       DEF HandlerStep
<1>2. ASSUME NEW t \in Threads, ProcessStep(t) PROVE Pushes(c) /\ Kind(Request(c)) = "shell"
  <2>1. CASE LockRequests(t)
    BY <2>1 DEF LockRequests, ProcFrame, qvars, cvars, hvars
  <2>2. CASE QueueEmpty(t)
    BY <2>2 DEF QueueEmpty, ProcFrame, qvars, cvars, hvars
  <2>3. CASE popRequest(t)
    BY <2>3 DEF popRequest, ProcFrame, qvars, cvars, hvars
  <2>4. CASE popCanceled(t)
    BY <2>4 DEF popCanceled, qvars, cvars, hvars
  <2>5. CASE ExecuteCommand(t)
    BY <2>5 DEF ExecuteCommand, ProcFrame, qvars, cvars, hvars
  <2>6. CASE ExecuteExit(t)
    BY <2>6 DEF ExecuteExit, ProcFrame, qvars, cvars, hvars
  <2>7. CASE ExecuteShutdown(t)
    BY <2>7 DEF ExecuteShutdown, ProcFrame, qvars, cvars, hvars
  <2>8. CASE ShutdownCancel(t)
    BY <2>8 DEF ShutdownCancel, ProcFrame, qvars, cvars, hvars
  <2>9. CASE ShutdownPut(t)
    BY <2>9 DEF ShutdownPut, ProcFrame, qvars, cvars, hvars
  <2>10. CASE ShutdownExit(t)
    BY <2>10 DEF ShutdownExit, ProcFrame, qvars, cvars, hvars
  <2>11. CASE DeleteRequest(t)
    BY <2>11 DEF DeleteRequest, ProcFrame, qvars, cvars, hvars
  <2> QED
    BY <1>2, <2>1, <2>2, <2>3, <2>4, <2>5, <2>6, <2>7, <2>8, <2>9, <2>10, <2>11
       DEF ProcessStep
<1>3. ASSUME LoopStep PROVE Pushes(c) /\ Kind(Request(c)) = "shell"
  <2>1. CASE LoopWhile
    BY <2>1 DEF LoopWhile, LoopFrame, hvars
  <2>2. CASE LoopBarrier
    BY <2>2 DEF LoopBarrier, LoopFrame, hvars
  <2>3. CASE LoopSize
    BY <2>3 DEF LoopSize, LoopFrame, hvars
  <2>4. CASE LoopProcessed
    BY <2>4 DEF LoopProcessed, LoopFrame, hvars
  <2>5. CASE LoopReset
    BY <2>5 DEF LoopReset, LoopFrame, hvars
  <2>6. CASE LoopStopListening
    BY <2>6 DEF LoopStopListening, LoopFrame, hvars
  <2>7. CASE LoopDrain
    BY <2>7 DEF LoopDrain, LoopFrame, hvars
  <2>8. CASE LoopJoin
    BY <2>8 DEF LoopJoin, LoopFrame, hvars
  <2> QED
    BY <1>3, <2>1, <2>2, <2>3, <2>4, <2>5, <2>6, <2>7, <2>8 DEF LoopStep
<1>4. ASSUME UserMoves PROVE Pushes(c) /\ Kind(Request(c)) = "shell"
  <2>1. CASE UserStop
    BY <2>1 DEF UserStop, qvars, pvars, hvars, cvars
  <2>2. CASE UserCancel
    BY <2>2 DEF UserCancel, qvars, pvars, hvars, cvars
  <2> QED
    BY <1>4, <2>1, <2>2 DEF UserMoves
<1> QED
  BY <1>1, <1>2, <1>3, <1>4 DEF Step

\* The request for a shell that a handler waits for is not lost.
LEMMA ShellComesStep ==
  ASSUME IInv, ~crashed, Step
  PROVE  ShellComes'
<1> SUFFICES ASSUME NEW c \in Consoles, hpc'[c] = "processing"
             PROVE  hasShell'[c] \/ crashed' \/ (phase'[c] # "idle" /\ ShellDue(c)')
  BY DEF ShellComes
<1>1. CASE hpc[c] = "processing"
  <2>1. lines'[c] = lines[c] /\ hasShell'[c] \in BOOLEAN /\ (hasShell[c] => hasShell'[c])
    BY <1>1, ShellKept DEF Kept
  <2>2. CASE hasShell[c]
    BY <2>1, <2>2
  <2>3. CASE ~hasShell[c]
    <3>1. phase[c] # "idle" /\ ShellDue(c)
      BY <1>1, <2>3 DEF IInv, ShellComes
    <3> QED
      BY <2>1, <3>1, ShellStaysDue, ReturnsEmpty
  <2> QED
    BY <2>2, <2>3
<1>2. CASE hpc[c] # "processing"
  <2>1. Pushes(c) /\ Kind(Request(c)) = "shell"
    BY <1>2, EntersProcessing
  <2>2. Request(c) \in Requests /\ Request(c) = <<c, lines[c], "shell">>
    BY <2>1, PendingRequest DEF IInv, Pushes, pushRequest, Request, Kind
  <2>3. queue' = Append(queue, Request(c)) /\ lines' = lines /\ phase'[c] = "want"
    BY <2>1 DEF Pushes, pushRequest, IInv, TypeOK, Threads
  <2>4. Len(queue) + 1 \in DOMAIN queue' /\ queue'[Len(queue) + 1] = Request(c)
    BY <2>2, <2>3, AppendFacts DEF IInv, TypeOK
  <2> QED
    BY <2>2, <2>3, <2>4 DEF ShellDue, ShellRequest
<1> QED
  BY <1>1, <1>2

\* OnLine() returns from a line that asks for a shell with the shell, or not at all.
LEMMA ShellEnteredStep ==
  ASSUME IInv, ~crashed, Step
  PROVE  ShellEntered'
<1>1. ASSUME NEW c \in Consoles, HandlerStep(c) PROVE ShellEntered'
  <2>1. CASE LineToShell(c)
    BY <2>1 DEF IInv, ShellEntered, RequestKind, TypeOK, LineToShell, ReadFrame, qvars,
       pvars, cvars
  <2>2. CASE LineRefused(c)
    BY <2>2 DEF IInv, ShellEntered, RequestKind, TypeOK, LineRefused, ReadFrame, qvars,
       pvars, cvars
  <2>3. CASE LineIgnored(c)
    BY <2>3 DEF IInv, ShellEntered, RequestKind, TypeOK, LineIgnored, ReadFrame, qvars,
       pvars, cvars
  <2>4. CASE LineToExpr(c)
    BY <2>4 DEF IInv, ShellEntered, RequestKind, TypeOK, LineToExpr, ReadFrame, qvars,
       pvars, cvars
  <2>5. CASE OpenShell(c)
    BY <2>5 DEF IInv, ShellEntered, RequestKind, TypeOK, OpenShell, ReadFrame, qvars,
       pvars, cvars
  <2>6. CASE FallThrough(c)
    BY <2>6 DEF IInv, ShellEntered, RequestKind, TypeOK, FallThrough, ReadFrame, qvars,
       pvars, cvars
  <2>7. CASE LineToRequest(c)
    BY <2>7 DEF IInv, ShellEntered, RequestKind, TypeOK, LineToRequest, ReadFrame, qvars,
       pvars, cvars
  <2>8. CASE pushRequest(c)
    BY <2>8 DEF IInv, LinesRead, ShellEntered, RequestKind, Request, Kind, TypeOK,
       pushRequest, cvars
  <2>9. CASE OnLineReturns(c)
    BY <2>9 DEF IInv, LinesRead, ShellComes, ShellEntered, RequestKind, TypeOK,
       OnLineReturns, ReadFrame, qvars, pvars, cvars
  <2>10. CASE LeaveReadLoop(c)
    BY <2>10 DEF IInv, ShellEntered, RequestKind, TypeOK, LeaveReadLoop, ReadFrame, qvars,
       pvars, cvars
  <2>11. CASE ConsoleDtor(c)
    BY <2>11 DEF IInv, ShellEntered, RequestKind, TypeOK, ConsoleDtor, ReadFrame, qvars,
       pvars, cvars
  <2> QED
    BY <1>1, <2>1, <2>2, <2>3, <2>4, <2>5, <2>6, <2>7, <2>8, <2>9, <2>10, <2>11
       DEF HandlerStep
<1>2. ASSUME NEW t \in Threads, ProcessStep(t) PROVE ShellEntered'
  <2>1. CASE LockRequests(t)
    BY <2>1 DEF IInv, ShellEntered, RequestKind, TypeOK, LockRequests, ProcFrame, qvars,
       cvars, hvars
  <2>2. CASE QueueEmpty(t)
    BY <2>2 DEF IInv, ShellEntered, RequestKind, TypeOK, QueueEmpty, ProcFrame, qvars,
       cvars, hvars
  <2>3. CASE popRequest(t)
    BY <2>3 DEF IInv, ShellEntered, RequestKind, TypeOK, popRequest, ProcFrame, qvars,
       cvars, hvars
  <2>4. CASE popCanceled(t)
    BY <2>4 DEF IInv, ShellEntered, RequestKind, TypeOK, popCanceled, qvars, cvars, hvars
  <2>5. CASE ExecuteCommand(t)
    <3>1. \A c \in Consoles : hpc[c] = "read" /\ hasShell[c] => hasShell'[c]
      BY ShellKept DEF Kept
    <3> QED
      BY <2>5, <3>1 DEF IInv, ShellEntered, RequestKind, TypeOK, ExecuteCommand, ProcFrame,
         qvars, hvars
  <2>6. CASE ExecuteExit(t)
    BY <2>6 DEF IInv, ShellEntered, RequestKind, TypeOK, ExecuteExit, ProcFrame, qvars,
       cvars, hvars
  <2>7. CASE ExecuteShutdown(t)
    BY <2>7 DEF IInv, ShellEntered, RequestKind, TypeOK, ExecuteShutdown, ProcFrame, qvars,
       cvars, hvars
  <2>8. CASE ShutdownCancel(t)
    BY <2>8 DEF IInv, ShellEntered, RequestKind, TypeOK, ShutdownCancel, ProcFrame, qvars,
       cvars, hvars
  <2>9. CASE ShutdownPut(t)
    BY <2>9 DEF IInv, ShellEntered, RequestKind, TypeOK, ShutdownPut, ProcFrame, qvars,
       cvars, hvars
  <2>10. CASE ShutdownExit(t)
    BY <2>10 DEF IInv, ShellEntered, RequestKind, TypeOK, ShutdownExit, ProcFrame, qvars,
       cvars, hvars
  <2>11. CASE DeleteRequest(t)
    BY <2>11 DEF IInv, ShellEntered, RequestKind, TypeOK, DeleteRequest, ProcFrame, qvars,
       cvars, hvars
  <2> QED
    BY <1>2, <2>1, <2>2, <2>3, <2>4, <2>5, <2>6, <2>7, <2>8, <2>9, <2>10, <2>11
       DEF ProcessStep
<1>3. ASSUME LoopStep PROVE ShellEntered'
  <2>1. CASE LoopWhile
    BY <2>1 DEF IInv, ShellEntered, RequestKind, TypeOK, LoopWhile, LoopFrame, hvars
  <2>2. CASE LoopBarrier
    BY <2>2 DEF IInv, ShellEntered, RequestKind, TypeOK, LoopBarrier, LoopFrame, hvars
  <2>3. CASE LoopSize
    BY <2>3 DEF IInv, ShellEntered, RequestKind, TypeOK, LoopSize, LoopFrame, hvars
  <2>4. CASE LoopProcessed
    BY <2>4 DEF IInv, ShellEntered, RequestKind, TypeOK, LoopProcessed, LoopFrame, hvars
  <2>5. CASE LoopReset
    BY <2>5 DEF IInv, ShellEntered, RequestKind, TypeOK, LoopReset, LoopFrame, hvars
  <2>6. CASE LoopStopListening
    BY <2>6 DEF IInv, ShellEntered, RequestKind, TypeOK, LoopStopListening, LoopFrame, hvars
  <2>7. CASE LoopDrain
    BY <2>7 DEF IInv, ShellEntered, RequestKind, TypeOK, LoopDrain, LoopFrame, hvars
  <2>8. CASE LoopJoin
    BY <2>8 DEF IInv, ShellEntered, RequestKind, TypeOK, LoopJoin, LoopFrame, hvars
  <2> QED
    BY <1>3, <2>1, <2>2, <2>3, <2>4, <2>5, <2>6, <2>7, <2>8 DEF LoopStep
<1>4. ASSUME UserMoves PROVE ShellEntered'
  <2>1. CASE UserStop
    BY <2>1 DEF IInv, ShellEntered, RequestKind, TypeOK, UserStop, qvars, pvars, hvars,
       cvars
  <2>2. CASE UserCancel
    BY <2>2 DEF IInv, ShellEntered, RequestKind, TypeOK, UserCancel, qvars, pvars, hvars,
       cvars
  <2> QED
    BY <1>4, <2>1, <2>2 DEF UserMoves
<1> QED
  BY <1>1, <1>2, <1>3, <1>4 DEF Step

-----------------------------------------------------------------------------
(* The use count of a console. *)

\* A request is queued or being executed; c is about to push one.
InHand(r) ==
  \/ \E i \in DOMAIN queue : queue[i] = r
  \/ \E t \in Threads : cur[t] = r /\ phase[t] # "touch"
Pending(c) == hpc[c] \in {"push", "help"}

\* The requests that point to a console, now and after the step.
LEMMA HoldingIs ==
  ASSUME NEW c \in Consoles
  PROVE  /\ Holding(c) = {r \in Requests : Console(r) = c /\ (InHand(r) \/ (Pending(c) /\ r = Request(c)))}
         /\ Holding(c)' = {r \in Requests : Console(r) = c /\ (InHand(r)' \/ (Pending(c)' /\ r = Request(c)'))}
  BY DEF Holding, InHand, Pending

\* Requests in hand have their place among the lines read.
LEMMA InHandNumbered ==
  ASSUME IInv, NEW r \in Requests, InHand(r)
  PROVE  Numbered(r)
<1>1. r # None
  BY RequestTypes
<1> QED
  BY <1>1 DEF InHand, IInv, Order, AllNumbered

\* A step that neither creates nor gives up a request.
Same ==
  /\ useCount' = useCount /\ \A r \in Requests : InHand(r)' <=> InHand(r)
  /\ \A c \in Consoles : /\ Pending(c)' <=> Pending(c)
                         /\ Pending(c) => Request(c)' = Request(c)
                         /\ hpc'[c] = "gone" => hpc[c] = "gone" \/ useCount[c] = 0

\* Handler thread c makes a request (get()).
Gets(c) ==
  /\ useCount' = [useCount EXCEPT ![c] = @ + 1] /\ UNCHANGED <<queue, cur, phase>>
  /\ ~Pending(c) /\ Pending(c)'
  /\ lines[c] \in 0..Len(Script[c]) /\ lines'[c] \in 1..Len(Script[c]) /\ RequestKind(c)' \in RequestKinds
  /\ (Unsent(c) /\ lines'[c] = lines[c]) \/ lines'[c] = lines[c] + 1
  /\ \A d \in Consoles : d # c => hpc'[d] = hpc[d] /\ lines'[d] = lines[d]

\* The request of t gives up its console (put()).
Puts(t) ==
  /\ phase[t] \in {"put", "delete", "putexit"}
  /\ useCount' = [useCount EXCEPT ![Console(cur[t])] = @ - 1] /\ UNCHANGED <<queue, hpc, lines>>
  /\ (cur' = cur /\ phase'[t] = "touch") \/ cur'[t] = None
  /\ \A x \in Threads : x # t => cur'[x] = cur[x] /\ phase'[x] = phase[x]

\* A step that moves no request leaves them with those who hold them.
LEMMA UnchangedHands ==
  ASSUME UNCHANGED <<queue, cur>>, \A t \in Threads : phase'[t] = "touch" <=> phase[t] = "touch"
  PROVE  \A r \in Requests : InHand(r)' <=> InHand(r)
  BY DEF InHand

\* A push passes a request from the handler to the queue: the count stays.
LEMMA PushSame ==
  ASSUME IInv, ~crashed, NEW c \in Consoles, Pushes(c)
  PROVE  useCount' = useCount /\ \A d \in Consoles : Holding(d)' = Holding(d) /\ (hpc'[d] = "gone" => hpc[d] = "gone")
<1>0. PICK q : q = Request(c)
  OBVIOUS
<1>1. /\ Pending(c) /\ queue' = Append(queue, q) /\ UNCHANGED <<cur, lines, useCount>> /\ ~Pending(c)'
      /\ \A d \in Consoles : hpc'[d] = "gone" => hpc[d] = "gone"
      /\ \A d \in Consoles : d # c => hpc'[d] = hpc[d]
  BY <1>0 DEF Pushes, pushRequest, Pending, cvars, IInv, TypeOK
<1>2. q \in Requests /\ Console(q) = c
  BY <1>0, <1>1, PendingRequest DEF IInv, Pending
<1>3. \A x \in Threads : phase'[x] = "touch" <=> phase[x] = "touch"
  BY DEF Pushes, pushRequest, IInv, TypeOK, Callers
<1>4. DOMAIN queue' = DOMAIN queue \cup {Len(queue) + 1} /\ queue'[Len(queue) + 1] = q
      /\ \A i \in DOMAIN queue : queue'[i] = queue[i]
  BY <1>1, <1>2, AppendFacts DEF IInv, TypeOK
<1>5. ASSUME NEW r \in Requests PROVE InHand(r)' <=> InHand(r) \/ r = q
  BY <1>1, <1>3, <1>4 DEF InHand
<1>6. \A d \in Consoles : d # c => (Pending(d)' <=> Pending(d)) /\ Request(d)' = Request(d)
  BY <1>1 DEF Pending, Request, RequestKind
<1>7. ASSUME NEW d \in Consoles, d # c PROVE Holding(d)' = Holding(d)
  BY <1>2, <1>5, <1>6, <1>7, HoldingIs
<1>8. Holding(c)' = Holding(c)
  BY <1>0, <1>1, <1>2, <1>5, HoldingIs
<1> QED
  BY <1>1, <1>7, <1>8

\* A pop passes it from the queue to a thread.
LEMMA PopSame ==
  ASSUME IInv, NEW t \in Threads, popRequest(t)
  PROVE  Same
<1>1. /\ queue # <<>> /\ queue' = Tail(queue) /\ phase[t] = "next"
      /\ cur' = [cur EXCEPT ![t] = Head(queue)] /\ phase' = [phase EXCEPT ![t] = "exec"]
      /\ UNCHANGED <<useCount, hpc, lines>>
  BY DEF popRequest, ProcFrame, cvars, hvars
<1>2. /\ 1 \in DOMAIN queue /\ Head(queue) = queue[1]
      /\ \A i \in DOMAIN queue' : queue'[i] = queue[i + 1] /\ i + 1 \in DOMAIN queue
      /\ \A i \in DOMAIN queue : i = 1 \/ (i - 1 \in DOMAIN queue' /\ queue'[i - 1] = queue[i])
  BY <1>1, TailFacts DEF IInv, TypeOK
<1>3. cur'[t] = queue[1] /\ phase'[t] = "exec" /\ \A x \in Threads : x # t => cur'[x] = cur[x] /\ phase'[x] = phase[x]
  BY <1>1, <1>2 DEF IInv, TypeOK
<1>4. cur[t] = None
  BY <1>1 DEF IInv, Exclusive
<1>5. ASSUME NEW r \in Requests PROVE InHand(r)' <=> InHand(r)
  <2>0. r # None
    BY RequestTypes
  <2>1. ASSUME InHand(r) PROVE InHand(r)'
    <3>1. CASE \E i \in DOMAIN queue : queue[i] = r
      BY <1>2, <1>3, <3>1 DEF InHand
    <3>2. CASE \E x \in Threads : cur[x] = r /\ phase[x] # "touch"
      BY <1>3, <1>4, <2>0, <3>2 DEF InHand
    <3> QED
      BY <2>1, <3>1, <3>2 DEF InHand
  <2>2. ASSUME InHand(r)' PROVE InHand(r)
    <3>1. CASE \E i \in DOMAIN queue' : queue'[i] = r
      BY <1>2, <3>1 DEF InHand
    <3>2. CASE \E x \in Threads : cur'[x] = r /\ phase'[x] # "touch"
      BY <1>2, <1>3, <3>2 DEF InHand
    <3> QED
      BY <2>2, <3>1, <3>2 DEF InHand
  <2> QED
    BY <2>1, <2>2
<1> QED
  BY <1>1, <1>5 DEF Same, Pending, Request, RequestKind

\* The stop() of a shutdown request comes after it has given up its console.
LEMMA ExitSame ==
  ASSUME IInv, NEW t \in Threads, ShutdownExit(t)
  PROVE  Same
<1>1. /\ phase[t] = "touch" /\ cur' = [cur EXCEPT ![t] = None] /\ phase' = [phase EXCEPT ![t] = "next"]
      /\ UNCHANGED <<queue, useCount, hpc, lines>>
  BY DEF ShutdownExit, ProcFrame, hvars, qvars
<1>2. cur'[t] = None /\ \A x \in Threads : x # t => cur'[x] = cur[x] /\ phase'[x] = phase[x]
  BY <1>1 DEF IInv, TypeOK
<1>3. ASSUME NEW r \in Requests PROVE InHand(r)' <=> InHand(r)
  <2>1. r # None
    BY RequestTypes
  <2> QED
    BY <1>1, <1>2, <2>1 DEF InHand
<1> QED
  BY <1>1, <1>3 DEF Same, Pending, Request, RequestKind

\* What a step may do to the use counts.
CountStep ==
  \/ Same
  \/ \E c \in Consoles : Pushes(c) \/ Gets(c)
  \/ \E t \in Threads : Puts(t)

\* A step leaves the use counts alone, or adds or gives up one request.
LEMMA CountSteps ==
  ASSUME IInv, ~crashed, Step
  PROVE  CountStep
<1>1. ASSUME NEW c \in Consoles, HandlerStep(c) PROVE CountStep
  <2>1. CASE LineToShell(c)
    BY <2>1, UnchangedHands DEF CountStep, IInv, TypeOK, Same, Pending, Request,
       RequestKind, LineToShell, ReadFrame, qvars, pvars, cvars
  <2>2. CASE LineRefused(c)
    BY <2>2, UnchangedHands DEF CountStep, IInv, TypeOK, Same, Pending, Request,
       RequestKind, LineRefused, ReadFrame, qvars, pvars, cvars
  <2>3. CASE LineIgnored(c)
    BY <2>3, UnchangedHands DEF CountStep, IInv, TypeOK, Same, Pending, Request,
       RequestKind, LineIgnored, ReadFrame, qvars, pvars, cvars
  <2>4. CASE LineToExpr(c)
    BY <2>4, UnchangedHands DEF CountStep, IInv, TypeOK, Same, Pending, Request,
       RequestKind, LineToExpr, ReadFrame, qvars, pvars, cvars
  <2>5. CASE OpenShell(c)
    <3>1. CASE running
      <4>1. /\ useCount' = [useCount EXCEPT ![c] = @ + 1] /\ UNCHANGED <<queue, cur, phase>>
            /\ ~Pending(c) /\ Pending(c)'
        BY <2>5, <3>1 DEF Pending, IInv, TypeOK, OpenShell, ReadFrame, qvars, pvars
      <4>2. /\ lines[c] \in 0..Len(Script[c]) /\ lines'[c] \in 1..Len(Script[c])
            /\ (Unsent(c) /\ lines'[c] = lines[c]) \/ lines'[c] = lines[c] + 1
        BY <2>5, <3>1, ScriptTypes DEF Unsent, LinesRead, IInv, TypeOK, OpenShell
      <4>3. RequestKind(c)' \in RequestKinds
        BY <2>5, <3>1 DEF RequestKind, RequestKinds, LinesRead, IInv, TypeOK, OpenShell
      <4>4. \A d \in Consoles : d # c => hpc'[d] = hpc[d] /\ lines'[d] = lines[d]
        BY <2>5, <3>1 DEF IInv, TypeOK, OpenShell
      <4> QED
        BY <4>1, <4>2, <4>3, <4>4 DEF CountStep, Gets
    <3>2. CASE ~running
      BY <2>5, <3>2, UnchangedHands DEF CountStep, IInv, TypeOK, Same, Pending, Request,
         RequestKind, OpenShell, ReadFrame, qvars, pvars
    <3> QED
      BY <3>1, <3>2
  <2>6. CASE FallThrough(c)
    <3>1. /\ useCount' = [useCount EXCEPT ![c] = @ + 1] /\ UNCHANGED <<queue, cur, phase>>
          /\ ~Pending(c) /\ Pending(c)'
      BY <2>6 DEF Pending, IInv, TypeOK, FallThrough, ReadFrame, qvars, pvars
    <3>2. /\ lines[c] \in 0..Len(Script[c]) /\ lines'[c] \in 1..Len(Script[c])
          /\ (Unsent(c) /\ lines'[c] = lines[c]) \/ lines'[c] = lines[c] + 1
      BY <2>6, ScriptTypes DEF Unsent, LinesRead, IInv, TypeOK, FallThrough
    <3>3. RequestKind(c)' \in RequestKinds
      BY <2>6 DEF RequestKind, RequestKinds, LinesRead, IInv, TypeOK, FallThrough
    <3>4. \A d \in Consoles : d # c => hpc'[d] = hpc[d] /\ lines'[d] = lines[d]
      BY <2>6 DEF IInv, TypeOK, FallThrough
    <3> QED
      BY <3>1, <3>2, <3>3, <3>4 DEF CountStep, Gets
  <2>7. CASE LineToRequest(c)
    <3>1. /\ useCount' = [useCount EXCEPT ![c] = @ + 1] /\ UNCHANGED <<queue, cur, phase>>
          /\ ~Pending(c) /\ Pending(c)'
      BY <2>7 DEF Pending, IInv, TypeOK, LineToRequest, ReadFrame, qvars, pvars
    <3>2. /\ lines[c] \in 0..Len(Script[c]) /\ lines'[c] \in 1..Len(Script[c])
          /\ (Unsent(c) /\ lines'[c] = lines[c]) \/ lines'[c] = lines[c] + 1
      BY <2>7, ScriptTypes DEF Unsent, LinesRead, IInv, TypeOK, LineToRequest
    <3>3. RequestKind(c)' \in RequestKinds
      BY <2>7 DEF RequestKind, RequestKinds, LinesRead, IInv, TypeOK, LineToRequest
    <3>4. \A d \in Consoles : d # c => hpc'[d] = hpc[d] /\ lines'[d] = lines[d]
      BY <2>7 DEF IInv, TypeOK, LineToRequest
    <3> QED
      BY <3>1, <3>2, <3>3, <3>4 DEF CountStep, Gets
  <2>8. CASE pushRequest(c)
    <3>1. CASE canceled
      BY <2>8, <3>1, UnchangedHands DEF CountStep, Same, Pending, Request, RequestKind,
         pushRequest, cvars
    <3>2. CASE ~canceled
      BY <2>8, <3>2 DEF CountStep, Pushes
    <3> QED
      BY <3>1, <3>2
  <2>9. CASE OnLineReturns(c)
    BY <2>9, UnchangedHands DEF CountStep, IInv, TypeOK, Same, Pending, Request,
       RequestKind, OnLineReturns, ReadFrame, qvars, pvars, cvars
  <2>10. CASE LeaveReadLoop(c)
    BY <2>10, UnchangedHands DEF CountStep, IInv, TypeOK, Same, Pending, Request,
       RequestKind, LeaveReadLoop, ReadFrame, qvars, pvars, cvars
  <2>11. CASE ConsoleDtor(c)
    BY <2>11, UnchangedHands DEF CountStep, IInv, TypeOK, Same, Pending, Request,
       RequestKind, ConsoleDtor, ReadFrame, qvars, pvars, cvars
  <2> QED
    BY <1>1, <2>1, <2>2, <2>3, <2>4, <2>5, <2>6, <2>7, <2>8, <2>9, <2>10, <2>11
       DEF HandlerStep
<1>2. ASSUME NEW t \in Threads, ProcessStep(t) PROVE CountStep
  <2>1. CASE LockRequests(t)
    BY <2>1, UnchangedHands DEF CountStep, IInv, TypeOK, Same, Pending, Request,
       RequestKind, LockRequests, ProcFrame, qvars, cvars, hvars
  <2>2. CASE QueueEmpty(t)
    BY <2>2, UnchangedHands DEF CountStep, IInv, TypeOK, Same, Pending, Request,
       RequestKind, QueueEmpty, ProcFrame, qvars, cvars, hvars
  <2>3. CASE popRequest(t)
    BY <2>3, PopSame DEF CountStep
  <2>4. CASE popCanceled(t)
    BY <2>4, UnchangedHands DEF CountStep, IInv, TypeOK, Same, Pending, Request,
       RequestKind, popCanceled, qvars, cvars, hvars
  <2>5. CASE ExecuteCommand(t)
    BY <2>5, UnchangedHands DEF CountStep, IInv, TypeOK, Same, Pending, Request,
       RequestKind, ExecuteCommand, ProcFrame, qvars, cvars, hvars
  <2>6. CASE ExecuteExit(t)
    BY <2>6, UnchangedHands DEF CountStep, IInv, TypeOK, Same, Pending, Request,
       RequestKind, ExecuteExit, ProcFrame, qvars, cvars, hvars
  <2>7. CASE ExecuteShutdown(t)
    BY <2>7, UnchangedHands DEF CountStep, IInv, TypeOK, Same, Pending, Request,
       RequestKind, ExecuteShutdown, ProcFrame, qvars, cvars, hvars
  <2>8. CASE ShutdownCancel(t)
    BY <2>8, UnchangedHands DEF CountStep, IInv, TypeOK, Same, Pending, Request,
       RequestKind, ShutdownCancel, ProcFrame, qvars, cvars, hvars
  <2>9. CASE ShutdownPut(t)
    BY <2>9 DEF CountStep, Puts, IInv, TypeOK, ShutdownPut, ProcFrame, qvars, hvars
  <2>10. CASE ShutdownExit(t)
    BY <2>10, ExitSame DEF CountStep
  <2>11. CASE DeleteRequest(t)
    BY <2>11 DEF CountStep, Puts, IInv, TypeOK, DeleteRequest, ProcFrame, qvars, hvars
  <2> QED
    BY <1>2, <2>1, <2>2, <2>3, <2>4, <2>5, <2>6, <2>7, <2>8, <2>9, <2>10, <2>11
       DEF ProcessStep
<1>3. ASSUME LoopStep PROVE CountStep
  <2>1. CASE LoopWhile
    BY <2>1, UnchangedHands DEF CountStep, IInv, TypeOK, Same, Pending, Request,
       RequestKind, LoopWhile, LoopFrame, hvars
  <2>2. CASE LoopBarrier
    BY <2>2, UnchangedHands DEF CountStep, IInv, TypeOK, Same, Pending, Request,
       RequestKind, LoopBarrier, LoopFrame, hvars
  <2>3. CASE LoopSize
    BY <2>3, UnchangedHands DEF CountStep, IInv, TypeOK, Same, Pending, Request,
       RequestKind, Callers, Threads, LoopSize, LoopFrame, hvars
  <2>4. CASE LoopProcessed
    BY <2>4, UnchangedHands DEF CountStep, IInv, TypeOK, Same, Pending, Request,
       RequestKind, LoopProcessed, LoopFrame, hvars
  <2>5. CASE LoopReset
    BY <2>5, UnchangedHands DEF CountStep, IInv, TypeOK, Same, Pending, Request,
       RequestKind, LoopReset, LoopFrame, hvars
  <2>6. CASE LoopStopListening
    BY <2>6, UnchangedHands DEF CountStep, IInv, TypeOK, Same, Pending, Request,
       RequestKind, LoopStopListening, LoopFrame, hvars
  <2>7. CASE LoopDrain
    BY <2>7, UnchangedHands DEF CountStep, IInv, TypeOK, Same, Pending, Request,
       RequestKind, Callers, Threads, LoopDrain, LoopFrame, hvars
  <2>8. CASE LoopJoin
    BY <2>8, UnchangedHands DEF CountStep, IInv, TypeOK, Same, Pending, Request,
       RequestKind, LoopJoin, LoopFrame, hvars
  <2> QED
    BY <1>3, <2>1, <2>2, <2>3, <2>4, <2>5, <2>6, <2>7, <2>8 DEF LoopStep
<1>4. ASSUME UserMoves PROVE CountStep
  <2>1. CASE UserStop
    BY <2>1, UnchangedHands DEF CountStep, IInv, TypeOK, Same, Pending, Request,
       RequestKind, UserStop, qvars, pvars, hvars, cvars
  <2>2. CASE UserCancel
    BY <2>2, UnchangedHands DEF CountStep, IInv, TypeOK, Same, Pending, Request,
       RequestKind, UserCancel, qvars, pvars, hvars, cvars
  <2> QED
    BY <1>4, <2>1, <2>2 DEF UserMoves
<1> QED
  BY <1>1, <1>2, <1>3, <1>4 DEF Step

\* Requests that stay where they are keep the count exact.
LEMMA SameHeld ==
  ASSUME IInv, Same
  PROVE  Held'
<1> SUFFICES ASSUME NEW c \in Consoles
             PROVE  Counted(c)' /\ (hpc'[c] = "gone" => Holding(c)' = {})
  BY DEF Held
<1>1. Holding(c)' = Holding(c)
  BY HoldingIs DEF Same
<1>2. Counted(c) /\ (hpc[c] = "gone" => Holding(c) = {}) /\ useCount' = useCount
  BY DEF IInv, Held, Same
<1>3. useCount[c] = 0 => Holding(c) = {}
  BY <1>2, FS_EmptySet DEF Counted
<1> QED
  BY <1>1, <1>2, <1>3 DEF Counted, Same

\* get() counts the request that is being made.
LEMMA GetHeld ==
  ASSUME IInv, NEW c \in Consoles, Gets(c)
  PROVE  Held'
<1>0. PICK q : q = Request(c)'
  OBVIOUS
<1>1. /\ useCount' = [useCount EXCEPT ![c] = @ + 1] /\ UNCHANGED <<queue, cur, phase>>
      /\ ~Pending(c) /\ Pending(c)' /\ lines'[c] \in 1..Len(Script[c]) /\ RequestKind(c)' \in RequestKinds
      /\ \A d \in Consoles : d # c => hpc'[d] = hpc[d] /\ lines'[d] = lines[d]
  BY DEF Gets
<1>2. q \in Requests /\ Console(q) = c /\ q[2] = lines'[c]
  BY <1>0, <1>1, MakesRequest DEF Request
<1>3. \A r \in Requests : InHand(r)' <=> InHand(r)
  BY <1>1, UnchangedHands
<1>4. ~InHand(q)
  <2>1. lines[c] \in Nat /\ ((Unsent(c) /\ lines'[c] = lines[c]) \/ lines'[c] = lines[c] + 1)
    BY DEF Gets, IInv, TypeOK
  <2> QED
    BY <1>2, <2>1, InHandNumbered DEF Numbered
<1>5. Holding(c)' = Holding(c) \cup {q} /\ q \notin Holding(c)
  BY <1>0, <1>1, <1>2, <1>3, <1>4, HoldingIs
<1>6. Counted(c) /\ useCount'[c] = useCount[c] + 1
  BY <1>1 DEF IInv, Held, TypeOK
<1>7. Counted(c)'
  BY <1>5, <1>6, FS_AddElement DEF Counted
<1>8. hpc'[c] # "gone"
  BY <1>1 DEF Pending
<1>9. ASSUME NEW d \in Consoles, d # c PROVE Counted(d)' /\ (hpc'[d] = "gone" => Holding(d)' = {})
  <2>1. (Pending(d)' <=> Pending(d)) /\ Request(d)' = Request(d)
    BY <1>1, <1>9 DEF Pending, Request, RequestKind
  <2>2. Holding(d)' = Holding(d)
    BY <1>3, <2>1, HoldingIs
  <2>3. useCount'[d] = useCount[d]
    BY <1>1, <1>9 DEF IInv, TypeOK
  <2> QED
    BY <1>1, <1>9, <2>2, <2>3 DEF IInv, Held, Counted
<1> QED
  BY <1>7, <1>8, <1>9 DEF Held

\* The request of t is the only thing that it gives up: it is not in the
\* queue, nobody else executes it and nobody is about to push it.
LEMMA PutHeld ==
  ASSUME IInv, NEW t \in Threads, Puts(t)
  PROVE  Held' /\ useCount[Console(cur[t])] > 0
<1>0. PICK r : r = cur[t]
  OBVIOUS
<1>1. PICK c : c = Console(r)
  OBVIOUS
<1>2. /\ phase[t] \in {"put", "delete", "putexit"} /\ UNCHANGED <<queue, hpc, lines>>
      /\ useCount' = [useCount EXCEPT ![c] = @ - 1]
      /\ \A x \in Threads : x # t => cur'[x] = cur[x] /\ phase'[x] = phase[x]
      /\ (cur'[t] = r /\ phase'[t] = "touch") \/ cur'[t] = None
  BY <1>0, <1>1 DEF Puts
<1>3. r \in Requests /\ r # None /\ c \in Consoles /\ r[2] \in Nat
  BY <1>0, <1>1, <1>2, CurRequest, RequestTypes DEF IInv
<1>4. \A x \in Threads : x # t => cur[x] = None
  BY <1>2, Alone DEF IInv
<1>5. \A i \in DOMAIN queue : queue[i] # r
  BY <1>0, <1>3 DEF IInv, Order, CurBetween, Before
<1>6. InHand(r)
  BY <1>0, <1>2 DEF InHand
<1>7. Pending(c) => r # Request(c)
  <2>1. Numbered(r) /\ lines[c] \in Nat
    BY <1>3, <1>6, InHandNumbered DEF IInv, TypeOK
  <2> QED
    BY <1>1, <1>3, <2>1, PendingRequest DEF Pending, Numbered, Unsent, IInv
<1>8. ASSUME NEW s \in Requests PROVE InHand(s)' <=> InHand(s) /\ s # r
  <2>1. s # None
    BY RequestTypes
  <2> QED
    BY <1>0, <1>2, <1>4, <1>5, <2>1 DEF InHand
<1>9. \A d \in Consoles : (Pending(d)' <=> Pending(d)) /\ Request(d)' = Request(d)
  BY <1>2 DEF Pending, Request, RequestKind
<1>10. Holding(c)' = Holding(c) \ {r} /\ r \in Holding(c)
  BY <1>1, <1>3, <1>6, <1>7, <1>8, <1>9, HoldingIs
<1>11. Counted(c) /\ useCount'[c] = useCount[c] - 1 /\ useCount[c] \in Nat
  BY <1>2, <1>3 DEF IInv, Held, TypeOK
<1>12. useCount[c] > 0
  <2>1. Cardinality(Holding(c)) # 0
    BY <1>10, <1>11, FS_EmptySet DEF Counted
  <2> QED
    BY <1>11, <2>1 DEF Counted
<1>13. Counted(c)'
  BY <1>10, <1>11, FS_RemoveElement DEF Counted
<1>14. hpc'[c] # "gone"
  BY <1>2, <1>3, <1>10 DEF IInv, Held
<1>15. ASSUME NEW d \in Consoles, d # c PROVE Counted(d)' /\ (hpc'[d] = "gone" => Holding(d)' = {})
  <2>1. Holding(d)' = Holding(d)
    BY <1>1, <1>8, <1>9, <1>15, HoldingIs
  <2>2. useCount'[d] = useCount[d]
    BY <1>2, <1>15 DEF IInv, TypeOK
  <2> QED
    BY <1>2, <1>15, <2>1, <2>2 DEF IInv, Held, Counted
<1> QED
  BY <1>0, <1>1, <1>12, <1>13, <1>14, <1>15 DEF Held

\* Every step keeps the use counts exact.
LEMMA HeldStep ==
  ASSUME IInv, ~crashed, Step
  PROVE  Held'
<1>1. ASSUME NEW c \in Consoles, Pushes(c) PROVE Held'
  BY <1>1, PushSame DEF IInv, Held, Counted
<1> QED
  BY <1>1, CountSteps, SameHeld, GetHeld, PutHeld DEF CountStep

\* Every step keeps the types.
LEMMA TypeStep ==
  ASSUME IInv, ~crashed, Step
  PROVE  TypeOK'
<1>1. ASSUME NEW c \in Consoles, HandlerStep(c) PROVE TypeOK'
  <2>1. CASE LineToShell(c)
    BY <2>1 DEF IInv, TypeOK, Phases, HandlerPCs, LoopPCs, LineToShell, ReadFrame, qvars,
       pvars, cvars
  <2>2. CASE LineRefused(c)
    BY <2>2 DEF IInv, TypeOK, Phases, HandlerPCs, LoopPCs, LineRefused, ReadFrame, qvars,
       pvars, cvars
  <2>3. CASE LineIgnored(c)
    BY <2>3 DEF IInv, TypeOK, Phases, HandlerPCs, LoopPCs, LineIgnored, ReadFrame, qvars,
       pvars, cvars
  <2>4. CASE LineToExpr(c)
    BY <2>4 DEF IInv, TypeOK, Phases, HandlerPCs, LoopPCs, LineToExpr, ReadFrame, qvars,
       pvars, cvars
  <2>5. CASE OpenShell(c)
    <3>1. CASE running
      <4>1. useCount' = [useCount EXCEPT ![c] = @ + 1] /\ hpc' = [hpc EXCEPT ![c] = "push"] /\ closed' = closed
        BY <2>5, <3>1 DEF OpenShell
      <4>2. useCount' \in [Consoles -> Nat]
        BY <4>1 DEF IInv, TypeOK
      <4> QED
        BY <2>5, <4>1, <4>2 DEF IInv, TypeOK, HandlerPCs, OpenShell, ReadFrame, qvars, pvars
    <3>2. CASE ~running
      BY <2>5, <3>2 DEF IInv, TypeOK, HandlerPCs, OpenShell, ReadFrame, qvars, pvars
    <3> QED
      BY <3>1, <3>2
  <2>6. CASE FallThrough(c)
    BY <2>6 DEF IInv, TypeOK, Phases, HandlerPCs, LoopPCs, FallThrough, ReadFrame, qvars,
       pvars, cvars
  <2>7. CASE LineToRequest(c)
    BY <2>7 DEF IInv, TypeOK, Phases, HandlerPCs, LoopPCs, LineToRequest, ReadFrame, qvars,
       pvars, cvars
  <2>8. CASE pushRequest(c)
    <3>1. Request(c) \in Requests
      BY <2>8, PendingRequest DEF IInv, pushRequest
    <3>2. queue' \in Seq(Requests)
      <4>1. queue \in Seq(Requests) /\ (queue' = queue \/ queue' = Append(queue, Request(c)))
        BY <2>8 DEF IInv, TypeOK, pushRequest
      <4> QED
        BY <3>1, <4>1, AppendFacts
    <3> QED
      BY <2>8, <3>2 DEF IInv, TypeOK, Phases, HandlerPCs, pushRequest, cvars
  <2>9. CASE OnLineReturns(c)
    BY <2>9 DEF IInv, TypeOK, Phases, HandlerPCs, LoopPCs, OnLineReturns, ReadFrame, qvars,
       pvars, cvars
  <2>10. CASE LeaveReadLoop(c)
    BY <2>10 DEF IInv, TypeOK, Phases, HandlerPCs, LoopPCs, LeaveReadLoop, ReadFrame,
       qvars, pvars, cvars
  <2>11. CASE ConsoleDtor(c)
    BY <2>11 DEF IInv, TypeOK, Phases, HandlerPCs, LoopPCs, ConsoleDtor, ReadFrame, qvars,
       pvars, cvars
  <2> QED
    BY <1>1, <2>1, <2>2, <2>3, <2>4, <2>5, <2>6, <2>7, <2>8, <2>9, <2>10, <2>11
       DEF HandlerStep
<1>2. ASSUME NEW t \in Threads, ProcessStep(t) PROVE TypeOK'
  <2>1. CASE LockRequests(t)
    BY <2>1 DEF IInv, TypeOK, Phases, HandlerPCs, LoopPCs, LockRequests, ProcFrame, qvars,
       cvars, hvars
  <2>2. CASE QueueEmpty(t)
    BY <2>2 DEF IInv, TypeOK, Phases, HandlerPCs, LoopPCs, QueueEmpty, ProcFrame, qvars,
       cvars, hvars
  <2>3. CASE popRequest(t)
    <3>1. queue' \in Seq(Requests) /\ Head(queue) \in Requests
      BY <2>3, TailFacts DEF IInv, TypeOK, popRequest
    <3> QED
      BY <2>3, <3>1 DEF IInv, TypeOK, Phases, popRequest, ProcFrame, cvars, hvars
  <2>4. CASE popCanceled(t)
    BY <2>4 DEF IInv, TypeOK, Phases, HandlerPCs, LoopPCs, popCanceled, qvars, cvars, hvars
  <2>5. CASE ExecuteCommand(t)
    <3>1. cur[t] \in Requests
      BY <2>5, CurRequest DEF IInv, ExecuteCommand
    <3>2. executed' \in Seq(Requests)
      BY <2>5, <3>1, AppendFacts DEF IInv, TypeOK, ExecuteCommand
    <3>3. \A c \in Consoles : hasShell'[c] \in BOOLEAN
      BY ShellKept DEF Kept
    <3>4. hasShell' \in [Consoles -> BOOLEAN]
      BY <2>5, <3>3 DEF IInv, TypeOK, ExecuteCommand
    <3> QED
      BY <2>5, <3>2, <3>4 DEF IInv, TypeOK, Phases, ExecuteCommand, ProcFrame, qvars, hvars
  <2>6. CASE ExecuteExit(t)
    <3>1. cur[t] \in Requests
      BY <2>6, CurRequest DEF IInv, ExecuteExit
    <3>2. executed' \in Seq(Requests)
      BY <2>6, <3>1, AppendFacts DEF IInv, TypeOK, ExecuteExit
    <3> QED
      BY <2>6, <3>2 DEF IInv, TypeOK, Phases, ExecuteExit, ProcFrame, qvars, cvars, hvars
  <2>7. CASE ExecuteShutdown(t)
    <3>1. cur[t] \in Requests
      BY <2>7, CurRequest DEF IInv, ExecuteShutdown
    <3>2. executed' \in Seq(Requests)
      BY <2>7, <3>1, AppendFacts DEF IInv, TypeOK, ExecuteShutdown
    <3> QED
      BY <2>7, <3>2 DEF IInv, TypeOK, Phases, ExecuteShutdown, ProcFrame, qvars, cvars,
         hvars
  <2>8. CASE ShutdownCancel(t)
    BY <2>8 DEF IInv, TypeOK, Phases, HandlerPCs, LoopPCs, ShutdownCancel, ProcFrame,
       qvars, cvars, hvars
  <2>9. CASE ShutdownPut(t)
    <3>1. Puts(t)
      BY <2>9 DEF Puts, IInv, TypeOK, ShutdownPut, ProcFrame, qvars, hvars
    <3>2. useCount[Console(cur[t])] > 0 /\ useCount \in [Consoles -> Nat]
      BY <3>1, PutHeld DEF IInv, TypeOK
    <3>3. useCount[Console(cur[t])] - 1 \in Nat
      BY <2>9, <3>2, CurRequest DEF IInv, ShutdownPut
    <3>4. useCount' \in [Consoles -> Nat]
      BY <2>9, <3>2, <3>3 DEF ShutdownPut
    <3> QED
      BY <2>9, <3>4 DEF IInv, TypeOK, Phases, ShutdownPut, ProcFrame, qvars, hvars
  <2>10. CASE ShutdownExit(t)
    BY <2>10 DEF IInv, TypeOK, Phases, HandlerPCs, LoopPCs, ShutdownExit, ProcFrame, qvars,
       cvars, hvars
  <2>11. CASE DeleteRequest(t)
    <3>1. Puts(t)
      BY <2>11 DEF Puts, IInv, TypeOK, DeleteRequest, ProcFrame, qvars, hvars
    <3>2. useCount[Console(cur[t])] > 0 /\ useCount \in [Consoles -> Nat]
      BY <3>1, PutHeld DEF IInv, TypeOK
    <3>3. useCount[Console(cur[t])] - 1 \in Nat
      BY <2>11, <3>2, CurRequest DEF IInv, DeleteRequest
    <3>4. useCount' \in [Consoles -> Nat]
      BY <2>11, <3>2, <3>3 DEF DeleteRequest
    <3> QED
      BY <2>11, <3>4 DEF IInv, TypeOK, Phases, DeleteRequest, ProcFrame, qvars, hvars
  <2> QED
    BY <1>2, <2>1, <2>2, <2>3, <2>4, <2>5, <2>6, <2>7, <2>8, <2>9, <2>10, <2>11
       DEF ProcessStep
<1>3. ASSUME LoopStep PROVE TypeOK'
  <2>1. CASE LoopWhile
    BY <2>1 DEF IInv, TypeOK, Phases, HandlerPCs, LoopPCs, LoopWhile, LoopFrame, hvars
  <2>2. CASE LoopBarrier
    BY <2>2 DEF IInv, TypeOK, Phases, HandlerPCs, LoopPCs, LoopBarrier, LoopFrame, hvars
  <2>3. CASE LoopSize
    BY <2>3 DEF IInv, TypeOK, Phases, HandlerPCs, LoopPCs, LoopSize, LoopFrame, hvars
  <2>4. CASE LoopProcessed
    BY <2>4 DEF IInv, TypeOK, Phases, HandlerPCs, LoopPCs, LoopProcessed, LoopFrame, hvars
  <2>5. CASE LoopReset
    BY <2>5 DEF IInv, TypeOK, Phases, HandlerPCs, LoopPCs, LoopReset, LoopFrame, hvars
  <2>6. CASE LoopStopListening
    BY <2>6 DEF IInv, TypeOK, Phases, HandlerPCs, LoopPCs, LoopStopListening, LoopFrame,
       hvars
  <2>7. CASE LoopDrain
    BY <2>7 DEF IInv, TypeOK, Phases, HandlerPCs, LoopPCs, LoopDrain, LoopFrame, hvars
  <2>8. CASE LoopJoin
    BY <2>8 DEF IInv, TypeOK, Phases, HandlerPCs, LoopPCs, LoopJoin, LoopFrame, hvars
  <2> QED
    BY <1>3, <2>1, <2>2, <2>3, <2>4, <2>5, <2>6, <2>7, <2>8 DEF LoopStep
<1>4. ASSUME UserMoves PROVE TypeOK'
  <2>1. CASE UserStop
    BY <2>1 DEF IInv, TypeOK, Phases, HandlerPCs, LoopPCs, UserStop, qvars, pvars, hvars,
       cvars
  <2>2. CASE UserCancel
    BY <2>2 DEF IInv, TypeOK, Phases, HandlerPCs, LoopPCs, UserCancel, qvars, pvars, hvars,
       cvars
  <2> QED
    BY <1>4, <2>1, <2>2 DEF UserMoves
<1> QED
  BY <1>1, <1>2, <1>3, <1>4 DEF Step

-----------------------------------------------------------------------------
(* The theorems. *)

\* The invariant holds when no line has been read.
LEMMA InitInv ==
  ASSUME Init
  PROVE  IInv
<1>1. TypeOK
  <2>1. hasShell \in [Consoles -> BOOLEAN] /\ closed \in [Consoles -> BOOLEAN]
    BY Zenon DEF Init
  <2>2. phase \in [Threads -> Phases] /\ hpc \in [Consoles -> HandlerPCs] /\ lpc \in LoopPCs
    BY DEF Init, Phases, HandlerPCs, LoopPCs
  <2>3. /\ queue \in Seq(Requests) /\ executed \in Seq(Requests)
        /\ cur \in [Threads -> Requests \cup {None}] /\ lock \in Threads \cup {None}
        /\ lines \in [Consoles -> Nat] /\ useCount \in [Consoles -> Nat]
    BY DEF Init
  <2> QED
    BY <2>1, <2>2, <2>3 DEF Init, TypeOK
<1>2. LinesRead
  BY ScriptTypes DEF Init, LinesRead
<1>3. Exclusive
  BY RequestLoopAssumption DEF Init, Exclusive
<1>4. Callers
  BY DEF Init, Callers, Threads
<1>5. Order
  BY DEF Init, Order, InOrder, QueueSorted, ExecutedFirst, CurBetween, AllNumbered
<1>6. ShellComes /\ ShellEntered
  BY DEF Init, ShellComes, ShellEntered
<1>7. ASSUME NEW c \in Consoles PROVE Holding(c) = {} /\ useCount[c] = 0 /\ hpc[c] = "read"
  <2>1. \A r \in Requests : r # None
    BY RequestTypes
  <2> QED
    BY <2>1 DEF Init, Holding
<1>8. Held
  BY <1>7, FS_EmptySet DEF Held, Counted
<1> QED
  BY <1>1, <1>2, <1>3, <1>4, <1>5, <1>6, <1>8 DEF IInv

\* And when nothing happens.
LEMMA StutterInv ==
  ASSUME IInv, UNCHANGED vars
  PROVE  IInv'
<1> USE DEF vars, qvars, pvars, hvars, cvars
<1>1. TypeOK' /\ LinesRead' /\ Exclusive' /\ Callers'
  BY DEF IInv, TypeOK, LinesRead, Exclusive, Callers
<1>2. Order'
  BY DEF IInv, Order, InOrder, QueueSorted, ExecutedFirst, CurBetween, AllNumbered,
     Numbered, Unsent
<1>3. ShellComes' /\ ShellEntered'
  BY DEF IInv, ShellComes, ShellDue, ShellRequest, ShellEntered, RequestKind
<1>4. \A c \in Consoles : Holding(c)' = Holding(c)
  BY DEF Holding, Request, RequestKind
<1>5. Held'
  BY <1>4 DEF IInv, Held, Counted
<1> QED
  BY <1>1, <1>2, <1>3, <1>5 DEF IInv

\* The inductive invariant holds in every reachable state.
LEMMA InvHolds == Spec => []IInv
<1>1. Init => IInv
  BY InitInv
<1>2. ASSUME IInv, [Next]_vars PROVE IInv'
  <2>1. CASE ~crashed /\ Step
    BY <1>2, <2>1, TypeStep, LinesStep, ExclusiveStep, CallersStep, OrderStep,
       ShellComesStep,
       ShellEnteredStep, HeldStep DEF IInv
  <2>2. CASE UNCHANGED vars
    BY <1>2, <2>2, StutterInv
  <2> QED
    BY <1>2, <2>1, <2>2 DEF Next, Step, UserMoves
<1> QED
  BY <1>1, <1>2, PTL DEF Spec

\* For any consoles, scripts and stops: requests are executed once each, and
\* those of a console in the order sent (RequestManager.cc:83-104).
THEOREM ExecutedInOrder == Spec => []InOrder
<1>1. IInv => InOrder
  BY DEF IInv, Order
<1> QED
  BY <1>1, InvHolds, PTL

\* For any consoles and scripts, whoever executes the request of a shell
\* command, the shell is there when OnLine() returns (ServerConsole.cc:433-436).
THEOREM ShellIsEntered == Spec => []ShellEntered
<1>1. IInv => ShellEntered
  BY DEF IInv
<1> QED
  BY <1>1, InvHolds, PTL

\* Once every console is gone, no request is left.
LEMMA AllGone ==
  ASSUME IInv, \A c \in Consoles : hpc[c] = "gone", phase[Loop] = "idle"
  PROVE  queue = <<>> /\ \A t \in Threads : cur[t] = None /\ phase[t] = "idle"
<1>1. \A c \in Consoles : Holding(c) = {} /\ phase[c] = "idle"
  BY DEF IInv, Callers, Held
<1>2. \A t \in Threads : phase[t] = "idle" /\ cur[t] = None
  BY <1>1 DEF IInv, Exclusive, Threads
<1>3. \A i \in DOMAIN queue : queue[i] \in Requests
  BY DEF IInv, TypeOK
<1>4. DOMAIN queue = {}
  BY <1>1, <1>3, RequestTypes DEF Holding
<1>5. queue = <<>>
  BY <1>4 DEF IInv, TypeOK
<1> QED
  BY <1>2, <1>5

\* For any consoles and scripts, the use count of a console is the number of
\* requests that have not given it up, its destructor waits for them all, and
\* the only request that uses a deleted console is a shutdown command in the
\* one call that it makes after put(); when serverLoop() has returned no
\* request is left (ConsoleSocket.cc:29-48, ShutdownRequest.cc:42-43,
\* CogServer.cc:229-248).
THEOREM ConsolesOutliveRequests == Spec => []RequestsAccounted
<1>1. ASSUME IInv PROVE UseCountExact
  <2> SUFFICES ASSUME NEW c \in Consoles, hpc[c] = "gone", NEW r \in Using(c)
               PROVE  UsesAfterPut(r)
    BY <1>1 DEF IInv, Held, Counted, UseCountExact
  <2>1. Holding(c) = {}
    BY <1>1 DEF IInv, Held
  <2>2. r \in Requests /\ Console(r) = c
    BY <2>1 DEF Using
  <2>3. PICK t \in Threads : cur[t] = r
    BY <2>1 DEF Using
  <2>4. phase[t] = "touch"
    BY <2>1, <2>2, <2>3 DEF Holding
  <2>5. Kind(r) = "shutdown"
    BY <1>1, <2>3, <2>4 DEF IInv, Exclusive
  <2> QED
    BY <2>3, <2>4, <2>5 DEF UsesAfterPut
<1>2. ASSUME IInv PROVE NothingLeftAtReturn
  <2> SUFFICES ASSUME lpc = "done"
               PROVE  queue = <<>> /\ \A t \in Threads : cur[t] = None /\ phase[t] = "idle"
    BY DEF NothingLeftAtReturn
  <2>1. (\A c \in Consoles : hpc[c] = "gone") /\ phase[Loop] = "idle"
    BY <1>2 DEF IInv, Callers
  <2> QED
    BY <1>2, <2>1, AllGone
<1>3. IInv => RequestsAccounted
  BY <1>1, <1>2 DEF IInv, RequestsAccounted
<1> QED
  BY <1>3, InvHolds, PTL

-----------------------------------------------------------------------------
(* One executor. *)

\* The request that a thread has executed and not yet given up is the last
\* that was executed by anyone.
ExecutedLast ==
  \A t \in Threads : cur[t] # None /\ phase[t] # "exec" =>
    executed # <<>> /\ executed[Len(executed)] = cur[t]

\* A sequence with something appended ends with it.
LEMMA AppendLast ==
  ASSUME NEW S, NEW q \in Seq(S), NEW r \in S
  PROVE  Append(q, r) # <<>> /\ Append(q, r)[Len(Append(q, r))] = r
  OBVIOUS

\* A thread that pops has no request, and gets the first of the queue.
LEMMA PopIs ==
  ASSUME IInv, NEW t \in Threads, popRequest(t)
  PROVE  /\ phase[t] = "next" /\ cur[t] = None /\ queue # <<>>
         /\ cur'[t] = Head(queue) /\ phase'[t] = "exec" /\ queue' = Tail(queue)
         /\ \A x \in Threads : x # t => cur'[x] = cur[x] /\ phase'[x] = phase[x]
         /\ executed' = executed /\ lpc' = lpc /\ Head(queue) \in Requests
<1>1. queue # <<>> /\ queue \in Seq(Requests)
  BY DEF IInv, TypeOK, popRequest
<1>2. Head(queue) \in Requests
  BY <1>1, TailFacts
<1>3. phase[t] = "next" /\ cur[t] = None
  BY DEF IInv, Exclusive, popRequest
<1> QED
  BY <1>1, <1>2, <1>3 DEF IInv, TypeOK, popRequest, ProcFrame

\* execute() adds the request of its thread to those executed.
LEMMA ExecuteIs ==
  ASSUME IInv, NEW t \in Threads, Executes(t)
  PROVE  /\ phase[t] = "exec" /\ cur[t] \in Requests /\ cur[t] # None
         /\ executed' = Append(executed, cur[t])
         /\ UNCHANGED <<queue, cur, lpc>>
<1>1. phase[t] = "exec"
  BY DEF Executes, ExecuteCommand, ExecuteExit, ExecuteShutdown
<1>2. cur[t] \in Requests /\ cur[t] # None
  BY <1>1, CurRequest, RequestTypes DEF IInv
<1>3. CASE ExecuteCommand(t)
  BY <1>1, <1>2, <1>3 DEF ExecuteCommand, ProcFrame, qvars
<1>4. CASE ExecuteExit(t)
  BY <1>1, <1>2, <1>4 DEF ExecuteExit, ProcFrame, qvars
<1>5. CASE ExecuteShutdown(t)
  BY <1>1, <1>2, <1>5 DEF ExecuteShutdown, ProcFrame, qvars
<1> QED
  BY <1>3, <1>4, <1>5 DEF Executes

\* The thread that gives up a request has executed it.
LEMMA DropIs ==
  ASSUME IInv, NEW t \in Threads, Drops(t)
  PROVE  /\ phase[t] \notin {"idle", "want", "next", "exec"}
         /\ cur[t] \in Requests /\ cur[t] # None /\ cur'[t] = None
         /\ \A x \in Threads : x # t => cur'[x] = cur[x] /\ phase'[x] = phase[x]
         /\ UNCHANGED <<queue, executed, lpc>>
<1>1. phase[t] \notin {"idle", "want", "next", "exec"}
  BY DEF Drops, ShutdownExit, DeleteRequest
<1>2. cur[t] \in Requests /\ cur[t] # None
  BY <1>1, CurRequest, RequestTypes DEF IInv
<1>3. CASE ShutdownExit(t)
  BY <1>1, <1>2, <1>3 DEF IInv, TypeOK, ShutdownExit, ProcFrame, qvars
<1>4. CASE DeleteRequest(t)
  BY <1>1, <1>2, <1>4 DEF IInv, TypeOK, DeleteRequest, ProcFrame, qvars
<1> QED
  BY <1>3, <1>4 DEF Drops

\* A request is pushed as the last of its console.
LEMMA PushIs ==
  ASSUME IInv, NEW c \in Consoles, Pushes(c)
  PROVE  /\ hpc[c] \in {"push", "help"} /\ Request(c) \in Requests
         /\ queue' = Append(queue, Request(c))
         /\ UNCHANGED <<executed, cur, lpc>>
         /\ \A x \in Threads : phase'[x] = "exec" <=> phase[x] = "exec"
         /\ \A r \in Requests : Numbered(r) => Before(r, Request(c))
<1>1. hpc[c] \in {"push", "help"}
  BY DEF Pushes, pushRequest
<1>2. /\ Request(c) \in Requests /\ Console(Request(c)) = c /\ Request(c)[2] = lines[c]
  BY <1>1, PendingRequest DEF IInv
<1>3. ASSUME NEW r \in Requests, Numbered(r) PROVE Before(r, Request(c))
  BY <1>1, <1>2, <1>3 DEF Before, Numbered, Unsent
<1>4. phase[c] = "idle"
  BY <1>1 DEF IInv, Callers
<1>5. \A x \in Threads : phase'[x] = "exec" <=> phase[x] = "exec"
  BY <1>4 DEF Pushes, pushRequest, IInv, TypeOK
<1> QED
  BY <1>1, <1>2, <1>3, <1>5 DEF Pushes, pushRequest

\* A thread that pops finds no other at work, one that executes is the only
\* one to do so, so that nobody executes between the two ends of a request.
LEMMA LastStep ==
  ASSUME IInv, ~crashed, Step, ExecutedLast
  PROVE  ExecutedLast'
<1>1. CASE Quiet
  BY <1>1 DEF Quiet, ExecutedLast
<1>2. ASSUME NEW c \in Consoles, Pushes(c) PROVE ExecutedLast'
  BY <1>2, PushIs DEF ExecutedLast
<1>3. ASSUME NEW t \in Threads, popRequest(t) PROVE ExecutedLast'
  BY <1>3, PopIs DEF ExecutedLast
<1>4. ASSUME NEW t \in Threads, Executes(t) PROVE ExecutedLast'
  <2>1. /\ phase[t] = "exec" /\ cur[t] \in Requests
        /\ executed' = Append(executed, cur[t]) /\ cur' = cur
    BY <1>4, ExecuteIs
  <2>2. executed' # <<>> /\ executed'[Len(executed')] = cur[t]
    <3>1. executed \in Seq(Requests) /\ cur[t] \in Requests
      BY <2>1 DEF IInv, TypeOK
    <3>2. /\ Append(executed, cur[t]) # <<>>
          /\ Append(executed, cur[t])[Len(Append(executed, cur[t]))] = cur[t]
      BY ONLY <3>1, AppendLast
    <3> QED
      BY <2>1, <3>2
  <2>3. \A x \in Threads : x # t => cur'[x] = None
    BY <2>1, Alone DEF IInv
  <2> QED
    BY <2>1, <2>2, <2>3 DEF ExecutedLast
<1>5. ASSUME NEW t \in Threads, Drops(t) PROVE ExecutedLast'
  BY <1>5, DropIs DEF ExecutedLast
<1> QED
  BY <1>1, <1>2, <1>3, <1>4, <1>5, QuietSteps DEF Moves

\* The invariant that the refinement needs.
LEMMA LastHolds == Spec => [](IInv /\ ExecutedLast)
<1>1. Init => ExecutedLast
  BY DEF Init, ExecutedLast
<1>2. ASSUME IInv, ExecutedLast, [Next]_vars PROVE ExecutedLast'
  <2>1. CASE ~crashed /\ Step
    BY <1>2, <2>1, LastStep
  <2>2. CASE UNCHANGED vars
    BY <1>2, <2>2 DEF ExecutedLast, vars, pvars
  <2> QED
    BY <1>2, <2>1, <2>2 DEF Next, Step, UserMoves
<1> QED
  BY <1>1, <1>2, InvHolds, PTL DEF Spec

\* After serverLoop() has returned nobody is left to do anything.
LEMMA AfterReturn ==
  ASSUME IInv, Returned
  PROVE  /\ \A c \in Consoles : hpc[c] = "gone"
         /\ \A t \in Threads : phase[t] = "idle"
<1>1. phase[Loop] = "idle" /\ \A c \in Consoles : hpc[c] = "gone"
  BY DEF IInv, Callers, Returned
<1> QED
  BY <1>1, AllGone

\* Only join_threads() lets serverLoop() return.
LEMMA ReturnSteps ==
  ASSUME IInv, ~crashed, Step
  PROVE  Returned' = Returned \/ LoopJoin
<1>1. ASSUME NEW c \in Consoles, HandlerStep(c) PROVE lpc' = lpc
  BY <1>1 DEF HandlerStep, LineToShell, LineRefused, LineIgnored, LineToExpr, OpenShell,
     FallThrough, LineToRequest, pushRequest, OnLineReturns, LeaveReadLoop, ConsoleDtor, ReadFrame
<1>2. ASSUME NEW t \in Threads, ProcessStep(t) PROVE lpc' = lpc \/ popCanceled(t)
  BY <1>2 DEF ProcessStep, LockRequests, QueueEmpty, popRequest, ExecuteCommand, ExecuteExit,
     ExecuteShutdown, ShutdownCancel, ShutdownPut, ShutdownExit, DeleteRequest, ProcFrame
<1>3. ASSUME NEW t \in Threads, popCanceled(t) PROVE Returned' = Returned
  BY <1>3 DEF popCanceled, Returned
<1>4. ASSUME LoopStep PROVE Returned' = Returned \/ LoopJoin
  BY <1>4 DEF LoopStep, LoopWhile, LoopBarrier, LoopSize, LoopProcessed, LoopReset,
     LoopStopListening, LoopDrain, Returned
<1>5. ASSUME UserMoves PROVE lpc' = lpc
  BY <1>5 DEF UserMoves, UserStop, UserCancel
<1> QED
  BY <1>1, <1>2, <1>3, <1>4, <1>5 DEF Step, Returned

\* What is being executed is what the one thread with a request has popped.
LEMMA ExecutingIs ==
  ASSUME NEW t \in Threads, \A x \in Threads : x # t => cur[x] = None
  PROVE  Executing = {cur[t]} \ {None}
  BY DEF Executing

\* Pushing a request submits it, after all those of its console that came before.
LEMMA PushSubmits ==
  ASSUME IInv, NEW c \in Consoles, Pushes(c)
  PROVE  Abstract!Submit(Request(c)) /\ Request(c) \in Requests
<1>1. /\ hpc[c] \in {"push", "help"} /\ Request(c) \in Requests
      /\ queue' = Append(queue, Request(c))
      /\ UNCHANGED <<executed, cur, lpc>>
      /\ \A r \in Requests : Numbered(r) => Before(r, Request(c))
  BY PushIs
<1>2. ~Returned
  BY <1>1, AfterReturn
<1>3. \A r \in Requests : Numbered(r) => Abstract!SentBefore(r, Request(c))
  BY <1>1 DEF Before, Console, Abstract!SentBefore
<1>4. \A q \in Executing : q \in Requests /\ Numbered(q)
  BY DEF IInv, TypeOK, Order, AllNumbered, Executing
<1>5. /\ \A i \in DOMAIN queue : queue[i] \in Requests /\ Numbered(queue[i])
      /\ \A i \in DOMAIN executed : executed[i] \in Requests /\ Numbered(executed[i])
  BY DEF IInv, TypeOK, Order, AllNumbered
<1>6. Executing' = Executing /\ Returned' = Returned
  BY <1>1 DEF Executing, Returned
<1> QED
  BY <1>1, <1>2, <1>3, <1>4, <1>5, <1>6 DEF Abstract!Submit

\* A thread pops the first request of the queue while none is executed.
LEMMA PopBegins ==
  ASSUME IInv, NEW t \in Threads, popRequest(t)
  PROVE  Abstract!Begin
<1>1. /\ phase[t] = "next" /\ cur[t] = None /\ queue # <<>>
      /\ cur'[t] = Head(queue) /\ queue' = Tail(queue)
      /\ \A x \in Threads : x # t => cur'[x] = cur[x]
      /\ executed' = executed /\ lpc' = lpc /\ Head(queue) \in Requests
  BY PopIs
<1>2. \A x \in Threads : x # t => cur[x] = None
  BY <1>1, Alone DEF IInv
<1>3. Executing = {}
  BY <1>1, <1>2 DEF Executing
<1>4. Executing' = {Head(queue)}
  <2>1. Head(queue) # None
    BY <1>1, RequestTypes
  <2> QED
    BY <1>1, <1>2, <2>1 DEF Executing
<1>5. ~Returned /\ Returned' = Returned
  BY <1>1, AfterReturn DEF Returned
<1> QED
  BY <1>1, <1>3, <1>4, <1>5 DEF Abstract!Begin

\* The request in the hands of t is the only one.
LEMMA OneExecuting ==
  ASSUME IInv, NEW t \in Threads, cur[t] # None
  PROVE  Executing = {cur[t]} /\ ~Returned /\ \A x \in Threads : x # t => cur[x] = None
<1>1. phase[t] \notin {"idle", "want", "next"}
  BY DEF IInv, Exclusive
<1>2. \A x \in Threads : x # t => cur[x] = None
  BY <1>1, Alone DEF IInv
<1> QED
  BY <1>1, <1>2, ExecutingIs, AfterReturn

\* A thread executes the request that it has popped, and has not done so before.
LEMMA ExecuteExecutes ==
  ASSUME IInv, NEW t \in Threads, Executes(t)
  PROVE  Abstract!Execute(cur[t]) /\ cur[t] \in Requests
<1>1. /\ phase[t] = "exec" /\ cur[t] \in Requests /\ cur[t] # None
      /\ executed' = Append(executed, cur[t])
      /\ UNCHANGED <<queue, cur, lpc>>
  BY ExecuteIs
<1>2. Executing = {cur[t]} /\ ~Returned
  BY <1>1, OneExecuting
<1>3. ~Abstract!WasExecuted(cur[t])
  <2> SUFFICES ASSUME executed # <<>>, executed[Len(executed)] = cur[t] PROVE FALSE
    BY DEF Abstract!WasExecuted
  <2>1. Len(executed) \in DOMAIN executed
    BY DEF IInv, TypeOK
  <2>2. Before(cur[t], cur[t])
    BY <1>1, <2>1 DEF IInv, Order, CurBetween
  <2> QED
    BY <1>1, <2>2, RequestTypes DEF Before
<1>4. Executing' = Executing /\ Returned' = Returned
  BY <1>1 DEF Executing, Returned
<1> QED
  BY <1>1, <1>2, <1>3, <1>4 DEF Abstract!Execute

\* A thread deletes the request that it has executed.
LEMMA DropRetires ==
  ASSUME IInv, ExecutedLast, NEW t \in Threads, Drops(t)
  PROVE  Abstract!Retire(cur[t]) /\ cur[t] \in Requests
<1>1. /\ phase[t] # "exec" /\ cur[t] \in Requests /\ cur[t] # None /\ cur'[t] = None
      /\ \A x \in Threads : x # t => cur'[x] = cur[x]
      /\ UNCHANGED <<queue, executed, lpc>>
  BY DropIs
<1>2. Executing = {cur[t]} /\ ~Returned /\ \A x \in Threads : x # t => cur[x] = None
  BY <1>1, OneExecuting
<1>3. Abstract!WasExecuted(cur[t])
  BY <1>1 DEF ExecutedLast, Abstract!WasExecuted
<1>4. Executing' = {} /\ Returned' = Returned
  BY <1>1, <1>2 DEF Executing, Returned
<1> QED
  BY <1>1, <1>2, <1>3, <1>4 DEF Abstract!Retire

\* When serverLoop() returns there are no requests.
LEMMA JoinReturns ==
  ASSUME IInv, LoopJoin
  PROVE  Abstract!Return
<1>1. /\ lpc = "join" /\ lpc' = "done" /\ \A c \in Consoles : hpc[c] = "gone"
      /\ UNCHANGED <<queue, executed, cur>>
  BY DEF LoopJoin, LoopFrame
<1>2. phase[Loop] = "idle"
  BY <1>1 DEF IInv, Callers
<1>3. queue = <<>> /\ \A t \in Threads : cur[t] = None
  BY <1>1, <1>2, AllGone
<1>4. Executing = {} /\ Executing' = Executing
  BY <1>1, <1>3 DEF Executing
<1>5. ~Returned /\ Returned' = TRUE
  BY <1>1 DEF Returned
<1> QED
  BY <1>1, <1>3, <1>4, <1>5 DEF Abstract!Return

\* For any consoles, scripts and stops: the threads that run processRequests()
\* behave as one executor that takes the requests of one queue one at a time,
\* executes each exactly once before it deletes it, and has none left when
\* serverLoop() returns (RequestManager.cc:39-47, CogServer.cc:196-248).
THEOREM LoopIsACommandQueue == Spec => ImplementsCommandQueue
<1>1. Init => Abstract!Init
  BY DEF Init, Abstract!Init, Executing, Returned
<1>2. ASSUME IInv, ExecutedLast, [Next]_vars PROVE [Abstract!Next]_(Abstract!vars)
  <2>1. ASSUME UNCHANGED <<queue, executed, cur>>, Returned' = Returned
        PROVE  UNCHANGED Abstract!vars
    <3>1. Executing' = Executing
      BY <2>1 DEF Executing
    <3> QED
      BY <2>1, <3>1 DEF Abstract!vars
  <2>2. CASE ~crashed /\ Step
    <3>1. CASE Quiet
      <4>1. CASE LoopJoin
        BY <1>2, <4>1, JoinReturns DEF Abstract!Next
      <4>2. CASE Returned' = Returned
        BY <2>1, <3>1, <4>2 DEF Quiet
      <4> QED
        BY <1>2, <2>2, <4>1, <4>2, ReturnSteps
    <3>2. ASSUME NEW c \in Consoles, Pushes(c) PROVE Abstract!Next
      BY <1>2, <3>2, PushSubmits DEF Abstract!Next
    <3>3. ASSUME NEW t \in Threads, popRequest(t) PROVE Abstract!Next
      BY <1>2, <3>3, PopBegins DEF Abstract!Next
    <3>4. ASSUME NEW t \in Threads, Executes(t) PROVE Abstract!Next
      BY <1>2, <3>4, ExecuteExecutes DEF Abstract!Next
    <3>5. ASSUME NEW t \in Threads, Drops(t) PROVE Abstract!Next
      BY <1>2, <3>5, DropRetires DEF Abstract!Next
    <3> QED
      BY <1>2, <2>2, <3>1, <3>2, <3>3, <3>4, <3>5, QuietSteps DEF Moves
  <2>3. CASE UNCHANGED vars
    BY <2>1, <2>3 DEF vars, qvars, pvars, Returned
  <2> QED
    BY <1>2, <2>2, <2>3 DEF Next, Step, UserMoves
<1> QED
  BY <1>1, <1>2, LastHolds, PTL DEF Spec, Abstract!Spec, ImplementsCommandQueue
=============================================================================
