---------------------------- MODULE RequestLoop ----------------------------
(***************************************************************************)
(* The commands of the CogServer: console handler threads turn lines into  *)
(* Requests and push them onto one queue; CogServer::serverLoop() and, for *)
(* requests that open a shell, the handler threads themselves pop, execute *)
(* and delete them (RequestManager::processRequests); stop() ends the loop *)
(* by cancelling the queue, after which serverLoop() drains it and joins   *)
(* the handler threads.  A ConsoleSocket is kept alive by the use count of *)
(* the requests that point to it.                                          *)
(*                                                                         *)
(* Script[c] is what the client of console c sends, by what OnLine() makes *)
(* of it.  The network side of the shutdown is in Connections; here  *)
(* stop_listening() is the Exit() it calls on every console.               *)
(***************************************************************************)
EXTENDS Naturals, Sequences, FiniteSets

CONSTANTS Consoles,       \* console sockets, each with its handler thread
          Script,         \* [Consoles -> Seq(Kinds)]
          Loop,           \* the thread that runs serverLoop()
          ExternalStop,   \* may another thread call stop()? (*-stop-* of CogServerNode)
          None

\* "cmd": an ordinary command, or an unknown one, for which `help` is run;
\* "shell": one that enters a shell; "exit", "shutdown": the commands of that
\* name.
RequestKinds == {"cmd", "shell", "exit", "shutdown"}

\* "none": telnet commands or a blank line, of which no request is made;
\* "expr": a line of Scheme or JSON, known by its first character, when the
\* shell for it is registered.  (Without that module OnLine() asks for `help`
\* twice, once for "scm" and once for the line: two lines of kind "cmd".)
Kinds == RequestKinds \cup {"none", "expr"}

Threads == Consoles \cup {Loop}

\* A request that the i-th line of console c creates.
Requests == UNION {{<<c, i, k>> : i \in DOMAIN Script[c], k \in RequestKinds} : c \in Consoles}
Kind(r) == r[3]
Console(r) == r[1]

ASSUME RequestLoopAssumption ==
  /\ Script \in [Consoles -> Seq(Kinds)]
  /\ Loop \notin Consoles /\ None \notin Threads \cup Requests
  /\ ExternalStop \in BOOLEAN

VARIABLES
  running,     \* CogServer::_running
  queue,       \* requestQueue
  canceled,    \* its cancellation flag
  lock,        \* holder of processRequestsMutex
  phase,       \* where each thread is in processRequests()
  cur,         \* the request each thread is executing
  hpc,         \* handler threads
  lines,       \* lines each handler thread has read
  useCount,    \* ConsoleSocket::_use_count
  hasShell,    \* ConsoleSocket::_shell is set
  closed,      \* Exit() was called on the console
  lpc,         \* serverLoop()
  upc,         \* the outside thread that calls stop()
  executed,    \* history: requests executed, in order
  crashed      \* std::terminate() was called

qvars == <<queue, canceled>>
pvars == <<lock, phase, cur>>
hvars == <<hpc, lines>>
cvars == <<useCount, hasShell, closed>>
vars == <<running, qvars, pvars, hvars, cvars, lpc, upc, executed, crashed>>

Phases == {"idle", "want", "next", "exec", "cancel", "put", "touch", "putexit", "delete"}

HandlerPCs == {"read", "scm", "fall", "push", "help", "processing", "dtor", "gone"}

LoopPCs == {"while", "barrier", "size", "processing", "reset", "stop",
            "drain", "draining", "join", "done"}

TypeOK ==
  /\ running \in BOOLEAN
  /\ queue \in Seq(Requests)
  /\ canceled \in BOOLEAN
  /\ lock \in Threads \cup {None}
  /\ phase \in [Threads -> Phases]
  /\ cur \in [Threads -> Requests \cup {None}]
  /\ hpc \in [Consoles -> HandlerPCs]
  /\ lines \in [Consoles -> Nat]
  /\ useCount \in [Consoles -> Nat]
  /\ hasShell \in [Consoles -> BOOLEAN]
  /\ closed \in [Consoles -> BOOLEAN]
  /\ lpc \in LoopPCs
  /\ upc \in {"idle", "cancel", "done"}
  /\ executed \in Seq(Requests)
  /\ crashed \in BOOLEAN

Init ==
  /\ running = TRUE
  /\ queue = <<>> /\ canceled = FALSE
  /\ lock = None
  /\ phase = [t \in Threads |-> "idle"]
  /\ cur = [t \in Threads |-> None]
  /\ hpc = [c \in Consoles |-> "read"]
  /\ lines = [c \in Consoles |-> 0]
  /\ useCount = [c \in Consoles |-> 0]
  /\ hasShell = [c \in Consoles |-> FALSE]
  /\ closed = [c \in Consoles |-> FALSE]
  /\ lpc = "while"
  /\ upc = "idle"
  /\ executed = <<>>
  /\ crashed = FALSE

-----------------------------------------------------------------------------
(* The handler thread of console c. *)

\* The request that the line just read by c creates: for an expression the
\* one that opens a shell or, failing that, `help`.
RequestKind(c) ==
  IF hpc[c] = "help" THEN "cmd"
  ELSE IF Script[c][lines[c]] = "expr" THEN "shell" ELSE Script[c][lines[c]]
Request(c) == <<c, lines[c], RequestKind(c)>>

ReadFrame == UNCHANGED <<running, qvars, pvars, lpc, upc, executed, crashed>>

\* OnLine(): a line for the shell, if there is one; it does not concern us.
LineToShell(c) ==
  /\ hpc[c] = "read" /\ lines[c] < Len(Script[c])
  /\ hasShell[c]
  /\ lines' = [lines EXCEPT ![c] = @ + 1]
  /\ UNCHANGED <<hpc, cvars>> /\ ReadFrame

\* OnLine(): the server has stopped, so the console closes itself.
LineRefused(c) ==
  /\ hpc[c] = "read" /\ lines[c] < Len(Script[c])
  /\ ~hasShell[c] /\ ~running
  /\ lines' = [lines EXCEPT ![c] = @ + 1]
  /\ closed' = [closed EXCEPT ![c] = TRUE]
  /\ UNCHANGED <<hpc, useCount, hasShell>> /\ ReadFrame

\* OnLine(): there is nothing to do but to answer telnet and send a prompt.
LineIgnored(c) ==
  /\ hpc[c] = "read" /\ lines[c] < Len(Script[c])
  /\ ~hasShell[c] /\ running
  /\ Script[c][lines[c] + 1] = "none"
  /\ lines' = [lines EXCEPT ![c] = @ + 1]
  /\ UNCHANGED <<hpc, cvars>> /\ ReadFrame

\* OnLine(): an expression makes it call itself with "scm" or "json" ...
LineToExpr(c) ==
  /\ hpc[c] = "read" /\ lines[c] < Len(Script[c])
  /\ ~hasShell[c] /\ running
  /\ Script[c][lines[c] + 1] = "expr"
  /\ lines' = [lines EXCEPT ![c] = @ + 1]
  /\ hpc' = [hpc EXCEPT ![c] = "scm"]
  /\ UNCHANGED cvars /\ ReadFrame

\* ... which opens a shell, or finds that the server has stopped meanwhile
\* and closes the console.
OpenShell(c) ==
  /\ hpc[c] = "scm"
  /\ \/ /\ running
        /\ useCount' = [useCount EXCEPT ![c] = @ + 1]
        /\ hpc' = [hpc EXCEPT ![c] = "push"]
        /\ UNCHANGED closed
     \/ /\ ~running
        /\ closed' = [closed EXCEPT ![c] = TRUE]
        /\ hpc' = [hpc EXCEPT ![c] = "fall"]
        /\ UNCHANGED useCount
  /\ UNCHANGED <<lines, hasShell>> /\ ReadFrame

\* Without a shell the expression is taken for a command that is not known,
\* and `help` is asked for; running() is not tested again.
FallThrough(c) ==
  /\ hpc[c] = "fall"
  /\ useCount' = [useCount EXCEPT ![c] = @ + 1]
  /\ hpc' = [hpc EXCEPT ![c] = "help"]
  /\ UNCHANGED <<lines, hasShell, closed>> /\ ReadFrame

\* OnLine(): the request is created and takes hold of the console (get()).
LineToRequest(c) ==
  /\ hpc[c] = "read" /\ lines[c] < Len(Script[c])
  /\ ~hasShell[c] /\ running
  /\ Script[c][lines[c] + 1] \in RequestKinds
  /\ lines' = [lines EXCEPT ![c] = @ + 1]
  /\ useCount' = [useCount EXCEPT ![c] = @ + 1]
  /\ hpc' = [hpc EXCEPT ![c] = "push"]
  /\ UNCHANGED <<hasShell, closed>> /\ ReadFrame

\* pushRequest().  A canceled queue throws, and nothing in
\* handle_connection() catches it.  After a request that opens a shell,
\* OnLine() goes on to processRequests().
pushRequest(c) ==
  /\ hpc[c] \in {"push", "help"}
  /\ \/ /\ canceled
        /\ crashed' = TRUE
        /\ UNCHANGED <<queue, hpc, phase>>
     \/ /\ ~canceled
        /\ queue' = Append(queue, Request(c))
        /\ IF Kind(Request(c)) = "shell"
           THEN /\ hpc' = [hpc EXCEPT ![c] = "processing"]
                /\ phase' = [phase EXCEPT ![c] = "want"]
           ELSE /\ hpc' = [hpc EXCEPT ![c] = "read"]
                /\ UNCHANGED phase
        /\ UNCHANGED crashed
  /\ UNCHANGED <<running, canceled, lock, cur, lines, cvars, lpc, upc, executed>>

\* processRequests() has returned, and with it OnLine(); an expression is
\* given to the shell, if there is one now.
OnLineReturns(c) ==
  /\ hpc[c] = "processing" /\ phase[c] = "idle"
  /\ hpc' = [hpc EXCEPT ![c] =
       IF Script[c][lines[c]] = "expr" /\ ~hasShell[c] THEN "fall" ELSE "read"]
  /\ UNCHANGED <<lines, cvars>> /\ ReadFrame

\* The read loop ends: the client is through, or Exit() closed the socket.
\* (Lines that were already buffered may still be handled before.)
LeaveReadLoop(c) ==
  /\ hpc[c] = "read"
  /\ closed[c] \/ lines[c] = Len(Script[c])
  /\ hpc' = [hpc EXCEPT ![c] = "dtor"]
  /\ UNCHANGED <<lines, cvars>> /\ ReadFrame

\* Mutant: the destructor does not wait for requests in flight.
ConsoleDtor_NoWait(c) ==
  /\ hpc[c] = "dtor"
  /\ hpc' = [hpc EXCEPT ![c] = "gone"]
  /\ hasShell' = [hasShell EXCEPT ![c] = FALSE]
  /\ UNCHANGED <<lines, useCount, closed>> /\ ReadFrame

\* ~ConsoleSocket() waits for the use count to drop to zero and deletes the
\* shell, which waits for the shell's evaluation to end; then the object is
\* gone and the thread ends.
ConsoleDtor(c) ==
  /\ hpc[c] = "dtor"
  /\ useCount[c] = 0
  /\ hpc' = [hpc EXCEPT ![c] = "gone"]
  /\ hasShell' = [hasShell EXCEPT ![c] = FALSE]
  /\ UNCHANGED <<lines, useCount, closed>> /\ ReadFrame

-----------------------------------------------------------------------------
(* RequestManager::processRequests(), on thread t. *)

ProcFrame == UNCHANGED <<hvars, lpc, upc>>

\* Mutant: the mutex is not taken.
LockRequests_Unlocked(t) ==
  /\ phase[t] = "want"
  /\ phase' = [phase EXCEPT ![t] = "next"]
  /\ UNCHANGED <<running, qvars, lock, cur, cvars, executed, crashed>> /\ ProcFrame

\* Mutant: nothing to do if the queue is empty already.
LockRequests_IfQueued(t) ==
  /\ phase[t] = "want"
  /\ IF queue = <<>>
     THEN phase' = [phase EXCEPT ![t] = "idle"] /\ UNCHANGED lock
     ELSE lock = None /\ lock' = t /\ phase' = [phase EXCEPT ![t] = "next"]
  /\ UNCHANGED <<running, qvars, cur, cvars, executed, crashed>> /\ ProcFrame

LockRequests(t) ==
  /\ phase[t] = "want"
  /\ lock = None
  /\ lock' = t
  /\ phase' = [phase EXCEPT ![t] = "next"]
  /\ UNCHANGED <<running, qvars, cur, cvars, executed, crashed>> /\ ProcFrame

\* The queue is empty: unlock and return.
QueueEmpty(t) ==
  /\ phase[t] = "next"
  /\ queue = <<>>
  /\ phase' = [phase EXCEPT ![t] = "idle"]
  /\ lock' = None
  /\ UNCHANGED <<running, qvars, cur, cvars, executed, crashed>> /\ ProcFrame

\* popRequest().
popRequest(t) ==
  /\ phase[t] = "next"
  /\ queue # <<>> /\ ~canceled
  /\ cur' = [cur EXCEPT ![t] = Head(queue)]
  /\ queue' = Tail(queue)
  /\ phase' = [phase EXCEPT ![t] = "exec"]
  /\ UNCHANGED <<running, canceled, lock, cvars, executed, crashed>> /\ ProcFrame

\* popRequest() throws: the main loop of serverLoop() catches it and ends;
\* a handler thread and the drain do not.
popCanceled(t) ==
  /\ phase[t] = "next"
  /\ queue # <<>> /\ canceled
  /\ lock' = None
  /\ phase' = [phase EXCEPT ![t] = "idle"]
  /\ IF t = Loop /\ lpc = "processing"
     THEN lpc' = "reset" /\ UNCHANGED crashed
     ELSE crashed' = TRUE /\ UNCHANGED lpc
  /\ UNCHANGED <<running, qvars, cur, cvars, hvars, upc, executed>>

\* execute() of an ordinary command, or of one that installs a shell.
ExecuteCommand(t) ==
  /\ phase[t] = "exec"
  /\ Kind(cur[t]) \in {"cmd", "shell"}
  /\ hasShell' = [hasShell EXCEPT ![Console(cur[t])] = @ \/ Kind(cur[t]) = "shell"]
  /\ executed' = Append(executed, cur[t])
  /\ phase' = [phase EXCEPT ![t] = "delete"]
  /\ UNCHANGED <<running, qvars, lock, cur, useCount, closed, crashed>> /\ ProcFrame

\* The exit command: con->Exit(), and only then set_console(nullptr).
ExecuteExit(t) ==
  /\ phase[t] = "exec"
  /\ Kind(cur[t]) = "exit"
  /\ closed' = [closed EXCEPT ![Console(cur[t])] = TRUE]
  /\ executed' = Append(executed, cur[t])
  /\ phase' = [phase EXCEPT ![t] = "putexit"]
  /\ UNCHANGED <<running, qvars, lock, cur, useCount, hasShell, crashed>> /\ ProcFrame

\* The shutdown command calls stop(): first _running = false ...
ExecuteShutdown(t) ==
  /\ phase[t] = "exec"
  /\ Kind(cur[t]) = "shutdown"
  /\ running' = FALSE
  /\ executed' = Append(executed, cur[t])
  /\ phase' = [phase EXCEPT ![t] = "cancel"]
  /\ UNCHANGED <<qvars, lock, cur, cvars, crashed>> /\ ProcFrame

\* ... then requestQueue.cancel() ...
ShutdownCancel(t) ==
  /\ phase[t] = "cancel"
  /\ canceled' = TRUE
  /\ phase' = [phase EXCEPT ![t] = "put"]
  /\ UNCHANGED <<running, queue, lock, cur, cvars, executed, crashed>> /\ ProcFrame

\* ... then set_console(nullptr), which gives up the console ...
ShutdownPut(t) ==
  /\ phase[t] = "put"
  /\ useCount' = [useCount EXCEPT ![Console(cur[t])] = @ - 1]
  /\ phase' = [phase EXCEPT ![t] = "touch"]
  /\ UNCHANGED <<running, qvars, lock, cur, hasShell, closed, executed, crashed>> /\ ProcFrame

\* ... then con->Exit().
ShutdownExit(t) ==
  /\ phase[t] = "touch"
  /\ closed' = [closed EXCEPT ![Console(cur[t])] = TRUE]
  /\ cur' = [cur EXCEPT ![t] = None]
  /\ phase' = [phase EXCEPT ![t] = "next"]
  /\ UNCHANGED <<running, qvars, lock, useCount, hasShell, executed, crashed>> /\ ProcFrame

\* delete request: ~Request() does put() on the console (for exit it was
\* done by set_console(nullptr)).
DeleteRequest(t) ==
  /\ phase[t] \in {"delete", "putexit"}
  /\ useCount' = [useCount EXCEPT ![Console(cur[t])] = @ - 1]
  /\ cur' = [cur EXCEPT ![t] = None]
  /\ phase' = [phase EXCEPT ![t] = "next"]
  /\ UNCHANGED <<running, qvars, lock, hasShell, closed, executed, crashed>> /\ ProcFrame

-----------------------------------------------------------------------------
(* CogServer::serverLoop() and stop(). *)

LoopFrame == UNCHANGED <<running, queue, lock, cur, hvars, useCount, hasShell,
                         upc, executed, crashed>>

\* while (_running)
LoopWhile ==
  /\ lpc = "while"
  /\ lpc' = IF running THEN "barrier" ELSE "reset"
  /\ UNCHANGED <<canceled, phase, closed>> /\ LoopFrame

\* Mutants: the wait ends only when the queue is cancelled; only when
\* something is pushed.
LoopBarrier_CancelOnly ==
  /\ lpc = "barrier"
  /\ canceled
  /\ lpc' = "reset"
  /\ UNCHANGED <<canceled, phase, closed>> /\ LoopFrame

LoopBarrier_PushOnly ==
  /\ lpc = "barrier"
  /\ queue # <<>>
  /\ lpc' = "size"
  /\ UNCHANGED <<canceled, phase, closed>> /\ LoopFrame

\* requestQueue.barrier(): returns when there is a request, throws when canceled.
LoopBarrier ==
  /\ lpc = "barrier"
  /\ canceled \/ queue # <<>>
  /\ lpc' = IF canceled THEN "reset" ELSE "size"
  /\ UNCHANGED <<canceled, phase, closed>> /\ LoopFrame

\* while (0 < getRequestQueueSize()) runLoopStep()
LoopSize ==
  /\ lpc = "size"
  /\ IF queue = <<>>
     THEN lpc' = "while" /\ UNCHANGED phase
     ELSE lpc' = "processing" /\ phase' = [phase EXCEPT ![Loop] = "want"]
  /\ UNCHANGED <<canceled, closed>> /\ LoopFrame

\* processRequests() has returned to the main loop, or to the drain.
LoopProcessed ==
  /\ lpc \in {"processing", "draining"}
  /\ phase[Loop] = "idle"
  /\ lpc' = IF lpc = "processing" THEN "size" ELSE "drain"
  /\ UNCHANGED <<canceled, phase, closed>> /\ LoopFrame

\* requestQueue.cancel_reset()
LoopReset ==
  /\ lpc = "reset"
  /\ canceled' = FALSE
  /\ lpc' = "stop"
  /\ UNCHANGED <<phase, closed>> /\ LoopFrame

\* stop_listening() on each server: Exit() on every console that exists.
LoopStopListening ==
  /\ lpc = "stop"
  /\ closed' = [c \in Consoles |-> closed[c] \/ hpc[c] # "gone"]
  /\ lpc' = "drain"
  /\ UNCHANGED <<canceled, phase>> /\ LoopFrame

\* "Drain whatever is left in the queue."
LoopDrain ==
  /\ lpc = "drain"
  /\ IF queue = <<>>
     THEN lpc' = "join" /\ UNCHANGED phase
     ELSE lpc' = "draining" /\ phase' = [phase EXCEPT ![Loop] = "want"]
  /\ UNCHANGED <<canceled, closed>> /\ LoopFrame

\* join_threads()
LoopJoin ==
  /\ lpc = "join"
  /\ \A c \in Consoles : hpc[c] = "gone"
  /\ lpc' = "done"
  /\ UNCHANGED <<canceled, phase, closed>> /\ LoopFrame

\* stop() called by another thread: _running = false, then cancel().
UserStop ==
  /\ ExternalStop /\ upc = "idle"
  /\ running' = FALSE
  /\ upc' = "cancel"
  /\ UNCHANGED <<qvars, pvars, hvars, cvars, lpc, executed, crashed>>

UserCancel ==
  /\ upc = "cancel"
  /\ canceled' = TRUE
  /\ upc' = "done"
  /\ UNCHANGED <<running, queue, pvars, hvars, cvars, lpc, executed, crashed>>

-----------------------------------------------------------------------------
HandlerStep(c) ==
  \/ LineToShell(c) \/ LineRefused(c) \/ LineIgnored(c) \/ LineToExpr(c)
  \/ OpenShell(c) \/ FallThrough(c) \/ LineToRequest(c) \/ pushRequest(c)
  \/ OnLineReturns(c) \/ LeaveReadLoop(c) \/ ConsoleDtor(c)

ProcessStep(t) ==
  \/ LockRequests(t) \/ QueueEmpty(t) \/ popRequest(t) \/ popCanceled(t)
  \/ ExecuteCommand(t) \/ ExecuteExit(t) \/ ExecuteShutdown(t)
  \/ ShutdownCancel(t) \/ ShutdownPut(t) \/ ShutdownExit(t)
  \/ DeleteRequest(t)

LoopStep ==
  \/ LoopWhile \/ LoopBarrier \/ LoopSize \/ LoopProcessed \/ LoopReset
  \/ LoopStopListening \/ LoopDrain \/ LoopJoin

\* The process is dead, the loop has returned, or it waits for requests
\* with nobody left to send one.
Quiescent ==
  \/ crashed
  \/ lpc = "done" /\ upc # "cancel"
  \/ lpc = "barrier" /\ \A c \in Consoles : hpc[c] = "gone"

Next ==
  \/ /\ ~crashed
     /\ \/ \E c \in Consoles : HandlerStep(c)
        \/ \E t \in Threads : ProcessStep(t)
        \/ LoopStep \/ UserStop \/ UserCancel
  \/ Quiescent /\ UNCHANGED vars

Spec == Init /\ [][Next]_vars

\* The destructor of c waits for the shell, whose evaluation may run for ever
\* (ServerSocket.cc:438-449).
AwaitsShell(c) == hpc[c] = "dtor" /\ useCount[c] = 0 /\ hasShell[c]

\* Every thread is scheduled, and gets a mutex that keeps being released
\* (SF); "requests are assumed to run to completion" (RequestManager.h:40).
\* Nothing is assumed of what goes on in a shell.
FairSpec ==
  /\ Spec
  /\ \A c \in Consoles : WF_vars(~crashed /\ ~AwaitsShell(c) /\ HandlerStep(c))
  /\ \A t \in Threads : SF_vars(~crashed /\ ProcessStep(t))
  /\ WF_vars(~crashed /\ LoopStep)
  /\ WF_vars(~crashed /\ UserCancel)

-----------------------------------------------------------------------------
(* Properties. *)

\* What a console sent as r comes before what it sent as s.
Before(r, s) == Console(r) = Console(s) => r[2] < s[2]

\* Requests are executed once each and in the order in which their console
\* sent them, whichever threads run processRequests().
InOrder == \A i, j \in DOMAIN executed : i < j => Before(executed[i], executed[j])

\* "We *must* enter shell mode before handling any additional input from the
\* socket" (ServerConsole.cc:433-436): when OnLine() of a shell command is
\* over, or that of an expression, the shell is there, whoever executed the
\* request.
ShellEntered ==
  \A c \in Consoles :
    hpc[c] = "read" /\ lines[c] > 0 /\ RequestKind(c) = "shell" /\ running
    => hasShell[c]

\* The requests that have done get() on console c and not yet put().
Holding(c) ==
  {r \in Requests : Console(r) = c
     /\ \/ \E i \in DOMAIN queue : queue[i] = r
        \/ \E t \in Threads : cur[t] = r /\ phase[t] # "touch"
        \/ hpc[c] \in {"push", "help"} /\ r = Request(c)}

\* The requests that are still going to use console c, counted or not.
Using(c) ==
  Holding(c) \cup {r \in Requests : Console(r) = c /\ \E t \in Threads : cur[t] = r}

\* The shutdown command, between set_console(nullptr) and con->Exit()
\* (ShutdownRequest.cc:42-43).
UsesAfterPut(r) ==
  Kind(r) = "shutdown" /\ \E t \in Threads : cur[t] = r /\ phase[t] = "touch"

\* The use count is the number of requests that hold the console, and the
\* destructor is stalled "until all the in-flight requests are complete"
\* (ConsoleSocket.cc:31-33) but for one: the shutdown command gives the
\* console up and then calls it once more, when it may be deleted.
UseCountExact ==
  \A c \in Consoles :
    /\ useCount[c] = Cardinality(Holding(c))
    /\ hpc[c] = "gone" => \A r \in Using(c) : UsesAfterPut(r)

\* "run them, before returning": when serverLoop() has returned no request
\* is left, queued or half executed.
NothingLeftAtReturn ==
  lpc = "done" => /\ queue = <<>>
                  /\ \A t \in Threads : cur[t] = None /\ phase[t] = "idle"

\* A console is deleted under no request but a shutdown command in its last
\* call, and no request is left when serverLoop() has returned
\* (ConsoleSocket.cc:29-48, ShutdownRequest.cc:42-43, CogServer.cc:229-248).
RequestsAccounted == TypeOK /\ UseCountExact /\ NothingLeftAtReturn

\* The requests that some thread has popped and not yet given up.
Executing == {cur[t] : t \in Threads} \ {None}
Returned == lpc = "done"

Abstract == INSTANCE CommandQueue WITH executing <- Executing, returned <- Returned

\* The threads that run processRequests() are one executor: whichever of them
\* pops a request, no two are executed at a time, none is deleted before it was
\* executed or executed twice, and none is left or comes after serverLoop() has
\* returned (RequestManager.cc:39-47, CogServer.cc:196-248).
ImplementsCommandQueue == Abstract!Spec

\* The counterpart for a client that "fires and forgets" its commands and
\* disconnects (ConsoleSocket.cc:36-41): unless somebody stops the server
\* they are all executed, and the console is destroyed or has only its shell
\* to wait for.
FireAndForget ==
  \A c \in Consoles :
    <>(hpc[c] = "gone" /\ useCount[c] = 0) \/ <>[]AwaitsShell(c) \/ <>~running

\* "Handler threads may still be running and pushing requests; they must not
\* see a canceled queue" (CogServer.cc:214-216).
NoUncaughtCancel == ~crashed

\* "Join handler threads. Do this after the drain to avoid deadlock."
\* (CogServer.cc:233): a server that was told to stop comes to its end.  Two
\* things are excepted, each of which makes join_threads() wait for ever: a
\* request that is pushed after the drain, by a handler thread that found the
\* server running before stop() was called, which nobody executes; and a shell
\* whose evaluation does not end.
StopReturns ==
  (~running) ~> \/ lpc = "done" \/ crashed
                \/ [](lpc = "join" /\ queue # <<>>)
                \/ [](lpc = "join" /\ \E c \in Consoles : AwaitsShell(c))
=============================================================================
