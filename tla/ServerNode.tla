----------------------------- MODULE ServerNode -----------------------------
(***************************************************************************)
(* Starting and stopping the CogServer: the *-start-*, *-stop-* and *-run-* *)
(* messages of CogServerNode, the three NetworkServers that enable*Server() *)
(* makes and serverLoop() deletes, and the `shutdown` command, which stops *)
(* the server from inside.  The server can be started again, so every call *)
(* finds what the earlier ones have left.                                  *)
(*                                                                         *)
(* One thread sends the messages (the main program or a script).  It may   *)
(* send any message at any time: the code does not make *-start-* wait for *)
(* a serverLoop() that is still tearing down.  Why a handler thread may    *)
(* never end is in RequestLoop and Connections; here stop_listening() is    *)
(* one step, and join_threads() one that may never be taken.               *)
(***************************************************************************)
EXTENDS Naturals, Sequences, FiniteSets

CONSTANTS MaxCalls,     \* messages sent, in all
          MaxRequests   \* commands that clients give, in all

\* In the order of startServers(), and in that of serverLoop().
EnableOrder == <<"console", "web", "mcp">>
StopOrder == <<"mcp", "web", "console">>
Kinds == {"console", "web", "mcp"}
Commands == {"cmd", "shutdown"}

ASSUME ServerNodeAssumption == MaxCalls \in Nat /\ MaxRequests \in Nat

Loops == 1 .. MaxCalls

VARIABLES
  running,   \* CogServer::_running
  canceled,  \* the cancellation flag of requestQueue
  queue,     \* requestQueue, by kind of command
  ports,     \* the servers that have a port configured
  ptr,       \* _consoleServer, _webServer, _mcpServer: 0 or an index into inst
  inst,      \* the NetworkServer objects made so far, per kind
  mainLoop,  \* _main_loop: 0 or the serverLoop() that the thread runs
  lpc, li,   \* each serverLoop(): where it is, and at which server
  cpc, ci,   \* the thread that sends messages, and at which server it is
  call,      \* the message it has sent
  calls, sent,  \* messages and commands so far
  pending,   \* handler threads that found the server running and have yet to push
  stopped,   \* history: the last message was a *-stop-* that had to stop
  stale,     \* history: the queue was canceled when the server was started
  overlap,   \* history: a message met a serverLoop() that had not returned
  crash      \* "no", "freed" (use of a freed server), "cancel" (uncaught)

servers == <<ports, ptr, inst>>
lvars == <<lpc, li>>
cvars == <<cpc, ci, call, calls, mainLoop>>
hist == <<stopped, stale, overlap>>
vars == <<running, canceled, queue, servers, lvars, cvars, sent, pending, hist, crash>>

TypeOK ==
  /\ running \in BOOLEAN /\ canceled \in BOOLEAN
  /\ queue \in Seq(Commands) /\ pending \in [Commands -> Nat]
  /\ ports \subseteq Kinds
  /\ inst \in [Kinds -> Seq({"listening", "stopped", "freed"})]
  /\ ptr \in [Kinds -> Nat] /\ \A k \in Kinds : ptr[k] \in 0 .. Len(inst[k])
  /\ mainLoop \in 0 .. MaxCalls
  /\ lpc \in [Loops -> {"none", "while", "barrier", "size", "cancel", "reset", "stop",
                        "drain", "draincancel", "join", "null", "done"}]
  /\ li \in [Loops -> 1 .. Len(StopOrder)]
  /\ cpc \in {"idle", "enable", "launch", "running", "stop", "cancel", "join"}
  /\ ci \in 1 .. Len(EnableOrder)
  /\ call \in {"start", "stop", "run"}
  /\ calls \in 0 .. MaxCalls /\ sent \in 0 .. MaxRequests
  /\ stopped \in BOOLEAN /\ stale \in BOOLEAN /\ overlap \in BOOLEAN
  /\ crash \in {"no", "freed", "cancel"}

Init ==
  /\ running = FALSE /\ canceled = FALSE /\ queue = <<>>
  /\ ports \in {Kinds, {"console"}}
  /\ ptr = [k \in Kinds |-> 0] /\ inst = [k \in Kinds |-> <<>>]
  /\ lpc = [l \in Loops |-> "none"] /\ li = [l \in Loops |-> 1]
  /\ cpc = "idle" /\ ci = 1 /\ call = "stop" /\ calls = 0 /\ mainLoop = 0
  /\ sent = 0 /\ pending = [r \in Commands |-> 0]
  /\ stopped = FALSE /\ stale = FALSE /\ overlap = FALSE
  /\ crash = "no"

\* serverLoop() calls that have not returned.
Active == {l \in Loops : lpc[l] \notin {"none", "done"}}

-----------------------------------------------------------------------------
(* setValue(): *-start-* and *-run-*. *)

\* startServers() when the server is running returns at once; *-run-* does
\* not look at what it returns.
Start(c) ==
  /\ cpc = "idle" /\ calls < MaxCalls
  /\ calls' = calls + 1 /\ call' = c /\ ci' = 1
  /\ running' = TRUE
  /\ cpc' = CASE ~running -> "enable"
              [] running /\ c = "run" -> "launch"
              [] OTHER -> "idle"
  /\ stopped' = FALSE
  /\ stale' = IF cpc' = "idle" THEN stale ELSE canceled
  /\ overlap' = (overlap \/ (cpc' # "idle" /\ Active # {}))
  /\ UNCHANGED <<canceled, queue, servers, lvars, mainLoop, sent, pending, crash>>

\* The port is given back when the NetworkServer is deleted, not before.
PortFree(k) == \A i \in DOMAIN inst[k] : inst[k][i] = "freed"

\* enable*Server(): nothing if the server exists or has no port.  When the
\* port is in use (by a server of ours, or by another program) the
\* exception leaves the remaining servers out, and the start goes on.
Enable ==
  /\ cpc = "enable"
  /\ LET k == EnableOrder[ci]
         next == IF ci < Len(EnableOrder) THEN cpc' = "enable" /\ ci' = ci + 1
                 ELSE cpc' = "launch" /\ ci' = 1
     IN  \/ /\ ptr[k] # 0 \/ k \notin ports
            /\ next /\ UNCHANGED <<ptr, inst>>
         \/ /\ ptr[k] = 0 /\ k \in ports
            /\ PortFree(k)
            /\ inst' = [inst EXCEPT ![k] = Append(@, "listening")]
            /\ ptr' = [ptr EXCEPT ![k] = Len(inst[k]) + 1]
            /\ next
         \/ /\ ptr[k] = 0 /\ k \in ports
            /\ cpc' = "launch" /\ ci' = 1
            /\ UNCHANGED <<ptr, inst>>
  /\ UNCHANGED <<running, canceled, queue, ports, lvars, call, calls, mainLoop, sent, pending,
                 hist, crash>>

\* The next serverLoop(): in a thread of its own, or in this one.
Launch ==
  /\ cpc = "launch"
  /\ LET l == CHOOSE l \in Loops : lpc[l] = "none" /\ \A k \in 1 .. l - 1 : lpc[k] # "none"
     IN  /\ lpc' = [lpc EXCEPT ![l] = "while"]
         /\ IF call = "start"
            THEN mainLoop' = l /\ cpc' = "idle" /\ UNCHANGED ci
            ELSE cpc' = "running" /\ UNCHANGED <<mainLoop, ci>>
  /\ UNCHANGED <<running, canceled, queue, servers, li, call, calls, sent, pending, hist, crash>>

\* The serverLoop() of *-run-* has returned: it is the last one made.
RunReturns ==
  /\ cpc = "running"
  /\ \E l \in Loops : lpc[l] = "done" /\ \A k \in Loops : k > l => lpc[k] = "none"
  /\ cpc' = "idle"
  /\ UNCHANGED <<running, canceled, queue, servers, lvars, ci, call, calls, mainLoop, sent,
                 pending, hist, crash>>

-----------------------------------------------------------------------------
(* setValue(): *-stop-*. *)

Stop ==
  /\ cpc = "idle" /\ calls < MaxCalls
  /\ calls' = calls + 1 /\ call' = "stop"
  /\ cpc' = IF running THEN "stop" ELSE "idle"
  /\ stopped' = FALSE
  /\ UNCHANGED <<running, canceled, queue, servers, lvars, ci, mainLoop, sent, pending,
                 stale, overlap, crash>>

StopFrame == UNCHANGED <<queue, servers, lvars, ci, call, calls, sent, pending, stale,
                         overlap, crash>>

\* CogServer::stop() in two steps.
StopRunning ==
  /\ cpc = "stop"
  /\ running' = FALSE
  /\ cpc' = "cancel"
  /\ UNCHANGED <<canceled, mainLoop, stopped>> /\ StopFrame

\* Mutant: the queue is not canceled.
StopCancel_Missing ==
  /\ cpc = "cancel"
  /\ cpc' = "join"
  /\ UNCHANGED <<running, canceled, mainLoop, stopped>> /\ StopFrame

StopCancel ==
  /\ cpc = "cancel"
  /\ canceled' = TRUE
  /\ cpc' = "join"
  /\ UNCHANGED <<running, mainLoop, stopped>> /\ StopFrame

\* Mutant: the thread is detached.
Join_Detach ==
  /\ cpc = "join"
  /\ mainLoop' = 0 /\ cpc' = "idle" /\ stopped' = TRUE
  /\ UNCHANGED <<running, canceled>> /\ StopFrame

\* _main_loop->join(); stopServers() does nothing.
Join ==
  /\ cpc = "join"
  /\ mainLoop # 0 => lpc[mainLoop] = "done"
  /\ mainLoop' = 0 /\ cpc' = "idle" /\ stopped' = TRUE
  /\ UNCHANGED <<running, canceled>> /\ StopFrame

-----------------------------------------------------------------------------
(* serverLoop(). *)

LoopGoto(l, to) == lpc' = [lpc EXCEPT ![l] = to]
LoopFrame == UNCHANGED <<ports, cvars, sent, pending, hist>>

LoopWhile(l) ==
  /\ lpc[l] = "while"
  /\ LoopGoto(l, IF running THEN "barrier" ELSE "reset")
  /\ UNCHANGED <<running, canceled, queue, ptr, inst, li, crash>> /\ LoopFrame

\* requestQueue.barrier()
LoopBarrier(l) ==
  /\ lpc[l] = "barrier"
  /\ canceled \/ queue # <<>>
  /\ LoopGoto(l, IF canceled THEN "reset" ELSE "size")
  /\ UNCHANGED <<running, canceled, queue, ptr, inst, li, crash>> /\ LoopFrame

\* Mutant: the loop ends when the queue is empty.
LoopEmpty_Leaves(l) ==
  /\ lpc[l] = "size" /\ queue = <<>>
  /\ LoopGoto(l, "reset")
  /\ UNCHANGED <<running, canceled, queue, ptr, inst, li, crash>> /\ LoopFrame

\* while (0 < getRequestQueueSize())
LoopEmpty(l) ==
  /\ lpc[l] = "size" /\ queue = <<>>
  /\ LoopGoto(l, "while")
  /\ UNCHANGED <<running, canceled, queue, ptr, inst, li, crash>> /\ LoopFrame

\* A request is popped and executed, in the loop or in the drain; `shutdown`
\* calls stop().
LoopExecute(l) ==
  /\ lpc[l] \in {"size", "drain"} /\ queue # <<>> /\ ~canceled
  /\ queue' = Tail(queue)
  /\ IF Head(queue) = "cmd" THEN UNCHANGED <<running, lpc>>
     ELSE /\ running' = FALSE
          /\ LoopGoto(l, IF lpc[l] = "size" THEN "cancel" ELSE "draincancel")
  /\ UNCHANGED <<canceled, ptr, inst, li, crash>> /\ LoopFrame

LoopCancel(l) ==
  /\ lpc[l] \in {"cancel", "draincancel"}
  /\ canceled' = TRUE
  /\ LoopGoto(l, IF lpc[l] = "cancel" THEN "size" ELSE "drain")
  /\ UNCHANGED <<running, queue, ptr, inst, li, crash>> /\ LoopFrame

\* popRequest() throws: caught in the loop, not in the drain.
LoopThrows(l) ==
  /\ lpc[l] \in {"size", "drain"} /\ queue # <<>> /\ canceled
  /\ IF lpc[l] = "size" THEN LoopGoto(l, "reset") /\ UNCHANGED crash
     ELSE crash' = "cancel" /\ UNCHANGED lpc
  /\ UNCHANGED <<running, canceled, queue, ptr, inst, li>> /\ LoopFrame

LoopReset(l) ==
  /\ lpc[l] = "reset"
  /\ canceled' = FALSE
  /\ LoopGoto(l, "stop")
  /\ UNCHANGED <<running, queue, ptr, inst, li, crash>> /\ LoopFrame

\* What becomes of server k of the loop, if there is one.
Touch(k, to) ==
  IF ptr[k] = 0 THEN UNCHANGED <<inst, crash>>
  ELSE IF inst[k][ptr[k]] = "freed" THEN crash' = "freed" /\ UNCHANGED inst
  ELSE inst' = [inst EXCEPT ![k][ptr[k]] = to] /\ UNCHANGED crash

\* stop_listening() and, later, join_threads() and delete, server by server.
LoopServer(l, at, status, to) ==
  /\ lpc[l] = at
  /\ Touch(StopOrder[li[l]], status)
  /\ IF li[l] < Len(StopOrder)
     THEN li' = [li EXCEPT ![l] = @ + 1] /\ UNCHANGED lpc
     ELSE li' = [li EXCEPT ![l] = 1] /\ LoopGoto(l, to)
  /\ UNCHANGED <<running, canceled, queue, ptr>> /\ LoopFrame

LoopStopListening(l) == LoopServer(l, "stop", "stopped", "drain")

LoopDrained(l) ==
  /\ lpc[l] = "drain" /\ queue = <<>>
  /\ LoopGoto(l, "join")
  /\ UNCHANGED <<running, canceled, queue, ptr, inst, li, crash>> /\ LoopFrame

\* join_threads() waits for every handler thread, and the one of a console for
\* the requests that came from it.  It may wait longer than that, even for ever.
JoinReturns(k) ==
  k = "console" /\ ptr[k] # 0 => queue = <<>> /\ \A r \in Commands : pending[r] = 0

\* Mutant: the servers are joined, but not deleted.
LoopDelete_Forgets(l) ==
  JoinReturns(StopOrder[li[l]]) /\ LoopServer(l, "join", "stopped", "null")

LoopDelete(l) ==
  JoinReturns(StopOrder[li[l]]) /\ LoopServer(l, "join", "freed", "null")

LoopNull(l) ==
  /\ lpc[l] = "null"
  /\ ptr' = [k \in Kinds |-> 0]
  /\ LoopGoto(l, "done")
  /\ UNCHANGED <<running, canceled, queue, inst, li, crash>> /\ LoopFrame

-----------------------------------------------------------------------------
(* The handler threads of the consoles, which are there until their server  *)
(* is deleted.  (Web connections execute their commands themselves.)        *)

\* OnLine() finds the server running ...
GiveCommand(r) ==
  /\ sent < MaxRequests
  /\ running
  /\ \E i \in DOMAIN inst["console"] : inst["console"][i] # "freed"
  /\ sent' = sent + 1
  /\ pending' = [pending EXCEPT ![r] = @ + 1]
  /\ UNCHANGED <<running, canceled, queue, servers, lvars, cvars, hist, crash>>

\* ... and pushes the request, which throws if the queue is canceled by then.
PushCommand(r) ==
  /\ pending[r] > 0
  /\ pending' = [pending EXCEPT ![r] = @ - 1]
  /\ IF canceled THEN crash' = "cancel" /\ UNCHANGED queue
     ELSE queue' = Append(queue, r) /\ UNCHANGED crash
  /\ UNCHANGED <<running, canceled, servers, lvars, cvars, sent, hist>>

-----------------------------------------------------------------------------
LoopStep(l) ==
  \/ LoopWhile(l) \/ LoopBarrier(l) \/ LoopEmpty(l) \/ LoopExecute(l)
  \/ LoopCancel(l) \/ LoopThrows(l) \/ LoopReset(l) \/ LoopStopListening(l)
  \/ LoopDrained(l) \/ LoopDelete(l) \/ LoopNull(l)

\* The loop waits for the handler threads of a server, of which nothing is
\* assumed.
Joining(l) == lpc[l] = "join" /\ ptr[StopOrder[li[l]]] # 0

CallStep == Enable \/ Launch \/ RunReturns \/ StopRunning \/ StopCancel \/ Join

\* The process is dead, no message is left to send, or everybody waits:
\* *-run-* for commands that cannot come, *-stop-* for a loop that missed the
\* cancellation because another loop took it back (overlap), or join_threads()
\* for a request that was pushed after the drain.
Finished ==
  /\ \/ crash # "no"
     \/ calls = MaxCalls /\ cpc = "idle"
     \/ /\ cpc = "running" \/ (cpc = "join" /\ overlap)
        /\ queue = <<>> /\ ~canceled /\ \A l \in Active : lpc[l] = "barrier"
     \/ queue # <<>> /\ \E l \in Active : lpc[l] = "join"
  /\ UNCHANGED vars

Next ==
  \/ /\ crash = "no"
     /\ \/ Start("start") \/ Start("run") \/ Stop \/ CallStep
        \/ \E l \in Loops : LoopStep(l)
        \/ \E r \in Commands : GiveCommand(r) \/ PushCommand(r)
  \/ Finished

Spec ==
  /\ Init /\ [][Next]_vars
  /\ \A l \in Loops : WF_vars(crash = "no" /\ ~Joining(l) /\ LoopStep(l))
  /\ \A r \in Commands : WF_vars(crash = "no" /\ PushCommand(r))
  /\ WF_vars(crash = "no" /\ CallStep)

-----------------------------------------------------------------------------
(* Properties.  The messages and the loop share everything without a lock;  *)
(* what is promised is promised as long as no *-start-* and no *-run-* meets *)
(* a serverLoop() that is still tearing down (overlap).                     *)

\* "delete _mcpServer" ... "_mcpServer = nullptr" (CogServer.cc:234-252):
\* however often the server is started and stopped, no NetworkServer is
\* used after it was deleted.
NoFreedServer == crash = "freed" => overlap

\* Every NetworkServer that holds a port is one that the CogServer still
\* points to, so that its port is given back before the next start.
NoOrphanServer ==
  ~overlap => \A k \in Kinds : \A i \in DOMAIN inst[k] : inst[k][i] # "freed" => ptr[k] = i

\* The three pointers name just the servers that exist, whenever somebody
\* looks (CogServer.cc:80-172, 220-252).
PointersRight == TypeOK /\ NoFreedServer /\ NoOrphanServer

\* A *-stop-* that found the server running returns with serverLoop() over,
\* all servers gone and nothing left in the queue ("Waits for all
\* in-progress work to complete", CogServer.h:101-104).
NothingLeftAfterStop ==
  stopped /\ ~overlap => /\ Active = {} /\ queue = <<>> /\ ~running
                         /\ \A k \in Kinds : ptr[k] = 0

\* "Server's main loop. Executed while the 'running' flag is set to true"
\* (CogServer.h:89-91): *-is-running?-* means that somebody executes
\* requests, unless the queue was still canceled when the server was
\* started.  (stop() may cancel it after the loop's cancel_reset(): the next
\* serverLoop() then returns at once and leaves the flag set.)
RunningServes ==
  running /\ cpc \in {"idle", "running"} /\ ~stale /\ ~overlap
    => \E l \in Loops : lpc[l] \in {"while", "barrier", "size"}

\* *-stop-* returns, and so does *-run-* once a client has given `shutdown`,
\* or serverLoop() is held up for ever in join_threads(), by a connection that
\* does not end (ServerSocket.cc:438-449) or a command that was pushed after
\* the drain: neither barrier() nor the drain can hold it up.
StopReturns ==
  (cpc \in {"join", "running"} /\ ~running /\ ~overlap)
    ~> (cpc = "idle" \/ crash # "no" \/ [](\E l \in Loops : Joining(l)))
=============================================================================
