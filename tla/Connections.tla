---------------------------- MODULE Connections ----------------------------
(***************************************************************************)
(* The connections of the CogServer: the listener threads of the           *)
(* NetworkServers, the ServerSocket objects they create, the handler       *)
(* thread of each connection, the SocketManager all servers share (its     *)
(* registry and its connection limit), and the shutdown sequence that      *)
(* serverLoop() runs over them.                                            *)
(*                                                                         *)
(* A ServerSocket object is named by an element of Socks; a freed object   *)
(* can be allocated again.  The bytes on the wire are abstracted to the    *)
(* state of the TCP connection (conn), the lines to the fact that one is   *)
(* being handled.                                                          *)
(***************************************************************************)
EXTENDS Naturals, FiniteSets, Sequences

CONSTANTS Listeners,   \* the NetworkServers: MCP, web, console
          StopOrder,   \* the order in which serverLoop() stops them
          Socks,       \* ServerSocket objects
          MaxOpen,     \* SocketManager::_max_open_sockets
          HalfOpen,    \* may a client vanish without closing its connection?
          MayStop,     \* may the server be told to stop?
          None         \* no object

\* serverLoop() stops every server that was enabled.
ASSUME ConnectionsAssumption ==
  /\ IsFiniteSet(Listeners) /\ IsFiniteSet(Socks)
  /\ StopOrder \in Seq(Listeners)
  /\ \A l \in Listeners : \E i \in DOMAIN StopOrder : StopOrder[i] = l
  /\ MaxOpen \in Nat \ {0}
  /\ HalfOpen \in BOOLEAN /\ MayStop \in BOOLEAN
  /\ None \notin Socks

VARIABLES
  running,      \* NetworkServer::_running, per listener
  lpc,          \* where each listener thread is in NetworkServer::listen()
  lsock,        \* the ServerSocket each listener is setting up
  cancelled,    \* pthread_cancel() was called on the listener thread
  numOpen,      \* SocketManager::_num_open_sockets
  waitSet,      \* listener threads blocked on _max_cv
  sockList,     \* SocketManager::_sock_list
  spc,          \* life of each ServerSocket and of its handler thread
  owner,        \* the server whose _handler_threads holds the socket's thread
  conn,         \* the TCP connection of each socket
  busy,         \* sockets with a request or an evaluation that has not ended
  srv           \* where serverLoop() is, and which server it is working on

lvars == <<running, lpc, lsock, cancelled>>
mvars == <<numOpen, waitSet, sockList>>
svars == <<spc, owner, conn, busy>>
vars == <<lvars, mvars, svars, srv>>

ListenerPCs == {"accept", "accepted", "checked", "waiting", "gotslot",
                "registered", "ended", "cancelled", "unwound"}

\* "ctor": blocked in wait_available_slot(); "slot": constructed;
\* "listed": registered, no handler thread yet; "iwait": blocked reading;
\* "idle": reading for more than ten seconds; "quing": in OnLine();
\* "close": left the read loop; "dtor": Exit() done in the destructor;
\* "unlisted": rem_sock() done, the slot not yet released.
SockStates == {"free", "ctor", "slot", "listed", "iwait", "idle", "quing",
               "close", "dtor", "unlisted"}

\* "half": the peer vanished; "eof": the peer closed; "broken": a write to a
\* vanished peer failed, as the next read will tell; "shut": our side called
\* Exit().
ConnStates == {"none", "open", "half", "eof", "broken", "shut"}

SrvPhases == {"loop", "flag", "gone", "cancel", "join", "joinh", "done"}

TypeOK ==
  /\ running \in [Listeners -> BOOLEAN]
  /\ lpc \in [Listeners -> ListenerPCs]
  /\ lsock \in [Listeners -> Socks \cup {None}]
  /\ cancelled \in [Listeners -> BOOLEAN]
  /\ numOpen \in Nat
  /\ waitSet \subseteq Listeners
  /\ sockList \subseteq Socks
  /\ spc \in [Socks -> SockStates]
  /\ owner \in [Socks -> Listeners \cup {None}]
  /\ conn \in [Socks -> ConnStates]
  /\ busy \subseteq Socks
  /\ srv \in [phase : SrvPhases, at : Nat]

\* All servers run (CogServer::enable*Server), nobody is connected.
Init ==
  /\ running = [l \in Listeners |-> TRUE]
  /\ lpc = [l \in Listeners |-> "accept"]
  /\ lsock = [l \in Listeners |-> None]
  /\ cancelled = [l \in Listeners |-> FALSE]
  /\ numOpen = 0
  /\ waitSet = {}
  /\ sockList = {}
  /\ spc = [s \in Socks |-> "free"]
  /\ owner = [s \in Socks |-> None]
  /\ conn = [s \in Socks |-> "none"]
  /\ busy = {}
  /\ srv = [phase |-> "loop", at |-> 1]

-----------------------------------------------------------------------------
(* The listener thread: NetworkServer::listen(). *)

\* _acceptor.accept() returns: a client has connected.
Accept(l) ==
  /\ lpc[l] = "accept"
  /\ lpc' = [lpc EXCEPT ![l] = "accepted"]
  /\ UNCHANGED <<running, lsock, cancelled, mvars, svars, srv>>

\* "Exit, if cogserver is being shut down."
CheckRunning(l) ==
  /\ lpc[l] = "accepted"
  /\ lpc' = [lpc EXCEPT ![l] = IF running[l] THEN "checked" ELSE "ended"]
  /\ UNCHANGED <<running, lsock, cancelled, mvars, svars, srv>>

\* half_ping(): a byte to every connection idle for over ten seconds.  A
\* connection whose peer has vanished breaks by it.
half_ping(c) ==
  [s \in Socks |-> IF s \in sockList /\ spc[s] = "idle" /\ c[s] = "half"
                   THEN "broken" ELSE c[s]]

\* The ServerSocket constructor up to the first test of the wait loop in
\* wait_available_slot(), which holds _max_mtx throughout.
wait_available_slot(l, s) ==
  /\ lpc[l] = "checked"
  /\ spc[s] = "free"
  /\ numOpen' = numOpen + 1
  /\ lsock' = [lsock EXCEPT ![l] = s]
  /\ owner' = [owner EXCEPT ![s] = l]
  /\ conn' = [IF MaxOpen <= numOpen' THEN half_ping(conn) ELSE conn
                EXCEPT ![s] = "open"]
  /\ \/ /\ MaxOpen < numOpen'
        /\ lpc' = [lpc EXCEPT ![l] = "waiting"]
        /\ waitSet' = waitSet \cup {l}
        /\ spc' = [spc EXCEPT ![s] = "ctor"]
     \/ /\ numOpen' <= MaxOpen
        /\ lpc' = [lpc EXCEPT ![l] = "gotslot"]
        /\ spc' = [spc EXCEPT ![s] = "slot"]
        /\ UNCHANGED waitSet
  /\ UNCHANGED <<running, cancelled, sockList, busy, srv>>

\* Mutant: "if" in place of "while" around the wait.
Rewait_NoRetest(l) ==
  /\ lpc[l] = "waiting"
  /\ l \notin waitSet
  /\ lpc' = [lpc EXCEPT ![l] = "gotslot"]
  /\ spc' = [spc EXCEPT ![lsock[l]] = "slot"]
  /\ UNCHANGED <<running, lsock, cancelled, mvars, owner, conn, busy, srv>>

\* A listener woken from _max_cv tests the limit again.  Entering the wait
\* again is a cancellation point: a cancelled thread goes no further.
Rewait(l) ==
  /\ lpc[l] = "waiting"
  /\ l \notin waitSet
  /\ \/ /\ MaxOpen < numOpen
        /\ ~cancelled[l]
        /\ waitSet' = waitSet \cup {l}
        /\ UNCHANGED <<lpc, spc>>
     \/ /\ numOpen <= MaxOpen
        /\ lpc' = [lpc EXCEPT ![l] = "gotslot"]
        /\ spc' = [spc EXCEPT ![lsock[l]] = "slot"]
        /\ UNCHANGED waitSet
  /\ UNCHANGED <<running, lsock, cancelled, numOpen, sockList, owner, conn, busy, srv>>

\* ss->set_connection(sock), which registers the socket (add_sock).
set_connection(l) ==
  /\ lpc[l] = "gotslot"
  /\ lpc' = [lpc EXCEPT ![l] = "registered"]
  /\ spc' = [spc EXCEPT ![lsock[l]] = "listed"]
  /\ sockList' = sockList \cup {lsock[l]}
  /\ UNCHANGED <<running, lsock, cancelled, numOpen, waitSet, owner, conn, busy, srv>>

\* The handler thread is started and put in _handler_threads, and the loop
\* condition is tested.  The two are one step: the list is read only after
\* this thread was joined.
SpawnHandler(l) ==
  /\ lpc[l] = "registered"
  /\ lpc' = [lpc EXCEPT ![l] = IF running[l] THEN "accept" ELSE "ended"]
  /\ spc' = [spc EXCEPT ![lsock[l]] = "iwait"]
  /\ lsock' = [lsock EXCEPT ![l] = None]
  /\ UNCHANGED <<running, cancelled, mvars, owner, conn, busy, srv>>

\* The cancellation of stop_listening() is acted upon in accept() ...
CancelledInAccept(l) ==
  /\ cancelled[l]
  /\ lpc[l] = "accept"
  /\ lpc' = [lpc EXCEPT ![l] = "cancelled"]
  /\ UNCHANGED <<running, lsock, cancelled, mvars, svars, srv>>

\* ... or in the wait on _max_cv.  The stack is unwound out of the
\* constructor, so no destructor runs and the slot stays counted.
CancelledInWait(l) ==
  /\ cancelled[l]
  /\ lpc[l] = "waiting"
  /\ lpc' = [lpc EXCEPT ![l] = "unwound"]
  /\ waitSet' = waitSet \ {l}
  /\ spc' = [spc EXCEPT ![lsock[l]] = "free"]
  /\ owner' = [owner EXCEPT ![lsock[l]] = None]
  /\ conn' = [conn EXCEPT ![lsock[l]] = "none"]
  /\ lsock' = [lsock EXCEPT ![l] = None]
  /\ UNCHANGED <<running, cancelled, numOpen, sockList, busy, srv>>

-----------------------------------------------------------------------------
(* The handler thread of a connection: ServerSocket::handle_connection(). *)

HandlerFrame == UNCHANGED <<lvars, numOpen, waitSet, srv>>

\* A line arrives and OnLine() is called, which makes a request of it or gives
\* it to a shell.
ReadLine(s) ==
  /\ spc[s] = "iwait"
  /\ conn[s] = "open"
  /\ spc' = [spc EXCEPT ![s] = "quing"]
  /\ busy' = busy \cup {s}
  /\ UNCHANGED <<sockList, owner, conn>> /\ HandlerFrame

\* The requests and evaluations of s are over.  They may be endless loops: this
\* step need never come.
WorkEnds(s) ==
  /\ s \in busy
  /\ busy' = busy \ {s}
  /\ UNCHANGED <<spc, sockList, owner, conn>> /\ HandlerFrame

\* OnLine() returns, and the thread reads again.  That of a console returns
\* while the work goes on; that of an HTTP request waits for it.
LineDone(s) ==
  /\ spc[s] = "quing"
  /\ spc' = [spc EXCEPT ![s] = "iwait"]
  /\ UNCHANGED <<sockList, owner, conn, busy>> /\ HandlerFrame

\* OnLine() throws SilentException (end of an HTTP exchange).
LineEndsSession(s) ==
  /\ spc[s] = "quing"
  /\ spc' = [spc EXCEPT ![s] = "close"]
  /\ UNCHANGED <<sockList, owner, conn, busy>> /\ HandlerFrame

\* Ten seconds pass with no input.  That matters to half_ping() only, and
\* there only for a connection whose peer has vanished.
GoIdle(s) ==
  /\ spc[s] = "iwait"
  /\ conn[s] = "half"
  /\ spc' = [spc EXCEPT ![s] = "idle"]
  /\ UNCHANGED <<sockList, owner, conn, busy>> /\ HandlerFrame

\* Mutant: bad_descriptor, which Exit() causes, is logged like any other error.
ReadError_NotShut(s) ==
  /\ spc[s] \in {"iwait", "idle"}
  /\ conn[s] \in {"eof", "broken"}
  /\ spc' = [spc EXCEPT ![s] = "close"]
  /\ busy' \in {busy, busy \cup {s}}
  /\ UNCHANGED <<sockList, owner, conn>> /\ HandlerFrame

\* The read fails: the peer closed or was reset, or Exit() was called.  OnLine()
\* gets the lines that are left in the buffer, if any.
ReadError(s) ==
  /\ spc[s] \in {"iwait", "idle"}
  /\ conn[s] \in {"eof", "broken", "shut"}
  /\ spc' = [spc EXCEPT ![s] = "close"]
  /\ busy' \in {busy, busy \cup {s}}
  /\ UNCHANGED <<sockList, owner, conn>> /\ HandlerFrame

\* The read fails with another error, such as a timeout: it is logged and the
\* thread reads again.  The system reports an error once, then end of file.
ReadOtherError(s) ==
  /\ spc[s] \in {"iwait", "idle"}
  /\ conn[s] = "broken"
  /\ spc' = [spc EXCEPT ![s] = "iwait"]
  /\ conn' = [conn EXCEPT ![s] = "eof"]
  /\ UNCHANGED <<sockList, owner, busy>> /\ HandlerFrame

\* delete this: ~ConsoleSocket() waits for the requests of the socket and for its
\* shell, however long they take; then ~ServerSocket() calls Exit() ...
DtorExit(s) ==
  /\ spc[s] = "close"
  /\ s \notin busy
  /\ spc' = [spc EXCEPT ![s] = "dtor"]
  /\ conn' = [conn EXCEPT ![s] = "shut"]
  /\ UNCHANGED <<sockList, owner, busy>> /\ HandlerFrame

\* Mutant: the socket stays in the registry.
rem_sock_Kept(s) ==
  /\ spc[s] = "dtor"
  /\ spc' = [spc EXCEPT ![s] = "unlisted"]
  /\ UNCHANGED <<sockList, owner, conn, busy>> /\ HandlerFrame

\* ... then rem_sock() ...
rem_sock(s) ==
  /\ spc[s] = "dtor"
  /\ spc' = [spc EXCEPT ![s] = "unlisted"]
  /\ sockList' = sockList \ {s}
  /\ UNCHANGED <<owner, conn, busy>> /\ HandlerFrame

\* Mutants: the slot is released by the destructor of the base class and by
\* that of the derived class; nobody is notified; the count is not decremented.
release_slot_Twice(s) ==
  /\ spc[s] = "unlisted"
  /\ spc' = [spc EXCEPT ![s] = "free"]
  /\ owner' = [owner EXCEPT ![s] = None]
  /\ conn' = [conn EXCEPT ![s] = "none"]
  /\ numOpen' = numOpen - 2
  /\ waitSet' = {}
  /\ UNCHANGED <<lvars, sockList, busy, srv>>

release_slot_NoNotify(s) ==
  /\ spc[s] = "unlisted"
  /\ spc' = [spc EXCEPT ![s] = "free"]
  /\ owner' = [owner EXCEPT ![s] = None]
  /\ conn' = [conn EXCEPT ![s] = "none"]
  /\ numOpen' = numOpen - 1
  /\ UNCHANGED <<lvars, waitSet, sockList, busy, srv>>

release_slot_NoCount(s) ==
  /\ spc[s] = "unlisted"
  /\ spc' = [spc EXCEPT ![s] = "free"]
  /\ owner' = [owner EXCEPT ![s] = None]
  /\ conn' = [conn EXCEPT ![s] = "none"]
  /\ waitSet' = {}
  /\ UNCHANGED <<lvars, numOpen, sockList, busy, srv>>

\* ... then release_slot(), and the thread ends.
release_slot(s) ==
  /\ spc[s] = "unlisted"
  /\ spc' = [spc EXCEPT ![s] = "free"]
  /\ owner' = [owner EXCEPT ![s] = None]
  /\ conn' = [conn EXCEPT ![s] = "none"]
  /\ numOpen' = numOpen - 1
  /\ waitSet' = {}
  /\ UNCHANGED <<lvars, sockList, busy, srv>>

-----------------------------------------------------------------------------
(* Clients and other threads. *)

\* The client closes its end.
ClientClose(s) ==
  /\ conn[s] = "open"
  /\ conn' = [conn EXCEPT ![s] = "eof"]
  /\ UNCHANGED <<lvars, mvars, spc, owner, busy, srv>>

\* The client's host vanishes: nothing arrives, not even a FIN.
ClientVanish(s) ==
  /\ HalfOpen
  /\ conn[s] = "open"
  /\ conn' = [conn EXCEPT ![s] = "half"]
  /\ UNCHANGED <<lvars, mvars, spc, owner, busy, srv>>

\* Exit() by another thread: the kill command (SocketManager::kill finds the
\* socket in the registry) or the exit command, run by the server loop.
kill(s) ==
  /\ s \in sockList
  /\ conn[s] # "shut"
  /\ conn' = [conn EXCEPT ![s] = "shut"]
  /\ UNCHANGED <<lvars, mvars, spc, owner, busy, srv>>

\* The stats command pings idle connections too (display_stats).
display_stats ==
  /\ conn' = half_ping(conn)
  /\ conn' # conn
  /\ UNCHANGED <<lvars, mvars, spc, owner, busy, srv>>

-----------------------------------------------------------------------------
(* The end of CogServer::serverLoop(): stop_listening() on every server,   *)
(* then join_threads() on every server.                                    *)

Current == StopOrder[srv.at]

\* The loop is left; the first stop_listening() is called.
BeginShutdown ==
  /\ MayStop
  /\ srv.phase = "loop"
  /\ srv' = [srv EXCEPT !.phase = "flag"]
  /\ UNCHANGED <<lvars, mvars, svars>>

\* stop_listening(): _running = false.
StopFlag ==
  /\ srv.phase = "flag"
  /\ running' = [running EXCEPT ![Current] = FALSE]
  /\ srv' = [srv EXCEPT !.phase = "gone"]
  /\ UNCHANGED <<lpc, lsock, cancelled, mvars, svars>>

\* SocketManager::network_gone(): Exit() on every registered socket.
network_gone ==
  /\ srv.phase = "gone"
  /\ conn' = [s \in Socks |-> IF s \in sockList THEN "shut" ELSE conn[s]]
  /\ srv' = [srv EXCEPT !.phase = "cancel"]
  /\ UNCHANGED <<lvars, mvars, spc, owner, busy>>

\* Mutant: the acceptor is cancelled, but not the thread blocked in accept().
CancelListener_AsioOnly ==
  /\ srv.phase = "cancel"
  /\ srv' = [srv EXCEPT !.phase = "join"]
  /\ UNCHANGED <<lvars, mvars, svars>>

\* pthread_cancel() on the listener thread.
CancelListener ==
  /\ srv.phase = "cancel"
  /\ cancelled' = [cancelled EXCEPT ![Current] = TRUE]
  /\ srv' = [srv EXCEPT !.phase = "join"]
  /\ UNCHANGED <<running, lpc, lsock, mvars, svars>>

ListenerEnded(l) == lpc[l] \in {"ended", "cancelled", "unwound"}

\* _listener_thread->join(), and on to the next server.
JoinListener ==
  /\ srv.phase = "join"
  /\ ListenerEnded(Current)
  /\ srv' = IF srv.at < Len(StopOrder)
            THEN [phase |-> "flag", at |-> srv.at + 1]
            ELSE [phase |-> "joinh", at |-> 1]
  /\ UNCHANGED <<lvars, mvars, svars>>

\* Mutant: the handler threads are detached, not joined.
join_threads_Detach ==
  /\ srv.phase = "joinh"
  /\ srv' = IF srv.at < Len(StopOrder)
            THEN [srv EXCEPT !.at = @ + 1]
            ELSE [phase |-> "done", at |-> 1]
  /\ UNCHANGED <<lvars, mvars, svars>>

\* join_threads(): every handler thread of the server has ended.
join_threads ==
  /\ srv.phase = "joinh"
  /\ \A s \in Socks : owner[s] # Current
  /\ srv' = IF srv.at < Len(StopOrder)
            THEN [srv EXCEPT !.at = @ + 1]
            ELSE [phase |-> "done", at |-> 1]
  /\ UNCHANGED <<lvars, mvars, svars>>

\* serverLoop() has returned and nothing is left to happen.
Terminated == srv.phase = "done" /\ UNCHANGED vars

-----------------------------------------------------------------------------
ListenerStep(l) ==
  \/ CheckRunning(l)
  \/ \E s \in Socks : wait_available_slot(l, s)
  \/ Rewait(l)
  \/ set_connection(l)
  \/ SpawnHandler(l)
  \/ CancelledInAccept(l)
  \/ CancelledInWait(l)

\* What a handler thread does once it has something to do.
HandlerStep(s) ==
  LineDone(s) \/ LineEndsSession(s) \/ ReadError(s) \/ ReadOtherError(s)
    \/ DtorExit(s) \/ rem_sock(s) \/ release_slot(s)

ServerStep == StopFlag \/ network_gone \/ CancelListener \/ JoinListener \/ join_threads

Environment ==
  \/ \E l \in Listeners : Accept(l)
  \/ \E s \in Socks : \/ ReadLine(s) \/ GoIdle(s) \/ WorkEnds(s)
                       \/ ClientClose(s) \/ ClientVanish(s) \/ kill(s)
  \/ display_stats
  \/ BeginShutdown

Next ==
  \/ \E l \in Listeners : ListenerStep(l)
  \/ \E s \in Socks : HandlerStep(s)
  \/ ServerStep
  \/ Environment
  \/ Terminated

Spec == Init /\ [][Next]_vars

\* The threads of the server are scheduled, and OnLine() returns when there is
\* nothing to wait for.  Nothing is assumed of the clients, nor of their requests
\* and evaluations.
ThreadFairness ==
  /\ \A l \in Listeners : WF_vars(ListenerStep(l))
  /\ \A s \in Socks : WF_vars((spc[s] = "quing" => s \notin busy) /\ HandlerStep(s))
  /\ WF_vars(ServerStep)

FairSpec == Spec /\ ThreadFairness

-----------------------------------------------------------------------------
(* Properties. *)

Live == {s \in Socks : spc[s] # "free"}
Open == {s \in Socks : spc[s] \notin {"free", "ctor"}}
Unwound == {l \in Listeners : lpc[l] = "unwound"}

\* set_max_open_sockets() allows "at most max_open_socks concurrent
\* connections" (CogServer.cc:68): whatever the interleaving of the
\* listeners, the destructors and the cancellation, no more than MaxOpen
\* sockets are past their constructor.
OpenWithinLimit == Cardinality(Open) <= MaxOpen

\* _num_open_sockets counts each socket from before it waits until its
\* destructor released it, plus the slots of listeners that were cancelled
\* while they waited: no path releases twice or forgets to.
SlotsAccounted == numOpen = Cardinality(Live) + Cardinality(Unwound)

\* No lost wakeup: whoever sleeps on _max_cv really finds the pool full.
NoLostWakeup == waitSet # {} => MaxOpen < numOpen

\* half_ping(), kill(), network_gone() and the barriers use the pointers in
\* _sock_list: it holds exactly the sockets between set_connection() and
\* rem_sock(), never a destroyed object nor one without a connection.
RegistryLive ==
  sockList = {s \in Socks : spc[s] \notin {"free", "ctor", "slot", "unlisted"}}

\* "This guarantees [...] all handler threads have finished before
\* serverLoop() returns" (NetworkServer.cc:105-107): once it returned no
\* socket exists and no listener can create one.
AllJoinedAtReturn ==
  srv.phase = "done" => Live = {} /\ \A l \in Listeners : ListenerEnded(l)

\* The sockets that are open because their client keeps them so, or because of
\* work which the destructor has to wait for.
Kept == {s \in Open : conn[s] \in {"open", "half"} \/ s \in busy}

Stalled == \E l \in Listeners : lpc[l] = "waiting"
Admitted == \E l \in Listeners : lpc[l] \in {"gotslot", "unwound"}

\* At the limit "additional connections are forced to wait", and the server
\* "doesn't jam up" (network/README.md:63,53): a server stays stalled only
\* while all MaxOpen slots are in use.
NoJam == Stalled ~> (Admitted \/ [](Cardinality(Kept) = MaxOpen))

\* A connection that has its slot and is then closed, killed, or found dead by
\* half_ping() gives the slot back, whatever the read fails with, unless some work
\* of its own never ends: then "it will hang forever" in the destructor, which "is
\* perfectly normal" (ServerSocket.cc:438-449).
DeadReleased ==
  \A s \in Socks : s \in Open /\ conn[s] \in {"eof", "broken", "shut"}
                     ~> (spc[s] = "free" \/ [](s \in busy))

LastStopped == StopOrder[Len(StopOrder)]

\* network_gone() "closes all open sockets [...] This allows the threads to
\* be joined" (SocketManager.cc:277-281): serverLoop() returns once it was
\* told to stop, whatever the listeners are doing, unless a connection stays for
\* ever.  Two kinds can: one whose work never ends, and, as long as its client
\* lasts, one of the last server to be stopped, which was accepted before the flag
\* was cleared and registered after network_gone().
ShutdownReturns ==
  srv.phase # "loop" ~>
    \/ srv.phase = "done"
    \/ \E s \in Socks : [](s \in busy \/ (s \in Kept /\ owner[s] = LastStopped))
=============================================================================
