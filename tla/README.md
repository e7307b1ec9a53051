# A TLA+ model of the CogServer

The CogServer is a network server for the AtomSpace. Clients connect to a
console port (telnet or netcat), a web port (HTTP and websockets) or an MCP
port, send lines, and get answers. Every connection has a thread of its own;
every shell a client enters has two more. All of them share a connection limit,
a registry of sockets, one queue of requests, two kinds of barriers, and a
shutdown that has to end them all. The models in this directory are about that
concurrency: what the threads may do to each other between two lock
acquisitions, at the limit, while clients vanish, and while the server stops.

The source is `src/opencog/network` (sockets, servers, shells) and
`src/opencog/cogserver` (requests, consoles, modules, shells, MCP). The
correspondence between definitions and source lines is in `PROJECT.json`
(`map`); in a module a definition has the name of its C++ function where it
stands for one.

## Inventory

| Part | State | Operations | Where it is hard |
|---|---|---|---|
| `SocketManager`: limit and registry | `_num_open_sockets`, `_max_cv`, `_sock_list` | `wait_available_slot`, `release_slot`, `add/rem_sock`, `half_ping`, `kill`, `network_gone`, `display_stats` | listeners of all ports wait on one condition variable; a waiter counts itself; raw pointers to objects that other threads delete |
| `SocketManager`: barriers | `_recv_barriers`, `_global_barrier_active`, `_in_barrier` of each socket | `recv_barrier`, `global_barrier`, `block_on_bar` | several critical sections per operation; concurrent barriers; a node of the map that others sleep on |
| `NetworkServer` | `_running`, acceptor, handler threads | `listen`, `stop_listening`, `join_threads` | `pthread_cancel` of a thread that may be in a constructor; accept races the stop |
| `ServerSocket` | connection, status, last activity | `handle_connection`, `Exit`, destructor, `set_connection` | one object, used by its handler thread and by everybody who walks the registry |
| `CogServer` | `_running`, servers, managers | `serverLoop`, `stop`, `enable*/disable*Server` | `stop()` from any thread, in two steps |
| `RequestManager`, `Request` | request queue, class registry | `pushRequest`, `processRequests`, `set_console`, destructor | executed by whichever thread gets the mutex; requests hold raw console pointers |
| `ConsoleSocket`, `ServerConsole` | `_use_count`, `_shell` | `OnLine`, `get/put`, `SetShell`, destructor | the destructor waits for requests other threads run |
| built-in requests | – | `help`, `exit`, `shutdown`, module management | `shutdown` stops the server from within a request |
| `GenericShell` | `evalque`, `_eval_done`, `self_destruct`, pending output | `eval`, `line_discipline`, `user_interrupt`, `eval_loop`, `poll_loop`, destructor | three threads and an evaluator, four flags, and a shell that deletes itself |
| shell modules | – | one request class each | only configure a `GenericShell`; the sexpr shell adds the barrier commands |
| `ModuleManager` | module table (two keys per module), search path | `loadModule`, `unloadModule`, destructor | no lock; a module is unloaded while its requests are looked up or queued |
| `CogServerNode` | loop thread, ports | `*-start-*`, `*-stop-*`, `*-run-*` messages | start during a stop, a port in use, `shutdown` from inside |
| web server, websockets | header flags, content length, `_do_frame_io`, request and shell | request lines, bodies, upgrade, frames, pages | one connection, many requests; three threads write frames in two pieces |
| MCP server and `McpEval` | `_result`, `_done`, plugins, tool map | splitting of lines, JSON-RPC dispatch, registration | the answer is handed between two threads; results kept from message to message |
| top shell | `_done`, `_started` | `top` | a display loop that runs on the poll thread of a shell, for the length of one evaluation |
| main program, Guile and Python bindings, attic | – | – | configuration and glue |

How they interact. A listener thread accepts a connection, makes a
`ServerSocket` (which may wait for a slot), registers it and starts its handler
thread. The handler thread reads lines and calls `OnLine()`. A console without a
shell makes a request of the line and pushes it on the server's queue;
`serverLoop()` executes it, or the handler thread itself if it is one that opens
a shell. A console with a shell gives the line to the shell's queue, where the
shell's eval thread takes it; the poll thread sends the answers. Barrier
commands run on eval threads and go back to the `SocketManager`, which looks
into the queues of all shells. A shutdown runs the other way: `stop()` makes
`serverLoop()` leave its loop, close every socket, cancel the listeners, drain
the request queue, and join the handler threads, whose destructors wait for
requests and shells.

## Modules

| Module | Models | State | Actions |
|---|---|---|---|
| `Connections` | `SocketManager` limit and registry, `NetworkServer`, life of a `ServerSocket`, the network half of the shutdown | program counters of listeners, sockets and `serverLoop()`; the count, the waiters, the registry; each TCP connection; the sockets whose requests or evaluations are under way | one per step between two points where another thread can see or change shared state |
| `Rendezvous` | what `recv_barrier()` promises to clients | who has come to each meeting, who has gone | `Come`, `Complete`, `Go` |
| `CommandQueue` | what the request queue promises to consoles | one queue, the request being executed, those executed | `Submit`, `Begin`, `Execute`, `Retire`, `Return` |
| `LineShell` | what a shell promises to its user | lines waiting, running, evaluated, thrown away, answered | `Accept`, `Start`, `Finish`, `Discard`, `Answer`, `Close` |
| `RecvBarrier` | `recv_barrier()` | the map of barriers, with byte-wide counters; sleeping and woken threads | arrival, resumption |
| `GlobalBarrier` | `global_barrier()`, `block_on_bar()`, and of each shell the queue, the eval thread and `_eval_done` | positions in the queues, marks, the flag, the registry lock | one per critical section, and one per socket looked at |
| `RequestLoop` | request queue, `processRequests()`, `OnLine()` with each kind of line (command, shell, expression, blank, `exit`, `shutdown`), the use count, `stop()`, `serverLoop()` | the queue and its cancellation, the mutex, program counters, use counts | one per queue operation or lock |
| `GenericShell` | the three threads of a shell and how an evaluator is polled: one whose `poll_result()` waits (Scheme, Python), `McpEval`, and `TopEval` | the queue, the flags, `_poll_mtx`, the evaluator's answer | one per flag, lock or queue operation |
| `WebSession` | one connection to the web port: `handle_connection()` on HTTP, `HandshakeLine()`, websocket frames, the callbacks of `WebServer` | what the client sent, the parser's flags, the shell, the writes so far | one per read and per write of the handler, of the shell's threads and of `half_ping()` |
| `Mcp` | `MCPServer::OnLine()`, `McpEval` and its registration of plugins, over TCP and HTTP | the rest of the line, `_result`, `_done`, plugins and tools | a line or request arrives; one object is cut off and evaluated; its reply is polled |
| `Modules` | `ModuleManager`, the registry of `RequestManager`, `load` and `unload`, and the handlers of both ports that use the two registries | the module map, the factories, module objects, the queue | one per step of loading and unloading, of a console that creates and pushes a request, and of a web connection that creates and executes one or lists the modules |
| `ServerNode` | the messages of `CogServerNode`, `enable*Server()`, `serverLoop()` and its restart, `shutdown` | `_running`, the cancellation, server objects and pointers, ports, each loop, commands in the hand of a console | one per server enabled, stopped or deleted, and per flag or queue operation |
| `MC*` | – | – | instances and client scripts for TLC |
| `*Proofs` | – | – | the theorems about the module they are named after, its inductive invariant and the lemmas |

`Rendezvous`, `CommandQueue` and `LineShell` are abstract: they have
no threads, locks, counters or flags, and say in a page what a user of the
component may rely on. The module that models the code instantiates the one it
implements (`Abstract`), with an expression over its own state for each abstract
variable:

- `RecvBarrier`: who has come to a meeting, and gone from it, are those that have
  called `recv_barrier()` with the UUID, and returned.
- `RequestLoop`: the request being executed is what any thread has popped and not
  yet deleted; the two sequences are those of the model.
- `GenericShell`: the line that runs is the one that the eval thread has popped;
  those that wait are in `evalque` (the sentinel of the destructor is none);
  the shell is closed when its destructor has joined the eval thread.

The modules overlap where components meet, each time with the other side reduced
to what it can do to this one. For `Connections` what a client asked for is work
that begins with a line and ends some day, or never; the destructor waits for it.
For `RequestLoop` the network is "every console is closed at some point", and a
shell is something that `~ConsoleSocket()` may wait for without end; a line that
names no command becomes a `help` request, which is one more command, and an
expression on a server without its shell becomes two. For `GlobalBarrier` a shell
is a queue, an eval thread and a flag; for `GenericShell` a request is the call of
`eval()`. For `WebSession` a shell evaluates one line at a time and answers it, or
does not come to an end with it; for `ServerNode` a `NetworkServer` listens, is
stopped and is freed, each in one step, of which the last may wait for ever for
handler threads; a console tests `running()` and pushes its command in two. For
`Modules` the queue is executed by one thread at a time, whichever holds the
mutex, while each web connection executes its own commands without it
(`WebServer.cc:98-112`).

What a client sends is a parameter (`Script`, `Sessions`): a sequence of kinds
of lines, one kind for each path the code distinguishes. Text is not modelled.
Condition variables are modelled as the set of sleeping threads (or as a guard,
where the waiter tests a predicate in a loop), so a lost wakeup is a state
the model can reach. A mutex held over a single action is left out; one that is
held over several is a variable. `pthread_cancel` acts at the
cancellation points of the listener, `accept()` and the wait for a slot; it is
taken to unwind the thread there, which is what glibc and libstdc++ do for
`condition_variable::wait`. Lines that are buffered when a peer closes count as
read before the close.

Properties are stated at the end of each module, each with the line of the code
or documentation that makes the promise. Where several of them are sides of one
promise a run checks their conjunction, which in all modules but `Connections`
includes the type invariant (`NodeLifetime`, `HoldInv`, `RequestsAccounted`,
`CleanExit`, `WireWellFormed`, `RepliesRight`, `RegistriesRight`,
`PointersRight`). Definitions introduced by a comment
"Mutant:" are not part of the specification. They are wrong versions of the
definition that follows (a dropped guard, a lost notification), each of which
breaks the property `PROJECT.json` lists for it; they document what the property
depends on.

## What the runs show

Run a configuration with `tlc -config X.cfg MCM` (`ServerNode.cfg` with
`ServerNode` itself, which needs no definitions of an instance).

| Run | Instance | Result |
|---|---|---|
| `Connections.cfg` | 2 servers, limit 1, 3 socket objects, half-open clients, shutdown at any time | the limit, the count, no lost wakeup, the registry, everything joined when `serverLoop()` returns: all hold; a dead connection gives back its slot unless its work never ends; shutdown ends unless some work never does, or a client came too late for `network_gone()` and stays |
| `ConnectionsJam.cfg` | the same, no shutdown | **violated**: the server jams (finding 1) |
| `RecvBarrier.cfg` | 2 clients with 3 and 2 sockets, 2 barriers each, a fresh UUID per barrier | nobody leaves before all have come, everybody leaves, no node is freed under a sleeper or left behind; the refinement of `Rendezvous` |
| `GlobalBarrier.cfg` | 2 sockets of a client at a cog-barrier and then both at global barriers; a third, of another client, at work and then at a global barrier of its own | what was queued has been popped when the barrier ends, at most one line per shell comes late, the flag never outlives the barriers; every command is run, unless a global barrier crosses a cog-barrier (`Crossed`), which is the only deadlock |
| `RequestLoop.cfg` | a client that sends an expression between two commands; one that sends a blank line, leaves and shuts down; `stop()` from outside | shells before further input; exact use counts, and no console deleted under a request but a `shutdown` in its last call; nothing left at return; the refinement of `CommandQueue`; fire-and-forget; stop comes to its end unless a request comes after the drain or a shell does not end |
| `RequestLoopCancel.cfg` | one command, one `shutdown` | **violated**: an uncaught `Canceled` (finding 2) |
| `GenericShell.cfg` | ten sessions: work, errors, interrupts, telnet options, ctrl-D, disconnection; three kinds of evaluator | expressions and answers keep their order, nothing queued is dropped, the refinement of `LineShell`, the destructor returns and leaves neither thread nor pointer behind |
| `TopShell.cfg` | one client that starts `top` and disconnects | **violated**: the destructor of the shell does not return (finding 3) |
| `WebSession.cfg` | two requests (of six kinds) and two frames on one connection, one `half_ping()`, the client may close anywhere | bodies and text frames reach `OnLine()` once, whole and in order; no frame before the 101, and after it no HTTP and at most one stray SYN; each thread's halves of frames are in order, and none is cut off by a deletion; pings are answered; requests are delivered, and the socket of a client that has closed is deleted, unless an evaluation never ends |
| `Mcp.cfg` | eleven kinds of objects, blanks and a fragment, up to three in up to two lines or HTTP requests | the brace count finds the ends of objects; each message is answered once with its id; listed tools can be called |
| `Modules.cfg` | built-in module, two shells (of which one registers its command in `init()`), user module and a file that is none; a console and a web connection, four commands | both keys and the commands of a module agree, factories are never those of a freed module, a request outlives its module only by a later unload, and the registries crash the server only after an unload or during a load; all queued requests are executed |
| `ServerNode.cfg` | four messages in any order, one command of a console, ports free or taken | no server is used after it was deleted or lost with its port, `*-stop-*` leaves nothing, a server that says it runs does, `*-stop-*` and a stopped `*-run-*` return unless held up in `join_threads()` |

Why the bounds are enough. In `Connections` the interesting events are a full
pool, more listeners than free slots, a slot released while another listener is
between its test and its sleep, an object that is allocated again, and a stop in
each of those situations. Two listeners and a limit of one produce all of them; at
most `MaxOpen` + listeners objects exist at a time, which is the number of names
there are (one object fewer would only delay an allocation). The code's limit is
the number of CPUs (or what `set_max_open_sockets()` says), and the theorems below
are about every limit. In `RecvBarrier` a third socket separates "the last to
arrive" from "the last to leave", and a second barrier brings a fast socket back
while a slow one is still waking up. `Wrap` stands for the 256 of the byte-wide
counters and exceeds every group size used. In `GlobalBarrier` two concurrent
barriers and a third socket at work are the least with which barriers can release
each other's hold; the third socket's own barrier is what meets the others before
or at their cog-barrier. In `RequestLoop` two handler threads and the loop compete
for the mutex. Scripts of two to four lines are the only bound on `GenericShell`,
whose threads are fixed in number. In `WebSession` a second request is what sees
the state left by the first, and a second frame what follows a ping. Two calls of
`half_ping()` are too many for TLC; that all of them together leave at most one
SYN after the 101 rests on the proof (`WireIsWellFormed`). Bodies of zero and one
byte are the two paths of `get_http_body()`; the three widths of a frame's length
are encoded and decoded without any state, and left out. In `Mcp` an object after
an object, a fragment or a blank needs two items, and the third shows that the
splitter is back at its start; a second line sees what the first has left in
`_result` and, over HTTP, the plugins registered again. In `Modules` four commands
are load, use, unload and one more of another connection between any two of them.
The broken file has a copy that cannot be opened and one in the working directory,
for the two ways in which a search can fail. In `ServerNode` four messages make
two lives of the server, or a start that meets the end of the first life and a
stop after it.

No symmetry is used, since most runs check liveness.
Deadlock is checked except in the jam instance, in `RequestLoop.cfg`, where a
request pushed too late leaves the server waiting for ever (below), and in
`WebSession.cfg` and `Mcp.cfg`, where the connection may be over or the
client have nothing left to send.

### Fairness

Weak fairness of each thread: the scheduler runs it as long as it can proceed
(in `ServerNode` of the loops and of a message that was sent, in `Modules` of the
executor and of a handler with a line in hand, in `WebSession` of handler,
shell and listener).
Strong fairness of steps that need a mutex which others take and
release over and over (eval threads at a barrier, threads in
`processRequests()`, `wake_poll()`): a waiter is queued on the futex, and the
poll thread leaves the mutex free for 10 ms in each round. Requests end ("requests
are assumed to run to completion", `RequestManager.h`). An evaluation need not:
`ServerSocket.cc:438-449` calls it normal that one keeps the destructor waiting for
ever, and `top` does (finding 3). `Connections` (work), `RequestLoop`
(`AwaitsShell`), `WebSession` (`EvalBody`, `Evaluate`) and `ServerNode`
(`Joining`) assume no fairness of it, and their liveness properties name
it as an exception; `GenericShell` and `GlobalBarrier`, where evaluations are
short commands and barriers, have them end, except for a display.
A timed wait ends. No fairness is assumed of clients: they may fall silent at
any time, except that in `GlobalBarrier`, `RecvBarrier` and `RequestLoop` each
client gets to send its script, which is what those liveness properties are
about.

### Findings

1. *The limit can jam the server* (`NoJam`). A listener that waits for a slot is
   counted as an open socket, and a waiter proceeds only when the count is at
   most the limit. With more waiting listeners than slots, all connections can close
   and nobody is admitted: the waiters hold each other up.
   `network/README.md` says the server "doesn't jam up".
2. *A cancelled queue* (`NoUncaughtCancel`). `stop()` cancels the queue while
   handler threads push to it; the comment in `serverLoop()` says that they must
   not see a cancelled queue, and the exception is not caught.
3. *A client that disconnects from `top`* (`DestructorReturns`). The destructor
   of the shell waits for the evaluation in progress to end. A display ends only
   when a line is typed into it, and the client that could type is gone: the poll
   thread goes on drawing, the handler thread stays in the destructor, and with it
   the slot of the connection and any later shutdown. The comment in
   `poll_loop()` takes it that polling again keeps the eval thread from waiting
   "forever" (`GenericShell.cc:670-675`).

Deviations met on the way that no run is devoted to, most of them visible in a
model as the exception a property makes:

- A client accepted just before the stop and registered after `network_gone()`
  holds up the shutdown until it leaves (an exception of `ShutdownReturns`).
- A request pushed after the drain of the queue is never executed, its
  console never destroyed, and `join_threads()` never returns (an exception of
  `StopReturns`, in `RequestLoop` and in `ServerNode`).
- A barrier UUID that is used again before all sockets have left the first
  barrier: the newcomer takes the old node for its own and counts itself out of
  it, and the node is erased under a sleeper (`SocketManager.cc:399`). The
  instance of `RecvBarrier` keeps to fresh UUIDs.
- A global barrier does not wait for work between `pop()` and `start_eval()`: the
  shell has an empty queue and `_eval_done` set, and counts as drained
  (`GenericShell.cc:537`; `SocketManager.h:101` promises more).
- `poll_output()` relies on a `poll_result()` that blocks; the one of `McpEval`
  does not, so that an evaluation is declared finished while it runs, and its
  answer may be cleared by the next `begin_eval()` (`McpEval.cc:412`,
  `GenericShell.cc:713`).
- The counters of `recv_barrier()` are bytes: a group of more than 255 sockets
  is released early or never, and one of size 0 waits for 256.
- A push that has passed `block_on_bar()` arrives while the barrier is active; it
  is one per shell at most (`HeldBack`).
- A barrier that ends undoes one that begins. The last one out looks for other
  barriers and then clears `_global_barrier_active`, in two steps. A barrier that
  marks itself and sets the flag in between loses it, and waits for queues to
  drain that clients go on filling, against `SocketManager.h:102-103`. With finite
  scripts it still ends (`EverythingRuns`), but later than it should, or never if a
  client does not stop. `HeldBack` excepts these barriers (`exposed`).
- `ShutdownRequest` calls `set_console(nullptr)` and then `con->Exit()`. A client
  that sends `shutdown` and disconnects has its handler thread in the destructor
  by then, which the first of the two calls lets through; `ConsoleSocket.cc:31-33`
  means to stall it until all requests are complete. `ExitRequest` calls them in
  the other order. `RequestsAccounted` excepts this one call (`UsesAfterPut`).
- A global barrier, of any client, that becomes active while some sockets of a
  group are at their `cog-barrier` and the line of another is held back: the global
  barrier waits for shells that wait for a line it holds back, all of them for ever.
  So does a `cog-barrier` of which one member is in a global barrier first
  (`Crossed`, the exception of `EverythingRuns`; "Avoid deadlock",
  `SocketManager.cc:336`, is not about this one).
- `McpEval` stores the message for a request it cannot parse without setting
  `_done`, so that it is never sent (`EvalUnparsed`), and repeats its last answer
  after an interrupt (`InterruptEvaluator`).
- In the drain of a shell's queue an exception of the evaluator is not caught
  (`EvalThrows`).
- A line typed into `top` while the display is being started is queued behind it
  and does not end it (`EveryLineRuns` excepts a display that never ends);
  `TopEval.cc:149-151` lets "the user input be processed". A ctrl-C in `top` may
  find `_evaluator` already null (`GenericShell.cc:253-258`).
- An expression line enters the Scheme shell through a second `OnLine("scm")`. If
  the server stops in between, the outer call goes on and pushes a `help` request
  without testing `running()` again (`FallThrough`).

On the web port (`WebSession`, `Mcp`):

- `half_ping()` writes a SYN byte to idle HTTP connections, between responses;
  `SocketManager.cc:223-231` says it "should be harmless". It looks at
  `_do_frame_io` before it writes: when the upgrade comes in between, the byte
  follows the 101, outside of any frame. That happens once at most.
- `GET /top`, and a websocket on `/top` whose client leaves, never end:
  `WebServer.cc:138-141` polls until there is nothing more, and the destructor waits
  for the shell (the exceptions of `RequestDelivered` and `SocketDeleted`).
- A URL that names a command which is not a shell leaves `_shell` null, and
  `WebServer.cc:115` uses it (`crashed`).
- Each request of a kept-alive connection makes a new shell and loses the last.
- Header and payload of a frame are two writes of any of three threads; nothing
  keeps two frames apart (`WebSocket.cc:161` "Send only one packet"). What is left
  is `HalvesInOrder`: each thread's halves follow each other.
- An empty result gets no reply at all. The final `\r` of a text frame is
  stripped although `WebSocket.cc:142-145` is "not going to futz" with the data.
- A `Content-Length` that is not a number ends in an uncaught exception, and bytes
  read ahead of an upgrade are lost.
- `get_evaluator()` registers the plugins on every call, so that over a kept-alive
  connection `tools/list` names each tool several times.
- A message that cannot be parsed, or has no `jsonrpc`, gets no reply over TCP.

In the life of modules and server (`Modules`, `ServerNode`):

- A request of a module that has been unloaded since looks its module up, gets
  null and uses it; `builtinreqs` can unload itself. Maps are
  read and written without a lock, also while a module is half loaded: a web
  connection, which needs no mutex to execute its request, may find a command
  registered whose module is not in the map yet, or read the map (as the status
  page does, `WebServer.cc:211`) while it changes. `CrashExplained` says when each
  of these can happen.
- `loadModule()` calls itself with what it found (`ModuleManager.cc:303`). If that
  is a relative name and `.` is in the search path, it finds `./f`, `././f` and so
  on, until the name is too long and an exception, which `serverLoop()` does not
  catch, ends it (`SearchTooDeep`).
- A file that turns out not to be a module stays open. Two modules that register
  the same command or have the same id are not told apart: unloading one takes
  the other's entry.
- `*-start-*` does not wait for a loop that is still tearing down (`overlap`): it
  may use a deleted server or leave one behind with its port, and two loops run.
  The cancellation of `*-stop-*` may then be lost, and it hangs in the join.
- `stop()` may cancel the queue after the loop has reset it; after the next start
  the loop returns at once and `running` stays set (`stale`).
- `shutdown` clears `running`, so that a later `*-stop-*` returns without joining,
  and the thread object is never freed. `CogServer.h:101-104` says that `stop()`
  waits; it returns at once.
- A port in use makes `startServers()` leave out the servers after it, and report
  success.
- `_network_gone` is never reset: after a restart connections are not pinged or
  closed as in the first life (`SocketManager.cc:284`).
- One thread sends the messages here. Two concurrent `*-stop-*` would join twice,
  and a `*-stop-*` from a shell of the same server would wait for itself.

## What is proved

TLAPS checks every proof in the `*Proofs` modules (`tlapm M.tla`). A theorem
holds for every value of the constants that satisfies the module's assumption:
any number of sockets, consoles, modules, messages or requests, any script, any
limit. Each proof has the same shape: an inductive invariant `IInv`, stated
at the head of the proof module as a conjunction of named parts and checked with
TLC on the instance of the run before it was proved; one lemma for each part,
with one step per action or per group of actions that leave it alone; and the
theorems, which follow from `IInv`. Cardinalities go through
`FiniteSetTheorems`.

| Module | Theorem | States |
|---|---|---|
| `ConnectionsProofs` | `TypeCorrect`, `CountExact`, `LimitHolds`, `NoWakeupLost`, `RegistryCorrect` | `TypeOK`, `SlotsAccounted`, `OpenWithinLimit`, `NoLostWakeup`, `RegistryLive` |
| | `AllThreadsJoined` | `AllJoinedAtReturn` |
| `RecvBarrierProofs` | `NodesLiveRight`, `NobodyPassesEarly` | `NodeLifetime`, `BarrierSync`, for fresh UUIDs |
| | `BarrierIsARendezvous` | `ImplementsRendezvous`, for fresh UUIDs: every behaviour is one of `Rendezvous` |
| `GlobalBarrierProofs` | `HeldForBarriers`, `BarrierDrains`, `BarrierHoldsBack` | `HoldInv`, `QueuesDrained`, `HeldBack` |
| `RequestLoopProofs` | `ConsolesOutliveRequests`, `ExecutedInOrder`, `ShellIsEntered` | `RequestsAccounted`, `InOrder`, `ShellEntered` |
| | `LoopIsACommandQueue` | `ImplementsCommandQueue`: the loop and the handler threads together are one executor of one queue |
| `GenericShellProofs` | `FlagNeverBad`, `LinesRunInOrder`, `AnswersLeaveInOrder`, `ExitIsClean` | `EvaluatorFlag`, `EvaluatedInOrder`, `AnswersInOrder`, `CleanExit` |
| | `ShellIsALineShell` | `ImplementsLineShell`: every session, with any of the evaluators, is one of `LineShell` |
| `WebSessionProofs` | `WireIsWellFormed`, `OnLineGetsWhatWasSent` | `WireWellFormed`, `DeliveredExact` |
| `ModulesProofs` | `RegistriesAgree`, `StaleOnlyByUnload` | `RegistriesRight`, for disjoint sets of commands, and `StaleNeedsUnload` |
| `ServerNodeProofs` | `PointersStayRight`, `StopLeavesNothing`, `RunningMeansServed` | `PointersRight`, `NothingLeftAfterStop`, `RunningServes` |

`BarrierSync`, `InOrder`, `EvaluatedInOrder` and `AnswersInOrder` are no
properties of a run: they are what `Rendezvous`, `CommandQueue` and `LineShell`
say of the same variables, and the runs check the refinements. They are stated
and proved for themselves because they are what a client sees.

### Assumptions and hypotheses

Most assumptions only say what kind of value a constant is, and that `None` is
none of the things it stands in for. Three say more:

- `ConnectionsAssumption`: the limit is positive, and the order in which
  `serverLoop()` stops the servers names each of them. The code's does
  (`CogServer.cc`: MCP, web, console); `AllJoinedAtReturn` would be false of a
  server that is not stopped.
- `FreshUuids` is a hypothesis of the three theorems of `RecvBarrierProofs`, not an
  assumption of the model: a UUID names one barrier, and the count that is sent
  is the number of sockets that send it, less than 256. That is what
  `SocketManager.h:109` asks of a client. They are false without it
  (see the deviations above). `MCRecvBarrier` has TLC evaluate it for the
  instance.
- `DisjointCommands` is a hypothesis of `RegistriesAgree`: no two modules register
  the same command. `registerRequest()` and `unregisterRequest()` do not look at
  who registered a name, so that the registries disagree otherwise.
  `MCModules` evaluates it.

### Why the invariants are what they are

None of the properties is inductive alone.

*Connections.* The limit follows from the count: a socket is let through when the
count, itself included, is within the limit, so one must know that the count is at
least the number of open sockets. The count in turn depends on each listener being
at the step that its half-built socket says: a socket in its constructor belongs
to exactly one listener, which is waiting, and one that is constructed but not
registered, or registered without a handler thread, to exactly one in the matching
place. That is `SetUp`. The registry needs it as well, since registering is a step
of the listener and unregistering one of the handler thread. For the end of
`serverLoop()` one needs what it has done so far (`StopProgress`): the listeners
it has joined have ended, for good, so that no socket is made any more when it
begins to wait for sockets.

*RecvBarrier.* `NodeExact` ties the byte-wide counters of a node to the sockets:
`remaining` is the count less those that have arrived, `to_exit` less those that
have left, and the node exists just between the first arrival and the last
departure. Arrivals and departures are sets, so that one more is one element
more; the arithmetic is that of bytes only as long as nothing wraps, which
`FreshUuids` gives. `Waiting` says that whoever waits has a node, and has been
woken just if the node is complete. For the refinement the two ways through the
code have to be told apart: a socket that arrives is the last of its group just if
`remaining` drops to zero (`LastIsLast`), in which case it completes the meeting
and goes in one step, and a sleeper that is let through finds everybody there.

*GlobalBarrier.* A scan looks at one socket at a time, while others push, pop and
mark themselves. `ScanSound` carries what it has seen (what was pushed before the
barrier has been popped) to the end of the scan, since popping is never undone;
`ScanLocked` keeps another barrier from starting a scan in between.
`MarkedInBarrier` identifies a mark with the place of the eval thread that made
it, from which it follows that the flag is down when no barrier is under way.
`LateLine` is what makes `HeldBack` inductive: a line that is past
`block_on_bar()` while a barrier holds was there when it began, and its shell has
been given nothing since. The history variable `exposed` names the barriers whose
flag another one has cleared, which the code cannot tell.

*RequestLoop.* Requests of one console are in order across three places: those
executed, the one that a thread holds, and the queue (`Order`). That only one
thread holds one comes from the mutex (`Exclusive`). The use count is the
cardinality of the set of requests which point to the console (`Held`): in the
making, in the queue, or in the hands of a thread. A console is deleted when that
set is empty, so that what may still use it is a request that a thread has given
up and goes on executing, which only a `shutdown` does (`Exclusive`). A handler that
opens a shell leaves `processRequests()` only with the queue empty, and its
request cannot have been lost on the way (`ShellComes`). The refinement needs one
fact more, `ExecutedLast`: what a thread has executed and not yet deleted is the
last request that anybody executed, since nobody executes anything in between.
That none is executed twice is `CurBetween`: the request about to be executed is
later than all those of its console that were.

*GenericShell.* The order of the lines goes through the same three places.
`Leaving` says who has ended when: the eval loop drains the queue after the
handler has pushed its last line and the polling loop is gone, so that nothing is
left in the queue (`Accounted`) and only one thread takes answers. `Answers` has
the answer that waits for a poll newer than the one being sent, and that one
newer than those sent; for `McpEval` this excepts sessions with an interrupt,
after which it repeats its last answer, as the property does. The refinement adds
what the lines that an interrupt threw away have to do with the others
(`DiscardedReached`: they come before all that are still to be accepted) and that
no answer sent, or in the hand of a poll, is newer than the one the evaluator has
(`Latest`). Most steps of the three
threads are stutters of `LineShell` (`Calm`); one lemma per abstract action covers
the rest. A pop is a `Start` only because the queue is sorted and the evaluator is
idle, and the join of the destructor is a `Close` only because by then the drain
has emptied the queue (`Leaving`).

*WebSession.* The stream between client and handler is what the code takes for
granted, and all of the difficulty: `Stream` says which element may follow which
(`After` a header line the next that the request has, after the empty line the
body, after the body the next request or the first frame), with the end missing
only if the client has closed. `Cursor` says where in that order the handler is,
and that `_content_length` and `_got_websock_header` are those of the request it
is reading and of no earlier one; `Fresh` is that nothing of a request is left
over when the next begins. From it follows what `OnLine()` gets. `Writers` says on
which side of the 101 each of the three writing threads is, from which `Framed`
follows; `Halves` whose frame is begun. `Opened` says of a thread that is about to
write a payload that the last thing it wrote is the header, which makes
`HalvesInOrder` inductive. A SYN byte is late if `half_ping()` read the flag before
the upgrade; when one is on the wire, whoever asks again finds the flag set
(`SynDone`), so that there is no second (`OneLate`).

*Modules.* How far a load or an unload has come says what there is of the module:
its keys (`Working`), the object (`Existing`), the library (`LibrariesOpen`) and
the factories (`FactoriesOwned`, `FactoriesComplete`). Requests carry the number
of unloads of their module when they were made, so that `Sound` can say that one
is stale only if there was another unload since. `CrashExplained` is inductive with
these: a request whose module was never unloaded finds it in the map, or else the
module's load is at one of the steps that it names.

*ServerNode.* Everything is proved under the condition that no start has met a
loop that was still tearing down (`~overlap`), as the properties are stated:
then one loop at most is under way, the last (`Alone`), and between two lives
there is nothing (`Idle`). `Pointed` and `Unpointed` say of each server how it
stands with its pointer, by how far that loop has come.

### Only model-checked

- Everything temporal that needs fairness (`DeadReleased`, `ShutdownReturns`,
  `AllReturn`, `EverythingRuns`, `FireAndForget`, `StopReturns`, `ShellDeleted`,
  `EveryLineRuns`, `RequestDelivered`, `PingAnswered`, `SocketDeleted`,
  `EveryRequestExecuted`; `DestructorReturns` is refuted): liveness is out of the
  prover's reach. The three abstract specifications are safety specifications, so
  that the refinements say nothing about progress either.
- `SplitExact` and `RepliesRight` of `Mcp`. The splitter counts braces through a
  text of any length, and the replies that are due are a `SelectSeq` of what was
  evaluated; what such a recursion computes for every input takes an induction
  over the sequence, which the installed provers cannot do.

## Not modelled

- The request classes without an effect on the server's control (`help`, `stats`,
  `list`, `config`): they print, or store a value.
- What `top` shows, its sort order and its refresh interval; the control of
  `TopShell` and `TopEval` is in `GenericShell`.
- What the MCP tools do: AtomSpace calls, JSON in and out. `unregister_plugin()`
  has no caller.
- Text: pages, prompts, the SHA-1 and base64 of the handshake, the XOR of a frame's
  mask, tokenising and telnet options in a line.
- TCP flow control. A write is taken to complete, so a peer that stops reading
  and blocks `half_ping()` under two locks is not seen.
- `CogServerMain`'s arguments, the bindings, and the attic, which is not built.
- The evaluators and the concurrent queue are libraries outside of this
  repository; they are modelled from their use.

## Plan

Done: the connection core, the barriers, the request loop, the shell, the web
session, the modules and the life of the server, with proofs of every safety
invariant that a run checks of them; three abstract specifications, with proofs
that the code's models implement them; MCP, model-checked. What would come next:

1. An abstract module registry and an abstract server (stopped, running) which
   `Modules` and `ServerNode` implement where nothing overlaps.
2. A disconnection during a barrier: `GenericShell`'s destructor composed with
   `RecvBarrier`.
3. The telnet scan and the tokeniser of a console line against reference
   definitions.
