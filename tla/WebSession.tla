----------------------------- MODULE WebSession -----------------------------
(***************************************************************************)
(* One connection to the web port: the HTTP side of                        *)
(* ServerSocket::handle_connection(), HandshakeLine() and the websocket    *)
(* framing (WebSocket.cc), and WebServer's callbacks.  Three threads write *)
(* to the socket: its handler, the poll thread of the shell it opened, and *)
(* a listener of some server that runs SocketManager::half_ping().         *)
(*                                                                         *)
(* The client is the environment: it sends up to MaxRequests requests out  *)
(* of Requests on one kept-alive connection and, once it has seen the 101, *)
(* up to MaxFrames frames out of Frames; it may close at any time.  A      *)
(* header line, one byte of a body and a frame are one element of the      *)
(* stream.  Header lines that only store text (Host, Sec-WebSocket-Key,    *)
(* connection: keep-alive) are left out; so is the text of the replies.    *)
(* The eval and poll threads of a shell are those of GenericShell: here    *)
(* one line at a time is evaluated and its answer sent.  An evaluation     *)
(* need not end: that of /top never does (TopEval::poll_result()).         *)
(***************************************************************************)
EXTENDS Naturals, Sequences, FiniteSets

CONSTANTS Requests,     \* HTTP requests that the client may send
          MaxRequests,  \* how many of them
          Frames,       \* kinds of websocket frames that the client may send
          MaxFrames,    \* how many of them
          MaxHalfPings  \* how often half_ping() finds this socket idle

\* url: "info" is one that OnConnection() answers itself, "page" one that
\* no command is registered for, "shell" the name of a shell, "command"
\* that of another command.  body: the Content-Length, and the bytes sent.
RequestType ==
  [verb: {"GET", "POST", "PUT"}, url: {"info", "page", "shell", "command"},
   upgrade: BOOLEAN, body: Nat]

\* "bad" is a text or ping frame that get_websocket_data() refuses: it is
\* unmasked, or longer than 2^40 bytes.
FrameKinds == {"text", "ping", "ping0", "pong", "close", "binary", "bad"}

ASSUME WebSessionAssumption ==
  /\ Requests \subseteq RequestType
  /\ Frames \subseteq FrameKinds
  /\ MaxRequests \in Nat /\ MaxFrames \in Nat /\ MaxHalfPings \in Nat

VARIABLES
  sent,        \* requests sent by the client, in order
  frames,      \* frames sent by the client, in order
  net,         \* what the client sent and the handler has not read
  closed,      \* the client has closed its side
  pc,          \* the handler thread
  line,        \* the element it has just read
  first, header, length, upgrade, frameIO, \* _got_first_line, _got_http_header,
               \* _content_length, _got_websock_header, _do_frame_io
  url,         \* _url
  request,     \* WebServer::_request: the url it was created for, or "none"
  shell,       \* number of shells created; _shell is the last, 0 is null
  evalq,       \* lines given to the shell's eval thread, not yet evaluated
  poll,        \* the poll thread: the answer it sends, and the write it is at
  ping,        \* half_ping() in the listener thread
  pings,       \* how often it has run
  delivered,   \* history: what OnLine() was called with
  wire,        \* history: the writes to the socket
  crashed      \* the process has died

envars == <<sent, frames, closed>>
parse == <<first, header, length, upgrade, url>>
shellvars == <<evalq, poll>>
pingvars == <<ping, pings>>
vars == <<envars, net, pc, line, parse, frameIO, request, shell, shellvars,
          pingvars, delivered, wire, crashed>>

\* The elements of the stream: a request is its lines, then its body.
Line(kind, n) == [kind |-> kind, n |-> n]
NoLine == Line("none", 0)

RequestLines(r, n) ==
  <<Line("first", n)>>
    \o (IF r.body > 0 THEN <<Line("length", n)>> ELSE <<>>)
    \o (IF r.upgrade THEN <<Line("upgrade", n)>> ELSE <<>>)
    \o <<Line("empty", n)>>
    \o [i \in 1 .. r.body |-> Line("byte", n)]

\* What is written: a whole HTTP reply (n: the request), the SYN byte or the
\* pong of half_ping(), or the header or the payload of a frame.
Write(kind, n) == [kind |-> kind, n |-> n]
Put(kind, n) == wire' = Append(wire, Write(kind, n))

Idle == [at |-> "idle", n |-> 0]

HandlerPCs == {"read", "line", "connect", "upgrade", "body", "online", "cmddata",
               "pong", "pongdata", "dtor", "gone"}
PingPCs == {"idle", "mode", "pong", "syn", "raw", "synhead", "syndata"}

LineKinds == {"none", "first", "length", "upgrade", "empty", "byte"} \cup FrameKinds
WriteKinds == {"501", "page", "reply", "101", "syn", "pong", "head", "data", "cmdhead",
               "cmddata", "ponghead", "pongdata", "synhead", "syndata"}

TypeOK ==
  /\ sent \in Seq(Requests) /\ Len(sent) <= MaxRequests
  /\ frames \in Seq(Frames) /\ Len(frames) <= MaxFrames
  /\ net \in Seq([kind: LineKinds, n: Nat])
  /\ closed \in BOOLEAN
  /\ pc \in HandlerPCs
  /\ line \in [kind: LineKinds, n: Nat]
  /\ first \in BOOLEAN /\ header \in BOOLEAN /\ upgrade \in BOOLEAN
  /\ frameIO \in BOOLEAN
  /\ length \in Nat
  /\ url \in {"info", "page", "shell", "command"}
  /\ request \in {"none", "shell", "command"}
  /\ shell \in 0 .. MaxRequests
  /\ evalq \in Seq(Nat)
  /\ poll \in [at: {"idle", "head", "data"}, n: Nat]
  /\ ping \in PingPCs
  /\ pings \in 0 .. MaxHalfPings
  /\ delivered \in Seq(Seq([kind: LineKinds, n: Nat]))
  /\ wire \in Seq([kind: WriteKinds, n: Nat])
  /\ crashed \in BOOLEAN

Init ==
  /\ sent = <<>> /\ frames = <<>> /\ net = <<>> /\ closed = FALSE
  /\ pc = "read" /\ line = NoLine
  /\ first = FALSE /\ header = FALSE /\ length = 0 /\ upgrade = FALSE
  /\ frameIO = FALSE
  /\ url = "page" /\ request = "none"
  /\ shell = 0 /\ evalq = <<>> /\ poll = Idle
  /\ ping = "idle" /\ pings = 0
  /\ delivered = <<>> /\ wire = <<>>
  /\ crashed = FALSE

-----------------------------------------------------------------------------
(* The client. *)

ServerFrame == UNCHANGED <<pc, line, parse, frameIO, request, shell, shellvars,
                           pingvars, delivered, wire, crashed>>

\* Nothing may follow a request to upgrade until the 101 has come.
SendRequest ==
  /\ ~closed /\ Len(sent) < MaxRequests
  /\ \A i \in DOMAIN sent : ~sent[i].upgrade
  /\ \E r \in Requests :
       /\ sent' = Append(sent, r)
       /\ net' = net \o RequestLines(r, Len(sent) + 1)
  /\ UNCHANGED <<frames, closed>> /\ ServerFrame

SendFrame ==
  /\ ~closed /\ Len(frames) < MaxFrames
  /\ \E i \in DOMAIN wire : wire[i].kind = "101"
  /\ \E f \in Frames :
       /\ frames' = Append(frames, f)
       /\ net' = Append(net, Line(f, Len(frames) + 1))
  /\ UNCHANGED <<sent, closed>> /\ ServerFrame

\* The client closes, or dies: the end of what it was sending is lost.
Close ==
  /\ ~closed
  /\ closed' = TRUE
  /\ \E k \in 0 .. Len(net) : net' = SubSeq(net, 1, k)
  /\ UNCHANGED <<sent, frames>> /\ ServerFrame

-----------------------------------------------------------------------------
(* The handler thread: handle_connection(). *)

\* get_telnet_line()
ReadLine ==
  /\ pc = "read" /\ ~frameIO /\ net # <<>>
  /\ line' = Head(net) /\ net' = Tail(net)
  /\ pc' = "line"
  /\ UNCHANGED <<envars, parse, frameIO, request, shell, shellvars, pingvars,
                 delivered, wire, crashed>>

\* End of file, or a reset of the connection: the loop is left.
ReadEOF ==
  /\ pc = "read" /\ net = <<>> /\ closed
  /\ pc' = "dtor"
  /\ UNCHANGED <<envars, net, line, parse, frameIO, request, shell, shellvars,
                 pingvars, delivered, wire, crashed>>

LineFrame == UNCHANGED <<envars, net, line, frameIO, request, shell, shellvars,
                         pingvars, delivered, crashed>>

\* HandshakeLine(), the very first line of a request.
FirstLine ==
  /\ pc = "line" /\ ~first
  /\ first' = TRUE
  /\ \/ /\ line.kind = "first" /\ sent[line.n].verb \in {"GET", "POST"}
        /\ url' = sent[line.n].url
        /\ pc' = "read"
        /\ UNCHANGED wire
     \/ /\ ~(line.kind = "first" /\ sent[line.n].verb \in {"GET", "POST"})
        /\ Put("501", line.n)
        /\ pc' = "dtor"
        /\ UNCHANGED url
  /\ UNCHANGED <<header, length, upgrade>> /\ LineFrame

\* HandshakeLine(), the header fields that matter later.
HeaderLine ==
  /\ pc = "line" /\ first /\ line.kind # "empty"
  /\ length' = IF line.kind = "length" THEN sent[line.n].body ELSE length
  /\ upgrade' = (upgrade \/ line.kind = "upgrade")
  /\ pc' = "read"
  /\ UNCHANGED <<first, header, url, wire>> /\ LineFrame

\* HandshakeLine(), the empty line: OnConnection() is next.
EndOfHeader ==
  /\ pc = "line" /\ first /\ line.kind = "empty"
  /\ header' = TRUE
  /\ pc' = "connect"
  /\ UNCHANGED <<first, length, upgrade, url, wire>> /\ LineFrame

\* A whole reply; PageServer::serve() gives the file, or says there is none.
ServePage == Put("page", line.n)

\* WebServer::OnConnection().  A URL that it answers itself, and one that
\* no command is registered for, end the connection (SilentException).
OnConnection ==
  /\ pc = "connect"
  /\ \/ /\ url \in {"info", "page"}
        /\ ServePage
        /\ pc' = "dtor"
        /\ UNCHANGED request
     \/ /\ url \in {"shell", "command"}
        /\ request' = url
        /\ pc' = IF upgrade THEN "upgrade" ELSE "body"
        /\ UNCHANGED wire
  /\ UNCHANGED <<envars, net, line, parse, frameIO, shell, shellvars, pingvars,
                 delivered, crashed>>

\* Mutant: _do_frame_io is set before the reply is sent.
SendUpgrade_Swapped ==
  /\ pc = "upgrade" /\ ~\E i \in DOMAIN wire : wire[i].kind = "101"
  /\ \/ /\ ~frameIO
        /\ frameIO' = TRUE
        /\ UNCHANGED wire
     \/ /\ frameIO
        /\ Put("101", line.n)
        /\ UNCHANGED frameIO
  /\ UNCHANGED <<envars, net, pc, line, parse, request, shell,
                 shellvars, pingvars, delivered, crashed>>

\* HandshakeLine(): the reply to the upgrade, then _do_frame_io is set.
\* handle_connection() goes on to OnLine() with the empty line.
SendUpgrade ==
  /\ pc = "upgrade" /\ ~\E i \in DOMAIN wire : wire[i].kind = "101"
  /\ Put("101", line.n)
  /\ UNCHANGED <<envars, net, pc, line, parse, frameIO, request, shell,
                 shellvars, pingvars, delivered, crashed>>

StartFrames ==
  /\ pc = "upgrade" /\ \E i \in DOMAIN wire : wire[i].kind = "101"
  /\ frameIO' = TRUE
  /\ delivered' = Append(delivered, <<line>>)
  /\ pc' = "online"
  /\ UNCHANGED <<envars, net, line, parse, request, shell, shellvars, pingvars,
                 wire, crashed>>

\* Mutant: the body is taken from what has been read so far.
ReadBody_NoWait ==
  /\ pc = "body"
  /\ LET n == IF Len(net) < length THEN Len(net) ELSE length
     IN  /\ delivered' = Append(delivered, SubSeq(net, 1, n))
         /\ net' = SubSeq(net, n + 1, Len(net))
  /\ pc' = "online"
  /\ UNCHANGED <<envars, line, parse, frameIO, request, shell, shellvars,
                 pingvars, wire, crashed>>

\* get_http_body() waits for _content_length bytes.
ReadBody ==
  /\ pc = "body" /\ Len(net) >= length
  /\ delivered' = Append(delivered, SubSeq(net, 1, length))
  /\ net' = SubSeq(net, length + 1, Len(net))
  /\ pc' = "online"
  /\ UNCHANGED <<envars, line, parse, frameIO, request, shell, shellvars,
                 pingvars, wire, crashed>>

\* Mutant: an end of file inside the body is logged and the read retried.
BodyEOF_Retry ==
  /\ pc = "body" /\ Len(net) < length /\ closed
  /\ net' = <<>>
  /\ UNCHANGED <<envars, pc, line, parse, frameIO, request, shell, shellvars,
                 pingvars, delivered, wire, crashed>>

\* The connection ends inside the body: the exception ends the loop.
BodyEOF ==
  /\ pc = "body" /\ Len(net) < length /\ closed
  /\ net' = <<>>
  /\ pc' = "dtor"
  /\ UNCHANGED <<envars, line, parse, frameIO, request, shell, shellvars,
                 pingvars, delivered, wire, crashed>>

\* WebServer::OnLine(), while _request is set: executing it gives the
\* connection its shell (SetShell() drops an earlier one).  A command that
\* opens no shell answers, and _shell may then be null when it is used.
\* The request is executed on the handler thread and not queued.
ExecuteRequest ==
  /\ pc = "online" /\ request # "none"
  /\ \/ /\ request = "shell"
        /\ shell' = shell + 1
        /\ UNCHANGED <<pc, wire, crashed>>
     \/ /\ request = "command" /\ ~frameIO
        /\ Put("reply", line.n)
        /\ crashed' = (shell = 0)
        /\ UNCHANGED <<pc, shell>>
     \/ /\ request = "command" /\ frameIO
        /\ Put("cmdhead", line.n)
        /\ pc' = "cmddata"
        /\ UNCHANGED <<shell, crashed>>
  /\ request' = "none"
  /\ UNCHANGED <<envars, net, line, parse, frameIO, shellvars, pingvars, delivered>>

\* The payload of the command's answer.
CommandData ==
  /\ pc = "cmddata"
  /\ Put("cmddata", line.n)
  /\ pc' = "online"
  /\ crashed' = (shell = 0)
  /\ UNCHANGED <<envars, net, line, parse, frameIO, request, shell, shellvars,
                 pingvars, delivered>>

\* WebServer::OnLine() of a websocket: eval() queues the line for the shell.
EvalLine ==
  /\ pc = "online" /\ request = "none" /\ upgrade
  /\ evalq' = Append(evalq, Len(delivered))
  /\ pc' = "read"
  /\ UNCHANGED <<envars, net, line, parse, frameIO, request, shell, poll,
                 pingvars, delivered, wire, crashed>>

\* Mutant: _content_length is not reset for the next request.
EvalBody_KeepLength ==
  /\ pc = "online" /\ request = "none" /\ ~upgrade
  /\ \/ Put("reply", line.n)
     \/ UNCHANGED wire
  /\ header' = FALSE /\ first' = FALSE
  /\ pc' = "read"
  /\ UNCHANGED <<envars, net, line, length, upgrade, url, frameIO, request,
                 shell, shellvars, pingvars, delivered, crashed>>

\* WebServer::OnLine() of plain HTTP: the handler thread evaluates the line
\* and polls until a result is empty, if ever.  No result at all is not sent.
\* Then handle_connection() resets its flags for the next request.
EvalBody ==
  /\ pc = "online" /\ request = "none" /\ ~upgrade
  /\ \/ Put("reply", line.n)
     \/ UNCHANGED wire
  /\ header' = FALSE /\ first' = FALSE /\ length' = 0
  /\ pc' = "read"
  /\ UNCHANGED <<envars, net, line, upgrade, url, frameIO, request, shell,
                 shellvars, pingvars, delivered, crashed>>

-----------------------------------------------------------------------------
(* The handler thread with websocket frames: get_websocket_line(). *)

FrameFrame == UNCHANGED <<envars, parse, frameIO, request, shell, shellvars,
                          pingvars, crashed>>

\* Mutant: a ping is skipped like a pong.
ReadFrame_SkipPing ==
  /\ pc = "read" /\ frameIO /\ net # <<>>
  /\ line' = Head(net) /\ net' = Tail(net)
  /\ pc' = CASE Head(net).kind = "text" -> "online"
             [] Head(net).kind \in {"ping", "ping0", "pong"} -> "read"
             [] OTHER -> "dtor"
  /\ delivered' = IF Head(net).kind = "text" THEN Append(delivered, <<Head(net)>>)
                                             ELSE delivered
  /\ UNCHANGED wire /\ FrameFrame

\* A close frame, one that is not text, and one that is refused end the
\* connection; a pong is skipped.
ReadFrame ==
  /\ pc = "read" /\ frameIO /\ net # <<>>
  /\ line' = Head(net) /\ net' = Tail(net)
  /\ pc' = CASE Head(net).kind = "text" -> "online"
             [] Head(net).kind \in {"ping", "ping0"} -> "pong"
             [] Head(net).kind = "pong" -> "read"
             [] OTHER -> "dtor"
  /\ delivered' = IF Head(net).kind = "text" THEN Append(delivered, <<Head(net)>>)
                                             ELSE delivered
  /\ UNCHANGED wire /\ FrameFrame

\* A ping is answered by a pong: its header, then the copied data, if any.
PongHeader ==
  /\ pc = "pong"
  /\ Put("ponghead", line.n)
  /\ pc' = IF line.kind = "ping" THEN "pongdata" ELSE "read"
  /\ UNCHANGED <<net, line, delivered>> /\ FrameFrame

PongData ==
  /\ pc = "pongdata"
  /\ Put("pongdata", line.n)
  /\ pc' = "read"
  /\ UNCHANGED <<net, line, delivered>> /\ FrameFrame

-----------------------------------------------------------------------------
(* The shell of a websocket: its eval and poll threads (GenericShell). *)

\* The evaluation of a line ends, if ever: its answer goes to
\* send_websocket(); an empty one is not sent.
Evaluate ==
  /\ evalq # <<>> /\ poll = Idle
  /\ \/ poll' = [at |-> "head", n |-> Head(evalq)]
     \/ poll' = poll
  /\ evalq' = Tail(evalq)
  /\ UNCHANGED <<envars, net, pc, line, parse, frameIO, request, shell,
                 pingvars, delivered, wire, crashed>>

PollFrame == UNCHANGED <<envars, net, pc, line, parse, frameIO, request, shell,
                         evalq, pingvars, delivered, crashed>>

\* send_websocket(): the header, with the length of the payload.
SendHead ==
  /\ poll.at = "head"
  /\ Put("head", poll.n)
  /\ poll' = [poll EXCEPT !.at = "data"]
  /\ PollFrame

\* send_websocket(): the payload.
SendData ==
  /\ poll.at = "data"
  /\ Put("data", poll.n)
  /\ poll' = Idle
  /\ PollFrame

-----------------------------------------------------------------------------
(* half_ping() in the thread of a listener, _sock_lock held throughout. *)

PingFrame == UNCHANGED <<envars, net, pc, line, parse, frameIO, request, shell,
                         shellvars, delivered, crashed>>

\* The socket waits for input (IWAIT) and has been idle for ten seconds.
HalfPing ==
  /\ ping = "idle" /\ pings < MaxHalfPings
  /\ pc \in {"read", "pong", "pongdata"}
  /\ ping' = "mode" /\ pings' = pings + 1
  /\ UNCHANGED wire /\ PingFrame

\* half_ping() reads _do_frame_io.
HalfPingMode ==
  /\ ping = "mode"
  /\ ping' = IF frameIO THEN "pong" ELSE "syn"
  /\ UNCHANGED <<pings, wire>> /\ PingFrame

\* send_websocket_pong(): a frame without a payload.
HalfPingPong ==
  /\ ping = "pong"
  /\ Put("pong", 0)
  /\ ping' = "idle"
  /\ UNCHANGED pings /\ PingFrame

\* Send() reads _do_frame_io again, ...
HalfPingSyn ==
  /\ ping = "syn"
  /\ ping' = IF frameIO THEN "synhead" ELSE "raw"
  /\ UNCHANGED <<pings, wire>> /\ PingFrame

\* ... writes the byte as it is, ...
HalfPingRaw ==
  /\ ping = "raw"
  /\ Put("syn", 0)
  /\ ping' = "idle"
  /\ UNCHANGED pings /\ PingFrame

\* ... or makes a frame of it.
HalfPingSynHead ==
  /\ ping = "synhead"
  /\ Put("synhead", 0)
  /\ ping' = "syndata"
  /\ UNCHANGED pings /\ PingFrame

HalfPingSynData ==
  /\ ping = "syndata"
  /\ Put("syndata", 0)
  /\ ping' = "idle"
  /\ UNCHANGED pings /\ PingFrame

-----------------------------------------------------------------------------
\* delete this: ~ConsoleSocket() deletes the shell, which waits for its
\* threads, for ever if an evaluation never ends; ~ServerSocket() takes
\* _sock_lock to leave the registry.
Delete ==
  /\ pc = "dtor"
  /\ evalq = <<>> /\ poll = Idle
  /\ ping = "idle"
  /\ pc' = "gone"
  /\ UNCHANGED <<envars, net, line, parse, frameIO, request, shell, shellvars,
                 pingvars, delivered, wire, crashed>>

\* What the handler does on its own, and while it evaluates.
HandlerSteps ==
  \/ ReadLine \/ ReadEOF \/ FirstLine \/ HeaderLine \/ EndOfHeader
  \/ OnConnection \/ SendUpgrade \/ StartFrames \/ ReadBody \/ BodyEOF
  \/ ExecuteRequest \/ CommandData \/ EvalLine \/ ReadFrame \/ PongHeader
  \/ PongData \/ Delete

Handler == HandlerSteps \/ EvalBody

ShellSends == SendHead \/ SendData
ShellThreads == Evaluate \/ ShellSends

HalfPingSteps ==
  \/ HalfPingMode \/ HalfPingPong \/ HalfPingSyn \/ HalfPingRaw
  \/ HalfPingSynHead \/ HalfPingSynData
Listener == HalfPing \/ HalfPingSteps

Client == SendRequest \/ SendFrame \/ Close

Next == ~crashed /\ (Client \/ Handler \/ ShellThreads \/ Listener)

\* Every thread runs on; evaluations (EvalBody, Evaluate) need not end.
Fairness ==
  /\ WF_vars(~crashed /\ HandlerSteps)
  /\ WF_vars(~crashed /\ ShellSends)
  /\ WF_vars(~crashed /\ HalfPingSteps)

Spec == Init /\ [][Next]_vars /\ Fairness

-----------------------------------------------------------------------------
(* Properties *)

\* What OnLine() should be called with: the body of each request, nothing
\* for the request to upgrade but its empty line, then every text frame.
Body(i) == IF sent[i].upgrade THEN <<Line("empty", i)>>
           ELSE [j \in 1 .. sent[i].body |-> Line("byte", i)]
Text(i) == <<Line("text", i)>>
TextsTo(i) == Cardinality({j \in 1 .. i : frames[j] = "text"})

\* The k-th call is for the k-th request or, when there are no more of them,
\* for the text frame that so many others precede.
Expected(k, lines) ==
  IF k <= Len(sent) THEN lines = Body(k)
  ELSE \E i \in DOMAIN frames : /\ frames[i] = "text" /\ lines = Text(i)
                                /\ Len(sent) + TextsTo(i) = k

\* OnLine() gets exactly the bodies and the text frames that the client sent,
\* each once, whole and in order: what handle_connection() resets between
\* two requests of a kept-alive connection (ServerSocket.cc:369-372), and
\* where it goes over to frames, never lets one request run into the next.
DeliveredExact == \A k \in DOMAIN delivered : Expected(k, delivered[k])

\* The second writes of the frames that are two writes, and the first.
Payloads == {"data", "cmddata", "pongdata", "syndata"}
HeaderOf(d) == CASE d = "data" -> "head" [] d = "cmddata" -> "cmdhead"
                 [] d = "pongdata" -> "ponghead" [] d = "syndata" -> "synhead"
IsFrame(w) == w.kind \in {"pong", "head", "data", "cmdhead", "cmddata", "ponghead",
                          "pongdata", "synhead", "syndata"}

\* Who writes.
Thread(kind) == IF kind \in {"head", "data"} THEN "poll"
                ELSE IF kind \in {"syn", "pong", "synhead", "syndata"} THEN "listener"
                ELSE "handler"

Upgraded(i) == \E j \in 1 .. i - 1 : wire[j].kind = "101"

\* No thread writes a frame before the 101 that announces frames, and after
\* it nobody writes anything else, but for a SYN byte outside of any frame:
\* HandshakeLine() sends the 101 before it sets _do_frame_io, and half_ping()
\* and Send() test that with no lock.  It happens at most once: half_ping()
\* holds _sock_lock, and none that finds the socket in IWAIT after the 101
\* finds the flag unset.
FramesAfterUpgrade ==
  /\ \A i \in DOMAIN wire :
       /\ IsFrame(wire[i]) => Upgraded(i)
       /\ Upgraded(i) => IsFrame(wire[i]) \/ wire[i].kind = "syn"
  /\ \A i, j \in DOMAIN wire :
       wire[i].kind = "syn" /\ wire[j].kind = "syn" /\ Upgraded(i) /\ Upgraded(j) => i = j

\* A payload comes after its own header, and only writes of other threads come
\* between the two.  These may: Send() has no lock, so that the "only one
\* packet" of send_websocket() can have a part of another in its middle.
HalvesInOrder ==
  \A i \in DOMAIN wire : wire[i].kind \in Payloads =>
    \E j \in 1 .. i - 1 :
      /\ wire[j] = Write(HeaderOf(wire[i].kind), wire[i].n)
      /\ \A k \in j + 1 .. i - 1 : Thread(wire[k].kind) # Thread(wire[i].kind)

Count(kind) == Cardinality({i \in DOMAIN wire : wire[i].kind = kind})

\* When the socket is deleted no thread is half way through a frame:
\* ~ConsoleSocket() waits for the shell's poll thread, and rem_sock() for
\* half_ping().
WholeAtClose ==
  pc = "gone" => /\ Count("head") = Count("data")
                 /\ Count("synhead") = Count("syndata")

\* What three threads write without a lock: HTTP and SYN bytes up to the 101,
\* and after it frames and at most one stray SYN byte, where the halves of each
\* thread's frames come in order, possibly with those of another thread between
\* them, and none is missing at the end (WebSocket.cc:158-192,
\* SocketManager.cc:235-257).
WireWellFormed == TypeOK /\ FramesAfterUpgrade /\ HalvesInOrder /\ WholeAtClose

\* The handler has left its loop; the socket is deleted.
Left == pc \in {"dtor", "gone"} \/ crashed
Ended == pc = "gone" \/ crashed

\* The handler thread evaluates the body of a request.
Evaluating == pc = "online" /\ request = "none" /\ ~upgrade

\* Every request is handed to OnLine(), unless the connection ends first or an
\* earlier evaluation never does: no state left by one request of a kept-alive
\* connection makes the handler wait for bytes that the next does not have.
RequestDelivered ==
  \/ <>[]Evaluating
  \/ \A n \in 1 .. MaxRequests : n <= Len(sent) ~> (Left \/ n <= Len(delivered))

\* Every ping of the client is answered, unless the connection ends first:
\* get_websocket_line() sends the pong before it waits for the next frame,
\* whatever the shell is evaluating.
PingAnswered ==
  \A k \in 1 .. MaxFrames :
    (k <= Len(frames) /\ frames[k] \in {"ping", "ping0"})
      ~> (Left \/ \E i \in DOMAIN wire : wire[i] = Write("ponghead", k))

\* When the client has closed, the handler thread finds out wherever it is
\* (in a line, in a body, between frames), and the socket is deleted, unless an
\* evaluation never ends: on the handler thread (GET /top) or in the shell that
\* the destructor waits for, which ServerSocket.cc:438-449 calls normal.
SocketDeleted == <>[](Evaluating \/ evalq # <<>>) \/ (closed ~> Ended)
=============================================================================
