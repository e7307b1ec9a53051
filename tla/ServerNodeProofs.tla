-------------------------- MODULE ServerNodeProofs --------------------------
(***************************************************************************)
(* Starting and stopping the CogServer, for any number of messages and     *)
(* commands: as long as no *-start-* or *-run-* meets a serverLoop() that  *)
(* is tearing down, no freed server is used, none keeps its port, a        *)
(* *-stop-* leaves nothing behind and a running server is served.          *)
(***************************************************************************)
EXTENDS ServerNode, TLAPS

\* The serverLoop() calls are numbered in the order they are made, and there
\* is one left for every message that will make one.
Numbered ==
  \E n \in 0 .. MaxCalls :
    /\ \A l \in Loops : lpc[l] # "none" <=> l <= n
    /\ n <= calls /\ (cpc \in {"enable", "launch"} => n < calls)

\* A loop that is not going over the servers starts with the first.
AtFirst == \A l \in Loops : lpc[l] \notin {"stop", "join"} => li[l] = 1

\* running() is off from stop() on, until the next start.
StoppedFlag ==
  /\ cpc \in {"cancel", "join"} => ~running
  /\ stopped => cpc = "idle" /\ ~running

\* Where serverLoop() finds a server.
Turn(k) == CASE k = "mcp" -> 1 [] k = "web" -> 2 [] k = "console" -> 3

\* The loop is past stop_listening(), or past the delete, of server k.
PastStop(l, k) == \/ lpc[l] \in {"drain", "draincancel", "join", "null"}
                  \/ lpc[l] = "stop" /\ Turn(k) < li[l]

PastDelete(l, k) == \/ lpc[l] = "null"
                    \/ lpc[l] = "join" /\ Turn(k) < li[l]

\* Only the last serverLoop() is under way, and *-run-* or _main_loop waits
\* for it.
Alone ==
  \A l \in Active : /\ \A k \in Loops : k > l => lpc[k] = "none"
                    /\ cpc \notin {"enable", "launch"}
                    /\ cpc = "running" \/ l = mainLoop

\* Between two lives of the server there is nothing.
Idle == Active = {} /\ cpc \notin {"enable", "launch"} =>
          queue = <<>> /\ \A k \in Kinds : ptr[k] = 0

\* A pointer leads to a server that is freed just between the delete and the
\* end of the loop, and that does not listen once the loop has stopped it.
Pointed ==
  \A k \in Kinds : ptr[k] # 0 =>
    /\ inst[k][ptr[k]] = "freed" <=> \E l \in Active : PastDelete(l, k)
    /\ inst[k][ptr[k]] = "listening" => \A l \in Active : ~PastStop(l, k)

\* What no pointer leads to is freed.
Unpointed ==
  \A k \in Kinds : \A i \in DOMAIN inst[k] : inst[k][i] # "freed" => ptr[k] = i

\* Commands come from consoles, so that none comes when there are no more: the
\* queue is empty when a loop has deleted their server or, once drained, when
\* it never had one.
Drained ==
  /\ \A l \in Active : lpc[l] = "null" \/ (lpc[l] = "join" /\ ptr["console"] = 0)
                        => queue = <<>>
  /\ ptr["console"] = 0 \/ (\E l \in Active : lpc[l] = "null")
       => \A r \in Commands : pending[r] = 0

\* A loop cancels the queue only after it has turned running() off, so that a
\* server that was started with the queue open keeps it open.
Canceling ==
  /\ \A l \in Active : lpc[l] \in {"cancel", "draincancel"} => ~running
  /\ running /\ ~stale => ~canceled

Orderly ==
  /\ Alone
  /\ Idle
  /\ Pointed
  /\ Unpointed
  /\ Drained
  /\ Canceling
  /\ crash # "freed"

IInv ==
  /\ TypeOK
  /\ Numbered
  /\ AtFirst
  /\ StoppedFlag
  /\ ~overlap => Orderly
  /\ NothingLeftAfterStop
  /\ RunningServes

-----------------------------------------------------------------------------
(* What the proofs need to know of sequences and of the three servers. *)

\* The orders in which the servers are enabled and stopped.
LEMMA OrderFacts ==
  /\ Len(EnableOrder) = 3 /\ Len(StopOrder) = 3
  /\ \A i \in 1 .. 3 : EnableOrder[i] \in Kinds
  /\ \A i \in 1 .. 3 : StopOrder[i] \in Kinds /\ Turn(StopOrder[i]) = i
  /\ \A k \in Kinds : Turn(k) \in 1 .. 3 /\ StopOrder[Turn(k)] = k
<1>1. Len(EnableOrder) = 3 /\ Len(StopOrder) = 3
  BY DEF EnableOrder, StopOrder
<1>2. /\ EnableOrder[1] = "console" /\ EnableOrder[2] = "web" /\ EnableOrder[3] = "mcp"
      /\ StopOrder[1] = "mcp" /\ StopOrder[2] = "web" /\ StopOrder[3] = "console"
  BY DEF EnableOrder, StopOrder
<1>3. Turn("mcp") = 1 /\ Turn("web") = 2 /\ Turn("console") = 3
  BY DEF Turn
<1> HIDE DEF EnableOrder, StopOrder, Turn
<1>4. \A i \in 1 .. 3 : i = 1 \/ i = 2 \/ i = 3
  OBVIOUS
<1> QED
  BY <1>1, <1>2, <1>3, <1>4 DEF Kinds

\* Tail() of a sequence is one.
LEMMA TailFacts ==
  ASSUME NEW S, NEW q \in Seq(S), q # <<>>
  PROVE  Tail(q) \in Seq(S)
  OBVIOUS

\* Append() puts its element last and moves nothing else.
LEMMA AppendFacts ==
  ASSUME NEW S, NEW q \in Seq(S), NEW e \in S
  PROVE  /\ Append(q, e) \in Seq(S)
         /\ Len(q) \in Nat /\ Len(Append(q, e)) = Len(q) + 1
         /\ DOMAIN q = 1 .. Len(q) /\ DOMAIN Append(q, e) = 1 .. Len(q) + 1
         /\ \A i \in 1 .. Len(q) : Append(q, e)[i] = q[i]
         /\ Append(q, e)[Len(q) + 1] = e
  OBVIOUS

\* One element of a sequence is replaced.
LEMMA ExceptFacts ==
  ASSUME NEW S, NEW q \in Seq(S), NEW e \in S, NEW i \in 1 .. Len(q)
  PROVE  /\ [q EXCEPT ![i] = e] \in Seq(S)
         /\ Len([q EXCEPT ![i] = e]) = Len(q) /\ DOMAIN [q EXCEPT ![i] = e] = DOMAIN q
         /\ DOMAIN q = 1 .. Len(q)
         /\ \A j \in 1 .. Len(q) : [q EXCEPT ![i] = e][j] = IF j = i THEN e ELSE q[j]
  OBVIOUS

\* The invariant holds before the first message.
LEMMA InitInv == Init => IInv
<1> SUFFICES ASSUME Init PROVE IInv
  OBVIOUS
<1> USE DEF Init
<1>1. Active = {}
  BY DEF Active
<1>2. \A k \in Kinds : inst[k] = <<>> /\ ptr[k] = 0 /\ Len(inst[k]) = 0
  OBVIOUS
<1>3. TypeOK
  <2>1. running \in BOOLEAN /\ canceled \in BOOLEAN /\ stopped \in BOOLEAN /\ stale \in BOOLEAN
          /\ overlap \in BOOLEAN
    BY Zenon
  <2>2. ports \subseteq Kinds
    BY DEF Kinds
  <2>3. inst \in [Kinds -> Seq({"listening", "stopped", "freed"})]
    OBVIOUS
  <2>4. ptr \in [Kinds -> Nat] /\ \A k \in Kinds : ptr[k] \in 0 .. Len(inst[k])
    BY <1>2
  <2>5. /\ mainLoop \in 0 .. MaxCalls /\ calls \in 0 .. MaxCalls /\ sent \in 0 .. MaxRequests
        /\ li \in [Loops -> 1 .. Len(StopOrder)] /\ ci \in 1 .. Len(EnableOrder)
    BY ServerNodeAssumption, OrderFacts
  <2> QED
    BY <2>1, <2>2, <2>3, <2>4, <2>5 DEF TypeOK
<1>4. Numbered
  BY ServerNodeAssumption DEF Numbered, Loops
<1>5. AtFirst /\ StoppedFlag /\ NothingLeftAfterStop /\ RunningServes
  BY DEF AtFirst, StoppedFlag, NothingLeftAfterStop, RunningServes
<1>6. Orderly
  <2>1. Alone /\ Idle /\ Drained /\ Canceling
    BY <1>1, <1>2 DEF Alone, Idle, Drained, Canceling
  <2>2. Pointed /\ Unpointed
    BY <1>2 DEF Pointed, Unpointed
  <2> QED
    BY <2>1, <2>2 DEF Orderly
<1> QED
  BY <1>3, <1>4, <1>5, <1>6 DEF IInv

-----------------------------------------------------------------------------
(* The steps: one lemma per part of IInv. *)

Starts == Start("start") \/ Start("run")
Messages == Starts \/ Stop \/ Enable \/ Launch \/ RunReturns \/ StopRunning \/ StopCancel \/ Join
Gives == \E r \in Commands : GiveCommand(r) \/ PushCommand(r)

Step == Messages \/ (\E l \in Loops : LoopStep(l)) \/ Gives

\* Launch makes the loop with the next number.
LEMMA LaunchFacts ==
  ASSUME IInv, Launch
  PROVE  \E n \in Loops :
           /\ \A l \in Loops : lpc[l] # "none" <=> l < n
           /\ n <= calls
           /\ lpc' = [lpc EXCEPT ![n] = "while"]
           /\ \/ mainLoop' = n /\ cpc' = "idle"
              \/ mainLoop' = mainLoop /\ cpc' = "running"
<1>1. PICK n \in 0 .. MaxCalls :
        (\A l \in Loops : lpc[l] # "none" <=> l <= n) /\ n < calls
  BY DEF IInv, Numbered, Launch
<1>2. n + 1 \in Loops /\ n + 1 <= calls /\ calls <= MaxCalls
  BY <1>1, ServerNodeAssumption DEF IInv, TypeOK, Loops
<1>3. ASSUME NEW m \in Loops
      PROVE  (lpc[m] = "none" /\ \A k \in 1 .. m - 1 : lpc[k] # "none") <=> m = n + 1
  <2>1. m \in Nat /\ n \in Nat /\ \A k \in 1 .. m - 1 : k \in Loops
    BY ServerNodeAssumption DEF Loops
  <2>2. m = n + 1 => lpc[m] = "none" /\ \A k \in 1 .. m - 1 : lpc[k] # "none"
    BY <1>1, <2>1
  <2>3. m <= n => lpc[m] # "none"
    BY <1>1, <2>1
  <2>4. m > n + 1 => n + 1 \in 1 .. m - 1 /\ lpc[n + 1] = "none"
    BY <1>1, <1>2, <2>1
  <2> QED
    BY <2>1, <2>2, <2>3, <2>4
<1>4. (CHOOSE m \in Loops : lpc[m] = "none" /\ \A k \in 1 .. m - 1 : lpc[k] # "none") = n + 1
  BY <1>2, <1>3
<1>5. /\ lpc' = [lpc EXCEPT ![n + 1] = "while"]
      /\ \/ mainLoop' = n + 1 /\ cpc' = "idle"
         \/ mainLoop' = mainLoop /\ cpc' = "running"
  BY <1>4 DEF Launch
<1>6. \A l \in Loops : lpc[l] # "none" <=> l < n + 1
  BY <1>1, ServerNodeAssumption DEF Loops
<1> QED
  BY <1>2, <1>5, <1>6

\* TypeOK in three parts, as the provers want them.
Flags ==
  /\ running \in BOOLEAN /\ canceled \in BOOLEAN /\ stopped \in BOOLEAN /\ stale \in BOOLEAN
  /\ overlap \in BOOLEAN /\ crash \in {"no", "freed", "cancel"}

Servers ==
  /\ ports \subseteq Kinds
  /\ inst \in [Kinds -> Seq({"listening", "stopped", "freed"})]
  /\ ptr \in [Kinds -> Nat] /\ \A k \in Kinds : ptr[k] \in 0 .. Len(inst[k])

Places ==
  /\ queue \in Seq(Commands) /\ pending \in [Commands -> Nat] /\ mainLoop \in 0 .. MaxCalls
  /\ lpc \in [Loops -> {"none", "while", "barrier", "size", "cancel", "reset", "stop",
                        "drain", "draincancel", "join", "null", "done"}]
  /\ li \in [Loops -> 1 .. 3] /\ ci \in 1 .. 3
  /\ cpc \in {"idle", "enable", "launch", "running", "stop", "cancel", "join"}
  /\ call \in {"start", "stop", "run"}
  /\ calls \in 0 .. MaxCalls /\ sent \in 0 .. MaxRequests

\* The type invariant in three parts.
LEMMA TypeParts == TypeOK <=> Flags /\ Servers /\ Places
  BY OrderFacts DEF TypeOK, Flags, Servers, Places

\* What Touch() does to the servers.
LEMMA TouchFacts ==
  ASSUME Servers, NEW k \in Kinds, NEW to \in {"listening", "stopped", "freed"}, Touch(k, to)
  PROVE  /\ inst' \in [Kinds -> Seq({"listening", "stopped", "freed"})]
         /\ \A x \in Kinds : /\ Len(inst'[x]) = Len(inst[x]) /\ DOMAIN inst'[x] = DOMAIN inst[x]
                             /\ x # k => inst'[x] = inst[x]
         /\ \/ ptr[k] = 0 /\ inst' = inst /\ crash' = crash
            \/ ptr[k] # 0 /\ inst[k][ptr[k]] = "freed" /\ inst' = inst /\ crash' = "freed"
            \/ /\ ptr[k] # 0 /\ inst[k][ptr[k]] # "freed" /\ crash' = crash
               /\ inst'[k][ptr[k]] = to
               /\ \A i \in DOMAIN inst[k] : i # ptr[k] => inst'[k][i] = inst[k][i]
<1>1. CASE ptr[k] = 0 \/ inst[k][ptr[k]] = "freed"
  BY <1>1 DEF Touch, Servers
<1>2. CASE ptr[k] # 0 /\ inst[k][ptr[k]] # "freed"
  <2>1. inst' = [inst EXCEPT ![k][ptr[k]] = to] /\ crash' = crash
    BY <1>2 DEF Touch
  <2>2. PICK q : q = [inst[k] EXCEPT ![ptr[k]] = to]
    OBVIOUS
  <2>3. inst' = [inst EXCEPT ![k] = q]
    BY <2>1, <2>2
  <2>4. inst[k] \in Seq({"listening", "stopped", "freed"}) /\ ptr[k] \in 1 .. Len(inst[k])
    BY <1>2 DEF Servers
  <2>5. /\ q \in Seq({"listening", "stopped", "freed"})
        /\ Len(q) = Len(inst[k]) /\ DOMAIN q = DOMAIN inst[k]
        /\ DOMAIN inst[k] = 1 .. Len(inst[k])
        /\ \A j \in 1 .. Len(inst[k]) : q[j] = IF j = ptr[k] THEN to ELSE inst[k][j]
    BY <2>2, <2>4, ExceptFacts
  <2>6. inst'[k] = q /\ \A x \in Kinds : x # k => inst'[x] = inst[x]
    BY <2>3 DEF Servers
  <2>7. inst' \in [Kinds -> Seq({"listening", "stopped", "freed"})]
    BY <2>3, <2>5 DEF Servers
  <2> QED
    BY <1>2, <2>1, <2>4, <2>5, <2>6, <2>7
<1> QED
  BY <1>1, <1>2

\* enable*Server() leaves the servers alone or adds one.
LEMMA EnableFacts ==
  ASSUME TypeOK, Enable
  PROVE  /\ cpc = "enable" /\ cpc' \in {"enable", "launch"} /\ ci' \in 1 .. 3
         /\ UNCHANGED <<running, canceled, queue, ports, lpc, li, call, calls, mainLoop, sent,
                        pending, stopped, stale, overlap, crash>>
         /\ \/ UNCHANGED <<ptr, inst>>
            \/ \E k \in Kinds :
                 /\ ptr[k] = 0 /\ \A i \in DOMAIN inst[k] : inst[k][i] = "freed"
                 /\ inst' = [inst EXCEPT ![k] = Append(inst[k], "listening")]
                 /\ ptr' = [ptr EXCEPT ![k] = Len(inst[k]) + 1]
<1>1. PICK k \in Kinds : k = EnableOrder[ci]
  BY OrderFacts DEF TypeOK
<1>2. ci \in 1 .. 3 /\ Len(EnableOrder) = 3
  BY OrderFacts DEF TypeOK
<1>3. cpc = "enable" /\ cpc' \in {"enable", "launch"} /\ ci' \in 1 .. 3
  BY <1>2 DEF Enable
<1>4. \/ UNCHANGED <<ptr, inst>>
      \/ /\ ptr[k] = 0 /\ \A i \in DOMAIN inst[k] : inst[k][i] = "freed"
         /\ inst' = [inst EXCEPT ![k] = Append(inst[k], "listening")]
         /\ ptr' = [ptr EXCEPT ![k] = Len(inst[k]) + 1]
  BY <1>1 DEF Enable, PortFree
<1> QED
  BY <1>3, <1>4 DEF Enable, lvars, hist

\* Type correctness: flags and counters.
LEMMA FlagsStep ==
  ASSUME IInv, crash = "no", Step
  PROVE  Flags'
<1>1. ASSUME Messages PROVE Flags'
  <2>1. CASE Starts
    BY <2>1, TypeParts, Zenon DEF IInv, Flags, Starts, Start, servers, lvars
  <2>2. CASE Stop
    BY <2>2, TypeParts, Zenon DEF IInv, Flags, Stop, servers, lvars
  <2>3. CASE Enable
    BY <2>3, EnableFacts, TypeParts DEF IInv, Flags
  <2>4. CASE Launch
    BY <2>4, TypeParts, Zenon DEF IInv, Flags, Launch, servers, hist
  <2>5. CASE RunReturns
    BY <2>5, TypeParts, Zenon DEF IInv, Flags, RunReturns, servers, lvars, hist
  <2>6. CASE StopRunning
    BY <2>6, TypeParts, Zenon DEF IInv, Flags, StopRunning, StopFrame, servers, lvars
  <2>7. CASE StopCancel
    BY <2>7, TypeParts, Zenon DEF IInv, Flags, StopCancel, StopFrame, servers, lvars
  <2>8. CASE Join
    BY <2>8, TypeParts, Zenon DEF IInv, Flags, Join, StopFrame, servers, lvars
  <2> QED
    BY <1>1, <2>1, <2>2, <2>3, <2>4, <2>5, <2>6, <2>7, <2>8 DEF Messages
<1>2. ASSUME NEW l \in Loops, LoopStep(l) PROVE Flags'
  <2>1. CASE LoopWhile(l)
    BY <2>1, TypeParts, Zenon DEF IInv, Flags, LoopWhile, LoopGoto, LoopFrame, cvars, hist
  <2>2. CASE LoopBarrier(l)
    BY <2>2, TypeParts, Zenon DEF IInv, Flags, LoopBarrier, LoopGoto, LoopFrame, cvars, hist
  <2>3. CASE LoopEmpty(l)
    BY <2>3, TypeParts, Zenon DEF IInv, Flags, LoopEmpty, LoopGoto, LoopFrame, cvars, hist
  <2>4. CASE LoopExecute(l)
    BY <2>4, TypeParts, Zenon DEF IInv, Flags, LoopExecute, LoopGoto, LoopFrame, cvars, hist
  <2>5. CASE LoopCancel(l)
    BY <2>5, TypeParts, Zenon DEF IInv, Flags, LoopCancel, LoopGoto, LoopFrame, cvars, hist
  <2>6. CASE LoopThrows(l)
    BY <2>6, TypeParts, Zenon DEF IInv, Flags, LoopThrows, LoopGoto, LoopFrame, cvars, hist
  <2>7. CASE LoopReset(l)
    BY <2>7, TypeParts, Zenon DEF IInv, Flags, LoopReset, LoopGoto, LoopFrame, cvars, hist
  <2>8. CASE LoopStopListening(l)
    <3>1. StopOrder[li[l]] \in Kinds
      BY TypeParts, OrderFacts DEF IInv, Places
    <3>2. crash' \in {"no", "freed", "cancel"}
      BY <2>8, <3>1, TypeParts, TouchFacts DEF IInv, Flags, LoopStopListening, LoopServer
    <3> QED
      BY <2>8, <3>2, TypeParts DEF IInv, Flags, LoopStopListening, LoopServer, LoopFrame,
         hist
  <2>9. CASE LoopDrained(l)
    BY <2>9, TypeParts, Zenon DEF IInv, Flags, LoopDrained, LoopGoto, LoopFrame, cvars, hist
  <2>10. CASE LoopDelete(l)
    <3>1. StopOrder[li[l]] \in Kinds
      BY TypeParts, OrderFacts DEF IInv, Places
    <3>2. crash' \in {"no", "freed", "cancel"}
      BY <2>10, <3>1, TypeParts, TouchFacts DEF IInv, Flags, LoopDelete, LoopServer
    <3> QED
      BY <2>10, <3>2, TypeParts DEF IInv, Flags, LoopDelete, LoopServer, LoopFrame, hist
  <2>11. CASE LoopNull(l)
    BY <2>11, TypeParts, Zenon DEF IInv, Flags, LoopNull, LoopGoto, LoopFrame, cvars, hist
  <2> QED
    BY <1>2, <2>1, <2>2, <2>3, <2>4, <2>5, <2>6, <2>7, <2>8, <2>9, <2>10, <2>11 DEF LoopStep
<1>3. ASSUME Gives PROVE Flags'
  <2>1. CASE Gives
    BY <2>1, TypeParts, Zenon DEF IInv, Flags, Gives, GiveCommand, PushCommand, servers,
       lvars, cvars,
       hist
  <2> QED
    BY <1>3, <2>1 DEF Gives
<1> QED
  BY <1>1, <1>2, <1>3 DEF Step

\* Type correctness: servers and pointers.
LEMMA ServersStep ==
  ASSUME IInv, crash = "no", Step
  PROVE  Servers'
<1>1. ASSUME Messages PROVE Servers'
  <2>1. CASE Starts
    BY <2>1, TypeParts DEF IInv, Servers, Starts, Start, servers, lvars
  <2>2. CASE Stop
    BY <2>2, TypeParts DEF IInv, Servers, Stop, servers, lvars
  <2>3. CASE Enable
    <3>1. CASE UNCHANGED <<ptr, inst>>
      BY <2>3, <3>1, EnableFacts, TypeParts DEF IInv, Servers
    <3>2. ASSUME NEW k \in Kinds,
                 inst' = [inst EXCEPT ![k] = Append(inst[k], "listening")],
                 ptr' = [ptr EXCEPT ![k] = Len(inst[k]) + 1]
          PROVE  Servers'
      <4>1. inst[k] \in Seq({"listening", "stopped", "freed"})
        BY TypeParts DEF IInv, Servers
      <4>2. /\ Append(inst[k], "listening") \in Seq({"listening", "stopped", "freed"})
            /\ Len(inst[k]) \in Nat /\ Len(Append(inst[k], "listening")) = Len(inst[k]) + 1
        BY <4>1, AppendFacts
      <4>3. PICK q : q = Append(inst[k], "listening")
        OBVIOUS
      <4> QED
        BY <2>3, <3>2, <4>2, <4>3, EnableFacts, TypeParts DEF IInv, Servers
    <3> QED
      BY <2>3, <3>1, <3>2, EnableFacts DEF IInv
  <2>4. CASE Launch
    BY <2>4, TypeParts DEF IInv, Servers, Launch, servers, hist
  <2>5. CASE RunReturns
    BY <2>5, TypeParts DEF IInv, Servers, RunReturns, servers, lvars, hist
  <2>6. CASE StopRunning
    BY <2>6, TypeParts DEF IInv, Servers, StopRunning, StopFrame, servers, lvars
  <2>7. CASE StopCancel
    BY <2>7, TypeParts DEF IInv, Servers, StopCancel, StopFrame, servers, lvars
  <2>8. CASE Join
    BY <2>8, TypeParts DEF IInv, Servers, Join, StopFrame, servers, lvars
  <2> QED
    BY <1>1, <2>1, <2>2, <2>3, <2>4, <2>5, <2>6, <2>7, <2>8 DEF Messages
<1>2. ASSUME NEW l \in Loops, LoopStep(l) PROVE Servers'
  <2>1. CASE LoopWhile(l)
    BY <2>1, TypeParts DEF IInv, Servers, LoopWhile, LoopGoto, LoopFrame, cvars, hist
  <2>2. CASE LoopBarrier(l)
    BY <2>2, TypeParts DEF IInv, Servers, LoopBarrier, LoopGoto, LoopFrame, cvars, hist
  <2>3. CASE LoopEmpty(l)
    BY <2>3, TypeParts DEF IInv, Servers, LoopEmpty, LoopGoto, LoopFrame, cvars, hist
  <2>4. CASE LoopExecute(l)
    BY <2>4, TypeParts DEF IInv, Servers, LoopExecute, LoopGoto, LoopFrame, cvars, hist
  <2>5. CASE LoopCancel(l)
    BY <2>5, TypeParts DEF IInv, Servers, LoopCancel, LoopGoto, LoopFrame, cvars, hist
  <2>6. CASE LoopThrows(l)
    BY <2>6, TypeParts DEF IInv, Servers, LoopThrows, LoopGoto, LoopFrame, cvars, hist
  <2>7. CASE LoopReset(l)
    BY <2>7, TypeParts DEF IInv, Servers, LoopReset, LoopGoto, LoopFrame, cvars, hist
  <2>8. CASE LoopStopListening(l)
    <3>1. StopOrder[li[l]] \in Kinds
      BY TypeParts, OrderFacts DEF IInv, Places
    <3> QED
      BY <2>8, <3>1, TypeParts, TouchFacts DEF IInv, Servers, LoopStopListening,
         LoopServer, LoopFrame
  <2>9. CASE LoopDrained(l)
    BY <2>9, TypeParts DEF IInv, Servers, LoopDrained, LoopGoto, LoopFrame, cvars, hist
  <2>10. CASE LoopDelete(l)
    <3>1. StopOrder[li[l]] \in Kinds
      BY TypeParts, OrderFacts DEF IInv, Places
    <3> QED
      BY <2>10, <3>1, TypeParts, TouchFacts DEF IInv, Servers, LoopDelete, LoopServer,
         LoopFrame
  <2>11. CASE LoopNull(l)
    BY <2>11, TypeParts DEF IInv, Servers, LoopNull, LoopFrame
  <2> QED
    BY <1>2, <2>1, <2>2, <2>3, <2>4, <2>5, <2>6, <2>7, <2>8, <2>9, <2>10, <2>11 DEF LoopStep
<1>3. ASSUME Gives PROVE Servers'
  <2>1. CASE Gives
    BY <2>1, TypeParts DEF IInv, Servers, Gives, GiveCommand, PushCommand, servers, lvars,
       cvars, hist
  <2> QED
    BY <1>3, <2>1 DEF Gives
<1> QED
  BY <1>1, <1>2, <1>3 DEF Step

\* Where a loop can be.
LoopPlaces == {"none", "while", "barrier", "size", "cancel", "reset", "stop",
               "drain", "draincancel", "join", "null", "done"}

\* Stopping or deleting a server, and going on to the next.
LEMMA ServerPlaces ==
  ASSUME lpc \in [Loops -> LoopPlaces], li \in [Loops -> 1 .. 3],
         NEW l \in Loops, NEW at, NEW status, NEW to \in LoopPlaces,
         LoopServer(l, at, status, to)
  PROVE  lpc' \in [Loops -> LoopPlaces] /\ li' \in [Loops -> 1 .. 3]
<1>0. Len(StopOrder) = 3 /\ li[l] \in 1 .. 3
  BY OrderFacts
<1>1. CASE li[l] < Len(StopOrder)
  <2>1. li' = [li EXCEPT ![l] = @ + 1] /\ lpc' = lpc
    BY <1>1 DEF LoopServer
  <2>2. li[l] + 1 \in 1 .. 3
    BY <1>0, <1>1
  <2> QED
    BY <2>1, <2>2
<1>2. CASE ~(li[l] < Len(StopOrder))
  <2>1. li' = [li EXCEPT ![l] = 1] /\ lpc' = [lpc EXCEPT ![l] = to]
    BY <1>2 DEF LoopServer, LoopGoto
  <2> QED
    BY <2>1
<1> QED
  BY <1>1, <1>2

\* Type correctness: the caller and the loops.
LEMMA PlacesStep ==
  ASSUME IInv, crash = "no", Step
  PROVE  Places'
<1>1. ASSUME Messages PROVE Places'
  <2>1. CASE Starts
    BY <2>1, TypeParts, ServerNodeAssumption DEF IInv, Places, Starts, Start, servers, lvars
  <2>2. CASE Stop
    BY <2>2, TypeParts, ServerNodeAssumption DEF IInv, Places, Stop, servers, lvars
  <2>3. CASE Enable
    BY <2>3, EnableFacts, TypeParts DEF IInv, Places
  <2>4. CASE Launch
    <3>0. PICK n \in Loops : /\ lpc' = [lpc EXCEPT ![n] = "while"]
                             /\ \/ mainLoop' = n /\ cpc' = "idle"
                                \/ mainLoop' = mainLoop /\ cpc' = "running"
      BY <2>4, LaunchFacts
    <3>1. /\ lpc' \in [Loops -> {"none", "while", "barrier", "size", "cancel", "reset", "stop",
                                  "drain", "draincancel", "join", "null", "done"}]
          /\ mainLoop' \in 0 .. MaxCalls /\ cpc' \in {"idle", "running"}
      BY <3>0, TypeParts, ServerNodeAssumption DEF IInv, Places, Loops
    <3> QED
      BY <2>4, <3>1, TypeParts DEF IInv, Places, Launch
  <2>5. CASE RunReturns
    BY <2>5, TypeParts, ServerNodeAssumption DEF IInv, Places, RunReturns, servers, lvars,
       hist
  <2>6. CASE StopRunning
    BY <2>6, TypeParts, ServerNodeAssumption DEF IInv, Places, StopRunning, StopFrame,
       servers, lvars
  <2>7. CASE StopCancel
    BY <2>7, TypeParts, ServerNodeAssumption DEF IInv, Places, StopCancel, StopFrame,
       servers, lvars
  <2>8. CASE Join
    BY <2>8, TypeParts, ServerNodeAssumption DEF IInv, Places, Join, StopFrame, servers,
       lvars
  <2> QED
    BY <1>1, <2>1, <2>2, <2>3, <2>4, <2>5, <2>6, <2>7, <2>8 DEF Messages
<1>2. ASSUME NEW l \in Loops, LoopStep(l) PROVE Places'
  <2>1. CASE LoopWhile(l)
    BY <2>1, TypeParts, ServerNodeAssumption DEF IInv, Places, LoopWhile, LoopGoto,
       LoopFrame, cvars, hist
  <2>2. CASE LoopBarrier(l)
    BY <2>2, TypeParts, ServerNodeAssumption DEF IInv, Places, LoopBarrier, LoopGoto,
       LoopFrame, cvars, hist
  <2>3. CASE LoopEmpty(l)
    BY <2>3, TypeParts, ServerNodeAssumption DEF IInv, Places, LoopEmpty, LoopGoto,
       LoopFrame, cvars, hist
  <2>4. CASE LoopExecute(l)
    BY <2>4, TypeParts, TailFacts DEF IInv, Places, LoopExecute, LoopGoto, LoopFrame, cvars
  <2>5. CASE LoopCancel(l)
    BY <2>5, TypeParts, ServerNodeAssumption DEF IInv, Places, LoopCancel, LoopGoto,
       LoopFrame, cvars, hist
  <2>6. CASE LoopThrows(l)
    BY <2>6, TypeParts, ServerNodeAssumption DEF IInv, Places, LoopThrows, LoopGoto,
       LoopFrame, cvars, hist
  <2>7. CASE LoopReset(l)
    BY <2>7, TypeParts, ServerNodeAssumption DEF IInv, Places, LoopReset, LoopGoto,
       LoopFrame, cvars, hist
  <2>8. CASE LoopStopListening(l)
    <3>0. lpc \in [Loops -> LoopPlaces] /\ li \in [Loops -> 1 .. 3]
      BY TypeParts DEF IInv, Places, LoopPlaces
    <3>1. lpc' \in [Loops -> LoopPlaces] /\ li' \in [Loops -> 1 .. 3]
      <4>1. LoopServer(l, "stop", "stopped", "drain")
        BY <2>8 DEF LoopStopListening
      <4> QED
        BY <3>0, <4>1, ServerPlaces DEF LoopPlaces
    <3> QED
      BY <2>8, <3>1, TypeParts DEF IInv, Places, LoopPlaces, LoopStopListening, LoopServer,
         LoopFrame, cvars
  <2>9. CASE LoopDrained(l)
    BY <2>9, TypeParts, ServerNodeAssumption DEF IInv, Places, LoopDrained, LoopGoto,
       LoopFrame, cvars, hist
  <2>10. CASE LoopDelete(l)
    <3>0. lpc \in [Loops -> LoopPlaces] /\ li \in [Loops -> 1 .. 3]
      BY TypeParts DEF IInv, Places, LoopPlaces
    <3>1. lpc' \in [Loops -> LoopPlaces] /\ li' \in [Loops -> 1 .. 3]
      <4>1. LoopServer(l, "join", "freed", "null")
        BY <2>10 DEF LoopDelete
      <4> QED
        BY <3>0, <4>1, ServerPlaces DEF LoopPlaces
    <3> QED
      BY <2>10, <3>1, TypeParts DEF IInv, Places, LoopPlaces, LoopDelete, LoopServer,
         LoopFrame, cvars
  <2>11. CASE LoopNull(l)
    BY <2>11, TypeParts, ServerNodeAssumption DEF IInv, Places, LoopNull, LoopGoto,
       LoopFrame, cvars, hist
  <2> QED
    BY <1>2, <2>1, <2>2, <2>3, <2>4, <2>5, <2>6, <2>7, <2>8, <2>9, <2>10, <2>11 DEF LoopStep
<1>3. ASSUME Gives PROVE Places'
  <3>1. PICK r \in Commands : GiveCommand(r) \/ PushCommand(r)
    BY <1>3 DEF Gives
  <3>2. queue \in Seq(Commands) /\ pending \in [Commands -> Nat]
    BY TypeParts DEF IInv, Places
  <3>3. Append(queue, r) \in Seq(Commands)
    BY <3>2, AppendFacts
  <3>4. queue' \in Seq(Commands) /\ pending' \in [Commands -> Nat]
    <4>1. GiveCommand(r) => UNCHANGED queue /\ pending' = [pending EXCEPT ![r] = @ + 1]
      BY DEF GiveCommand
    <4>2. PushCommand(r) => /\ queue' = queue \/ queue' = Append(queue, r)
                            /\ pending[r] > 0 /\ pending' = [pending EXCEPT ![r] = @ - 1]
      BY DEF PushCommand
    <4>3. pending[r] \in Nat
      BY <3>2
    <4>4. PICK n \in Nat : pending' = [pending EXCEPT ![r] = n]
      BY <3>1, <4>1, <4>2, <4>3
    <4> QED
      BY <3>1, <3>2, <3>3, <4>1, <4>2, <4>4
  <3> QED
    BY <3>1, <3>4, TypeParts, ServerNodeAssumption DEF IInv, Places, GiveCommand,
       PushCommand, lvars, cvars
<1> QED
  BY <1>1, <1>2, <1>3 DEF Step

\* Every step keeps the types.
LEMMA TypeStep ==
  ASSUME IInv, crash = "no", Step
  PROVE  TypeOK'
<1>1. Flags' /\ Servers' /\ Places'
  BY FlagsStep, ServersStep, PlacesStep
<1> QED
  BY <1>1, OrderFacts DEF TypeOK, Flags, Servers, Places

-----------------------------------------------------------------------------
(* What a step of a loop, and one of a message, can do. *)

\* A loop goes on, never back to "none", and can only turn running() off.
LEMMA LoopMoves ==
  ASSUME IInv, NEW l \in Loops, LoopStep(l)
  PROVE  /\ l \in Active
         /\ lpc' = [lpc EXCEPT ![l] = lpc'[l]] /\ lpc'[l] # "none"
         /\ running' = running \/ ~running'
         /\ UNCHANGED <<cpc, ci, call, calls, mainLoop, sent, pending, stopped, stale, overlap,
                        ports>>
<1> USE DEF LoopGoto, LoopFrame, cvars, hist, Active
<1>0. lpc \in [Loops -> {"none", "while", "barrier", "size", "cancel", "reset", "stop",
                         "drain", "draincancel", "join", "null", "done"}]
  BY DEF IInv, TypeOK
<1>1. CASE LoopWhile(l)
  BY <1>0, <1>1 DEF LoopWhile
<1>2. CASE LoopBarrier(l)
  BY <1>0, <1>2 DEF LoopBarrier
<1>3. CASE LoopEmpty(l)
  BY <1>0, <1>3 DEF LoopEmpty
<1>4. CASE LoopExecute(l)
  BY <1>0, <1>4 DEF LoopExecute
<1>5. CASE LoopCancel(l)
  BY <1>0, <1>5 DEF LoopCancel
<1>6. CASE LoopThrows(l)
  BY <1>0, <1>6 DEF LoopThrows
<1>7. CASE LoopReset(l)
  BY <1>0, <1>7 DEF LoopReset
<1>8. CASE LoopStopListening(l)
  BY <1>0, <1>8 DEF LoopStopListening, LoopServer
<1>9. CASE LoopDrained(l)
  BY <1>0, <1>9 DEF LoopDrained
<1>10. CASE LoopDelete(l)
  BY <1>0, <1>10 DEF LoopDelete, LoopServer
<1>11. CASE LoopNull(l)
  BY <1>0, <1>11 DEF LoopNull
<1> QED
  BY <1>1, <1>2, <1>3, <1>4, <1>5, <1>6, <1>7, <1>8, <1>9, <1>10, <1>11 DEF LoopStep

\* Unless a start has met a loop, that loop is the only one.
LEMMA OnlyLoop ==
  ASSUME IInv, ~overlap, NEW l \in Active
  PROVE  Active = {l}
<1>1. ASSUME NEW m \in Active, m # l PROVE FALSE
  <2>1. l \in Loops /\ m \in Loops /\ l \in Nat /\ m \in Nat
    BY <1>1, ServerNodeAssumption DEF Active, Loops
  <2>2. lpc[l] # "none" /\ lpc[m] # "none"
    BY <1>1 DEF Active
  <2>3. m > l \/ l > m
    BY <1>1, <2>1
  <2> QED
    BY <1>1, <2>1, <2>2, <2>3 DEF IInv, Orderly, Alone
<1> QED
  BY <1>1

\* The loop that takes a step is the only one under way.
LEMMA LoopActive ==
  ASSUME IInv, ~overlap, NEW l \in Loops, LoopStep(l)
  PROVE  /\ Active = {l} /\ Active' = IF lpc'[l] = "done" THEN {} ELSE {l}
         /\ Orderly
<1>1. Active = {l}
  BY LoopMoves, OnlyLoop
<1>2. \A m \in Loops : lpc'[m] = IF m = l THEN lpc'[l] ELSE lpc[m]
  BY LoopMoves DEF IInv, TypeOK
<1>3. lpc'[l] # "none"
  BY LoopMoves
<1>4. ASSUME NEW m \in Loops PROVE m \in Active' <=> m = l /\ lpc'[l] # "done"
  BY <1>1, <1>2, <1>3, <1>4 DEF Active
<1>5. Active' \subseteq Loops
  BY DEF Active
<1> QED
  BY <1>1, <1>4, <1>5 DEF IInv

\* A start takes effect only when no loop is under way.
LEMMA StartFacts ==
  ASSUME Starts, ~overlap'
  PROVE  /\ ~overlap /\ cpc = "idle"
         /\ cpc' \in {"idle", "enable", "launch"} /\ (cpc' # "idle" => Active = {})
         /\ running' /\ (cpc' = "idle" => running /\ stale' = stale)
         /\ cpc' # "idle" => stale' = canceled
         /\ calls' = calls + 1 /\ ~stopped'
         /\ UNCHANGED <<canceled, queue, ports, ptr, inst, lpc, li, mainLoop, sent, pending,
                        crash>>
  BY DEF Starts, Start, servers, lvars

\* Nothing but a start brings a message and a loop together.
LEMMA OverlapGrows ==
  ASSUME IInv, Step, ~overlap'
  PROVE  ~overlap
<1>1. Messages => ~overlap
  BY DEF Messages, Starts, Start, Stop, Enable, Launch, RunReturns, StopRunning, StopCancel,
         Join, StopFrame, hist
<1>2. Gives => ~overlap
  BY DEF Gives, GiveCommand, PushCommand, hist
<1> QED
  BY <1>1, <1>2, LoopMoves DEF Step

\* Every serverLoop() gets the next number.
LEMMA NumberedStep ==
  ASSUME IInv, crash = "no", Step
  PROVE  Numbered'
<1>1. ASSUME Messages PROVE Numbered'
  <2>1. CASE Starts
    <3>1. lpc' = lpc /\ calls' = calls + 1 /\ calls \in Nat
      BY <2>1, ServerNodeAssumption DEF IInv, TypeOK, Starts, Start, lvars
    <3>2. PICK n \in 0 .. MaxCalls : (\A l \in Loops : lpc[l] # "none" <=> l <= n) /\ n <= calls
      BY DEF IInv, Numbered
    <3>3. n <= calls' /\ n < calls'
      BY <3>1, <3>2, ServerNodeAssumption
    <3> QED
      BY <3>1, <3>2, <3>3 DEF Numbered
  <2>2. CASE Stop
    <3>1. lpc' = lpc /\ calls' = calls + 1 /\ calls \in Nat /\ cpc' \in {"stop", "idle"}
      BY <2>2, ServerNodeAssumption DEF IInv, TypeOK, Stop, lvars
    <3>2. PICK n \in 0 .. MaxCalls : (\A l \in Loops : lpc[l] # "none" <=> l <= n) /\ n <= calls
      BY DEF IInv, Numbered
    <3>3. n <= calls'
      BY <3>1, <3>2, ServerNodeAssumption
    <3> QED
      BY <3>1, <3>2, <3>3 DEF Numbered
  <2>3. CASE Enable
    BY <2>3, EnableFacts DEF IInv, Numbered
  <2>4. CASE Launch
    <3>1. PICK n \in Loops : /\ \A l \in Loops : lpc[l] # "none" <=> l < n
                             /\ n <= calls /\ lpc' = [lpc EXCEPT ![n] = "while"]
                             /\ cpc' \in {"idle", "running"}
      BY <2>4, LaunchFacts
    <3>2. n \in 0 .. MaxCalls /\ n <= calls' /\ cpc' \notin {"enable", "launch"}
      BY <2>4, <3>1, ServerNodeAssumption DEF Loops, Launch
    <3>3. ASSUME NEW l \in Loops PROVE lpc'[l] # "none" <=> l <= n
      <4>1. lpc'[l] = IF l = n THEN "while" ELSE lpc[l]
        BY <3>1 DEF IInv, TypeOK
      <4>2. l \in Nat /\ n \in Nat
        BY ServerNodeAssumption DEF Loops
      <4> QED
        BY <3>1, <4>1, <4>2
    <3> QED
      BY <3>2, <3>3 DEF Numbered
  <2>5. CASE RunReturns
    BY <2>5 DEF IInv, TypeOK, Numbered, RunReturns, servers, lvars, hist
  <2>6. CASE StopRunning
    BY <2>6 DEF IInv, TypeOK, Numbered, StopRunning, StopFrame, servers, lvars
  <2>7. CASE StopCancel
    BY <2>7 DEF IInv, TypeOK, Numbered, StopCancel, StopFrame, servers, lvars
  <2>8. CASE Join
    BY <2>8 DEF IInv, TypeOK, Numbered, Join, StopFrame, servers, lvars
  <2> QED
    BY <1>1, <2>1, <2>2, <2>3, <2>4, <2>5, <2>6, <2>7, <2>8 DEF Messages
<1>2. ASSUME NEW l \in Loops, LoopStep(l) PROVE Numbered'
  <2>1. \A m \in Loops : lpc'[m] # "none" <=> lpc[m] # "none"
    BY <1>2, LoopMoves DEF IInv, TypeOK, Active
  <2> QED
    BY <1>2, <2>1, LoopMoves DEF IInv, Numbered
<1>3. ASSUME Gives PROVE Numbered'
  <2>1. CASE Gives
    BY <2>1 DEF IInv, TypeOK, Numbered, Gives, GiveCommand, PushCommand, servers, lvars,
       cvars, hist
  <2> QED
    BY <1>3, <2>1 DEF Gives
<1> QED
  BY <1>1, <1>2, <1>3 DEF Step

\* Every pass over the servers starts with the first.
LEMMA AtFirstStep ==
  ASSUME IInv, crash = "no", Step
  PROVE  AtFirst'
<1>1. ASSUME Messages PROVE AtFirst'
  <2>1. CASE Starts
    BY <2>1 DEF IInv, TypeOK, AtFirst, Starts, Start, servers, lvars
  <2>2. CASE Stop
    BY <2>2 DEF IInv, TypeOK, AtFirst, Stop, servers, lvars
  <2>3. CASE Enable
    BY <2>3, EnableFacts DEF IInv, AtFirst
  <2>4. CASE Launch
    <3>1. PICK n \in Loops : /\ \A l \in Loops : lpc[l] # "none" <=> l < n
                             /\ lpc' = [lpc EXCEPT ![n] = "while"]
      BY <2>4, LaunchFacts
    <3>2. lpc[n] = "none"
      BY <3>1, ServerNodeAssumption DEF Loops
    <3> QED
      BY <2>4, <3>1, <3>2 DEF IInv, TypeOK, AtFirst, Launch
  <2>5. CASE RunReturns
    BY <2>5 DEF IInv, TypeOK, AtFirst, RunReturns, servers, lvars, hist
  <2>6. CASE StopRunning
    BY <2>6 DEF IInv, TypeOK, AtFirst, StopRunning, StopFrame, servers, lvars
  <2>7. CASE StopCancel
    BY <2>7 DEF IInv, TypeOK, AtFirst, StopCancel, StopFrame, servers, lvars
  <2>8. CASE Join
    BY <2>8 DEF IInv, TypeOK, AtFirst, Join, StopFrame, servers, lvars
  <2> QED
    BY <1>1, <2>1, <2>2, <2>3, <2>4, <2>5, <2>6, <2>7, <2>8 DEF Messages
<1>2. ASSUME NEW l \in Loops, LoopStep(l) PROVE AtFirst'
  <2>1. CASE LoopWhile(l)
    BY <2>1 DEF IInv, TypeOK, AtFirst, LoopWhile, LoopGoto, LoopFrame, cvars, hist
  <2>2. CASE LoopBarrier(l)
    BY <2>2 DEF IInv, TypeOK, AtFirst, LoopBarrier, LoopGoto, LoopFrame, cvars, hist
  <2>3. CASE LoopEmpty(l)
    BY <2>3 DEF IInv, TypeOK, AtFirst, LoopEmpty, LoopGoto, LoopFrame, cvars, hist
  <2>4. CASE LoopExecute(l)
    BY <2>4 DEF IInv, TypeOK, AtFirst, LoopExecute, LoopGoto, LoopFrame, cvars, hist
  <2>5. CASE LoopCancel(l)
    BY <2>5 DEF IInv, TypeOK, AtFirst, LoopCancel, LoopGoto, LoopFrame, cvars, hist
  <2>6. CASE LoopThrows(l)
    BY <2>6 DEF IInv, TypeOK, AtFirst, LoopThrows, LoopGoto, LoopFrame, cvars, hist
  <2>7. CASE LoopReset(l)
    BY <2>7 DEF IInv, TypeOK, AtFirst, LoopReset, LoopGoto, LoopFrame, cvars, hist
  <2>8. CASE LoopStopListening(l)
    BY <2>8 DEF IInv, TypeOK, AtFirst, LoopStopListening, LoopServer, LoopGoto, LoopFrame,
       Touch, cvars, hist
  <2>9. CASE LoopDrained(l)
    BY <2>9 DEF IInv, TypeOK, AtFirst, LoopDrained, LoopGoto, LoopFrame, cvars, hist
  <2>10. CASE LoopDelete(l)
    BY <2>10 DEF IInv, TypeOK, AtFirst, LoopDelete, LoopServer, LoopGoto, LoopFrame, Touch,
       cvars, hist
  <2>11. CASE LoopNull(l)
    BY <2>11 DEF IInv, TypeOK, AtFirst, LoopNull, LoopGoto, LoopFrame, cvars, hist
  <2> QED
    BY <1>2, <2>1, <2>2, <2>3, <2>4, <2>5, <2>6, <2>7, <2>8, <2>9, <2>10, <2>11 DEF LoopStep
<1>3. ASSUME Gives PROVE AtFirst'
  <2>1. CASE Gives
    BY <2>1 DEF IInv, TypeOK, AtFirst, Gives, GiveCommand, PushCommand, servers, lvars,
       cvars, hist
  <2> QED
    BY <1>3, <2>1 DEF Gives
<1> QED
  BY <1>1, <1>2, <1>3 DEF Step

\* Between stop() and the next start running() stays off.
LEMMA StoppedFlagStep ==
  ASSUME IInv, crash = "no", Step
  PROVE  StoppedFlag'
<1>1. ASSUME Messages PROVE StoppedFlag'
  <2>1. CASE Starts
    BY <2>1 DEF IInv, StoppedFlag, Starts, Start, servers, lvars
  <2>2. CASE Stop
    BY <2>2 DEF IInv, StoppedFlag, Stop, servers, lvars
  <2>3. CASE Enable
    BY <2>3, EnableFacts DEF IInv, StoppedFlag
  <2>4. CASE Launch
    BY <2>4 DEF IInv, StoppedFlag, Launch, servers, hist
  <2>5. CASE RunReturns
    BY <2>5 DEF IInv, StoppedFlag, RunReturns, servers, lvars, hist
  <2>6. CASE StopRunning
    BY <2>6 DEF IInv, StoppedFlag, StopRunning, StopFrame, servers, lvars
  <2>7. CASE StopCancel
    BY <2>7 DEF IInv, StoppedFlag, StopCancel, StopFrame, servers, lvars
  <2>8. CASE Join
    BY <2>8 DEF IInv, StoppedFlag, Join, StopFrame, servers, lvars
  <2> QED
    BY <1>1, <2>1, <2>2, <2>3, <2>4, <2>5, <2>6, <2>7, <2>8 DEF Messages
<1>2. ASSUME NEW l \in Loops, LoopStep(l) PROVE StoppedFlag'
  BY <1>2, LoopMoves DEF IInv, StoppedFlag
<1>3. ASSUME Gives PROVE StoppedFlag'
  <2>1. CASE Gives
    BY <2>1 DEF IInv, StoppedFlag, Gives, GiveCommand, PushCommand, servers, lvars, cvars,
       hist
  <2> QED
    BY <1>3, <2>1 DEF Gives
<1> QED
  BY <1>1, <1>2, <1>3 DEF Step

-----------------------------------------------------------------------------
(* The orderly case: no start has met a loop. *)

\* Without an overlap a loop is started when no other is under way.
LEMMA AloneStep ==
  ASSUME IInv, crash = "no", Step, ~overlap, ~overlap'
  PROVE  Alone'
<1>1. ASSUME Messages PROVE Alone'
  <2>1. CASE Starts
    BY <2>1, StartFacts DEF IInv, Orderly, Alone, Active
  <2>2. CASE Stop
    BY <2>2 DEF IInv, Orderly, Alone, Active, Stop, servers, lvars
  <2>3. CASE Enable
    BY <2>3, EnableFacts DEF IInv, Orderly, Alone, Active
  <2>4. CASE Launch
    <3>1. PICK n \in Loops : /\ \A l \in Loops : lpc[l] # "none" <=> l < n
                             /\ lpc' = [lpc EXCEPT ![n] = "while"]
                             /\ \/ mainLoop' = n /\ cpc' = "idle"
                                \/ mainLoop' = mainLoop /\ cpc' = "running"
      BY <2>4, LaunchFacts
    <3>2. Active = {}
      BY <2>4 DEF IInv, Orderly, Alone, Launch
    <3>3. \A l \in Loops : lpc'[l] = IF l = n THEN "while" ELSE lpc[l]
      BY <3>1 DEF IInv, TypeOK
    <3>4. n \in Active' /\ \A l \in Active' : l = n
      BY <3>2, <3>3 DEF Active
    <3>5. \A k \in Loops : k > n => lpc'[k] = "none"
      BY <3>1, <3>3, ServerNodeAssumption DEF Loops
    <3> QED
      BY <3>1, <3>4, <3>5 DEF Alone
  <2>5. CASE RunReturns
    <3>1. PICK m \in Loops : lpc[m] = "done" /\ \A k \in Loops : k > m => lpc[k] = "none"
      BY <2>5 DEF RunReturns
    <3>2. ASSUME NEW l \in Active PROVE FALSE
      <4>1. l \in Loops /\ lpc[l] \notin {"none", "done"} /\ \A k \in Loops : k > l => lpc[k] = "none"
        BY DEF Active, IInv, Orderly, Alone
      <4>2. l > m \/ m > l \/ l = m
        BY <4>1, ServerNodeAssumption DEF Loops
      <4> QED
        BY <3>1, <4>1, <4>2
    <3> QED
      BY <2>5, <3>2 DEF Alone, Active, RunReturns, lvars
  <2>6. CASE StopRunning
    BY <2>6 DEF IInv, Orderly, Alone, Active, StopRunning, StopFrame, servers, lvars
  <2>7. CASE StopCancel
    BY <2>7 DEF IInv, Orderly, Alone, Active, StopCancel, StopFrame, servers, lvars
  <2>8. CASE Join
    <3>1. Active = {}
      BY <2>8, ServerNodeAssumption DEF IInv, Orderly, Alone, Active, Join, Loops
    <3> QED
      BY <2>8, <3>1 DEF Alone, Active, Join, StopFrame, lvars
  <2> QED
    BY <1>1, <2>1, <2>2, <2>3, <2>4, <2>5, <2>6, <2>7, <2>8 DEF Messages
<1>2. ASSUME NEW l \in Loops, LoopStep(l) PROVE Alone'
  <2>0. l \in Nat /\ \A k \in Loops : k \in Nat
    BY ServerNodeAssumption DEF Loops
  <2>1. Alone /\ \A k \in Loops : k > l => lpc'[k] = "none"
    <3>1. Alone /\ l \in Active /\ \A k \in Loops : k # l => lpc'[k] = lpc[k]
      BY <1>2, LoopActive, LoopMoves DEF Orderly, IInv, TypeOK
    <3> QED
      BY <2>0, <3>1 DEF Alone
  <2> QED
    BY <1>2, <2>1, LoopActive, LoopMoves DEF Alone
<1>3. ASSUME Gives PROVE Alone'
  <2>1. CASE Gives
    BY <2>1 DEF IInv, Orderly, Alone, Active, Gives, GiveCommand, PushCommand, servers,
       lvars, cvars,
       hist
  <2> QED
    BY <1>3, <2>1 DEF Gives
<1> QED
  BY <1>1, <1>2, <1>3 DEF Step

\* A command is given only while there are consoles.
LEMMA GivesFacts ==
  ASSUME IInv, ~overlap, Gives
  PROVE  /\ ptr["console"] # 0 /\ \A l \in Active : lpc[l] # "null"
         /\ UNCHANGED <<lpc, cpc, ptr>>
<1>1. PICK r \in Commands : GiveCommand(r) \/ PushCommand(r)
  BY DEF Gives
<1>2. CASE GiveCommand(r)
  <2>1. PICK i \in DOMAIN inst["console"] : inst["console"][i] # "freed"
    BY <1>2 DEF GiveCommand
  <2>2. "console" \in Kinds /\ inst["console"] \in Seq({"listening", "stopped", "freed"})
    BY TypeParts DEF IInv, Servers, Kinds
  <2>3. ptr["console"] = i /\ i # 0
    BY <2>1, <2>2 DEF IInv, Orderly, Unpointed
  <2>4. \A l \in Active : lpc[l] # "null"
    BY <2>1, <2>2, <2>3 DEF IInv, Orderly, Pointed, PastDelete
  <2> QED
    BY <1>2, <2>3, <2>4 DEF GiveCommand, servers, lvars, cvars
<1>3. CASE PushCommand(r)
  <2>1. pending[r] # 0
    BY <1>3 DEF IInv, TypeOK, PushCommand
  <2> QED
    BY <1>3, <2>1 DEF IInv, Orderly, Drained, PushCommand, servers, lvars, cvars
<1> QED
  BY <1>1, <1>2, <1>3

\* A loop that ends leaves an empty queue and null pointers.
LEMMA IdleStep ==
  ASSUME IInv, crash = "no", Step, ~overlap, ~overlap'
  PROVE  Idle'
<1>1. ASSUME Messages PROVE Idle'
  <2>1. CASE Starts
    BY <2>1, StartFacts DEF IInv, Orderly, Idle, Active
  <2>2. CASE Stop
    BY <2>2 DEF IInv, Orderly, Idle, Active, Stop, servers, lvars
  <2>3. CASE Enable
    BY <2>3, EnableFacts DEF IInv, Idle
  <2>4. CASE Launch
    <3>1. PICK n \in Loops : /\ \A l \in Loops : lpc[l] # "none" <=> l < n
                             /\ lpc' = [lpc EXCEPT ![n] = "while"]
                             /\ \/ mainLoop' = n /\ cpc' = "idle"
                                \/ mainLoop' = mainLoop /\ cpc' = "running"
      BY <2>4, LaunchFacts
    <3>2. Active = {}
      BY <2>4 DEF IInv, Orderly, Alone, Launch
    <3>3. \A l \in Loops : lpc'[l] = IF l = n THEN "while" ELSE lpc[l]
      BY <3>1 DEF IInv, TypeOK
    <3>4. n \in Active' /\ \A l \in Active' : l = n
      BY <3>2, <3>3 DEF Active
    <3> QED
      BY <3>4 DEF Idle
  <2>5. CASE RunReturns
    BY <2>5 DEF IInv, Orderly, Idle, Active, RunReturns, servers, lvars, hist
  <2>6. CASE StopRunning
    BY <2>6 DEF IInv, Orderly, Idle, Active, StopRunning, StopFrame, servers, lvars
  <2>7. CASE StopCancel
    BY <2>7 DEF IInv, Orderly, Idle, Active, StopCancel, StopFrame, servers, lvars
  <2>8. CASE Join
    BY <2>8 DEF IInv, Orderly, Idle, Active, Join, StopFrame, servers, lvars
  <2> QED
    BY <1>1, <2>1, <2>2, <2>3, <2>4, <2>5, <2>6, <2>7, <2>8 DEF Messages
<1>2. ASSUME NEW l \in Loops, LoopStep(l) PROVE Idle'
  <2>1. lpc'[l] = "done" => LoopNull(l)
    BY <1>2, LoopMoves DEF IInv, TypeOK, Active, LoopStep, LoopWhile, LoopBarrier,
       LoopEmpty, LoopExecute, LoopCancel, LoopThrows, LoopReset, LoopStopListening,
       LoopDrained, LoopDelete, LoopServer, LoopGoto
  <2>2. LoopNull(l) => queue' = <<>> /\ \A k \in Kinds : ptr'[k] = 0
    BY <1>2, LoopActive DEF Orderly, Drained, LoopNull
  <2> QED
    BY <1>2, <2>1, <2>2, LoopActive DEF Idle
<1>3. ASSUME Gives PROVE Idle'
  <3>1. ptr["console"] # 0
    BY <1>3, GivesFacts
  <3>2. ~(Active = {} /\ cpc \notin {"enable", "launch"})
    BY <3>1 DEF IInv, Orderly, Idle, Kinds
  <3>3. UNCHANGED <<lpc, cpc>>
    BY <1>3 DEF Gives, GiveCommand, PushCommand, lvars, cvars
  <3> QED
    BY <3>2, <3>3 DEF Idle, Active
<1> QED
  BY <1>1, <1>2, <1>3 DEF Step

\* Nothing is pushed to a queue that the loop has drained.
LEMMA DrainedStep ==
  ASSUME IInv, crash = "no", Step, ~overlap, ~overlap'
  PROVE  Drained'
<1>1. ASSUME Messages PROVE Drained'
  <2>1. CASE Starts
    BY <2>1, StartFacts DEF IInv, Orderly, Drained, Active
  <2>2. CASE Stop
    BY <2>2 DEF IInv, Orderly, Drained, Active, Stop, servers, lvars
  <2>3. CASE Enable
    <3>1. Active' = Active /\ Active = {}
      BY <2>3, EnableFacts DEF IInv, Orderly, Alone, Active
    <3>2. ptr'["console"] = 0 => ptr["console"] = 0
      <4>1. CASE UNCHANGED <<ptr, inst>>
        BY <4>1
      <4>2. ASSUME NEW k \in Kinds, ptr' = [ptr EXCEPT ![k] = Len(inst[k]) + 1]
            PROVE  ptr'["console"] = 0 => ptr["console"] = 0
        <5>1. Len(inst[k]) \in Nat /\ ptr \in [Kinds -> Nat] /\ "console" \in Kinds
          BY TypeParts DEF IInv, Servers, Kinds
        <5> QED
          BY <4>2, <5>1
      <4> QED
        BY <2>3, <4>1, <4>2, EnableFacts DEF IInv
    <3>3. UNCHANGED pending
      BY <2>3, EnableFacts DEF IInv
    <3> QED
      BY <3>1, <3>2, <3>3 DEF IInv, Orderly, Drained
  <2>4. CASE Launch
    <3>1. PICK n \in Loops : /\ \A l \in Loops : lpc[l] # "none" <=> l < n
                             /\ lpc' = [lpc EXCEPT ![n] = "while"]
                             /\ \/ mainLoop' = n /\ cpc' = "idle"
                                \/ mainLoop' = mainLoop /\ cpc' = "running"
      BY <2>4, LaunchFacts
    <3>2. Active = {}
      BY <2>4 DEF IInv, Orderly, Alone, Launch
    <3>3. \A l \in Loops : lpc'[l] = IF l = n THEN "while" ELSE lpc[l]
      BY <3>1 DEF IInv, TypeOK
    <3>4. n \in Active' /\ \A l \in Active' : l = n
      BY <3>2, <3>3 DEF Active
    <3>5. UNCHANGED <<ptr, pending>> /\ \A l \in Active' : lpc'[l] = "while"
      BY <2>4, <3>3, <3>4 DEF Launch, servers
    <3> QED
      BY <3>5 DEF IInv, Orderly, Drained
  <2>5. CASE RunReturns
    BY <2>5 DEF IInv, Orderly, Drained, Active, RunReturns, servers, lvars, hist
  <2>6. CASE StopRunning
    BY <2>6 DEF IInv, Orderly, Drained, Active, StopRunning, StopFrame, servers, lvars
  <2>7. CASE StopCancel
    BY <2>7 DEF IInv, Orderly, Drained, Active, StopCancel, StopFrame, servers, lvars
  <2>8. CASE Join
    BY <2>8 DEF IInv, Orderly, Drained, Active, Join, StopFrame, servers, lvars
  <2> QED
    BY <1>1, <2>1, <2>2, <2>3, <2>4, <2>5, <2>6, <2>7, <2>8 DEF Messages
<1>2. ASSUME NEW l \in Loops, LoopStep(l) PROVE Drained'
  <2>1. CASE LoopWhile(l)
    BY <2>1, <1>2, LoopActive DEF IInv, TypeOK, Orderly, Drained, Active, LoopWhile,
       LoopGoto, LoopFrame, cvars, hist
  <2>2. CASE LoopBarrier(l)
    BY <2>2, <1>2, LoopActive DEF IInv, TypeOK, Orderly, Drained, Active, LoopBarrier,
       LoopGoto, LoopFrame, cvars, hist
  <2>3. CASE LoopEmpty(l)
    BY <2>3, <1>2, LoopActive DEF IInv, TypeOK, Orderly, Drained, Active, LoopEmpty,
       LoopGoto, LoopFrame, cvars, hist
  <2>4. CASE LoopExecute(l)
    BY <2>4, <1>2, LoopActive DEF IInv, TypeOK, Orderly, Drained, Active, LoopExecute,
       LoopGoto, LoopFrame, cvars, hist
  <2>5. CASE LoopCancel(l)
    BY <2>5, <1>2, LoopActive DEF IInv, TypeOK, Orderly, Drained, Active, LoopCancel,
       LoopGoto, LoopFrame, cvars, hist
  <2>6. CASE LoopThrows(l)
    BY <2>6, <1>2, LoopActive DEF IInv, TypeOK, Orderly, Drained, Active, LoopThrows,
       LoopGoto, LoopFrame, cvars, hist
  <2>7. CASE LoopReset(l)
    BY <2>7, <1>2, LoopActive DEF IInv, TypeOK, Orderly, Drained, Active, LoopReset,
       LoopGoto, LoopFrame, cvars, hist
  <2>8. CASE LoopStopListening(l)
    <3>1. Active = {l} /\ lpc[l] = "stop" /\ UNCHANGED <<queue, ptr, pending>>
      BY <2>8, <1>2, LoopActive DEF LoopStopListening, LoopServer, LoopFrame
    <3>2. Active' = {l} /\ lpc'[l] \in {"stop", "drain"}
      BY <2>8, <1>2, <3>1, LoopActive DEF IInv, TypeOK, LoopStopListening, LoopServer,
         LoopGoto
    <3> QED
      BY <3>1, <3>2 DEF IInv, Orderly, Drained
  <2>9. CASE LoopDrained(l)
    BY <2>9, <1>2, LoopActive DEF IInv, TypeOK, Orderly, Drained, Active, LoopDrained,
       LoopGoto, LoopFrame, cvars, hist
  <2>10. CASE LoopDelete(l)
    <3>1. Active = {l} /\ lpc[l] = "join" /\ UNCHANGED <<queue, ptr, pending>>
      BY <2>10, <1>2, LoopActive DEF LoopDelete, LoopServer, LoopFrame
    <3>2. Active' = {l} /\ lpc'[l] \in {"join", "null"}
      BY <2>10, <1>2, <3>1, LoopActive DEF IInv, TypeOK, LoopDelete, LoopServer, LoopGoto
    <3>3. lpc'[l] = "null" => StopOrder[li[l]] = "console"
      BY <2>10, <3>1, TypeParts, OrderFacts DEF IInv, Places, LoopDelete, LoopServer, Turn,
         Kinds
    <3>4. lpc'[l] = "null" \/ ptr["console"] = 0 =>
            queue = <<>> /\ \A r \in Commands : pending[r] = 0
      BY <2>10, <3>1, <3>3 DEF IInv, Orderly, Drained, LoopDelete, JoinReturns
    <3> QED
      BY <3>1, <3>2, <3>4 DEF Drained
  <2>11. CASE LoopNull(l)
    BY <2>11, <1>2, LoopActive DEF IInv, TypeOK, Orderly, Drained, Active, LoopNull,
       LoopGoto, LoopFrame, cvars, hist
  <2> QED
    BY <1>2, <2>1, <2>2, <2>3, <2>4, <2>5, <2>6, <2>7, <2>8, <2>9, <2>10, <2>11 DEF LoopStep
<1>3. ASSUME Gives PROVE Drained'
  BY <1>3, GivesFacts DEF Drained, Active
<1> QED
  BY <1>1, <1>2, <1>3 DEF Step

\* The queue of a running server is not cancelled by a loop that ends.
LEMMA CancelingStep ==
  ASSUME IInv, crash = "no", Step, ~overlap, ~overlap'
  PROVE  Canceling'
<1>1. ASSUME Messages PROVE Canceling'
  <2>1. CASE Starts
    BY <2>1, StartFacts DEF IInv, Orderly, Canceling, Active
  <2>2. CASE Stop
    BY <2>2 DEF IInv, Orderly, Canceling, StoppedFlag, Active, Stop, servers, lvars
  <2>3. CASE Enable
    BY <2>3, EnableFacts DEF IInv, Orderly, Canceling, Active
  <2>4. CASE Launch
    <3>1. PICK n \in Loops : /\ \A l \in Loops : lpc[l] # "none" <=> l < n
                             /\ lpc' = [lpc EXCEPT ![n] = "while"]
                             /\ \/ mainLoop' = n /\ cpc' = "idle"
                                \/ mainLoop' = mainLoop /\ cpc' = "running"
      BY <2>4, LaunchFacts
    <3>2. Active = {}
      BY <2>4 DEF IInv, Orderly, Alone, Launch
    <3>3. \A l \in Loops : lpc'[l] = IF l = n THEN "while" ELSE lpc[l]
      BY <3>1 DEF IInv, TypeOK
    <3>4. n \in Active' /\ \A l \in Active' : l = n
      BY <3>2, <3>3 DEF Active
    <3> QED
      BY <2>4, <3>3, <3>4 DEF IInv, Orderly, Canceling, Launch, hist
  <2>5. CASE RunReturns
    BY <2>5 DEF IInv, Orderly, Canceling, StoppedFlag, Active, RunReturns, servers, lvars,
       hist
  <2>6. CASE StopRunning
    BY <2>6 DEF IInv, Orderly, Canceling, StoppedFlag, Active, StopRunning, StopFrame,
       servers, lvars
  <2>7. CASE StopCancel
    BY <2>7 DEF IInv, Orderly, Canceling, StoppedFlag, Active, StopCancel, StopFrame,
       servers, lvars
  <2>8. CASE Join
    BY <2>8 DEF IInv, Orderly, Canceling, StoppedFlag, Active, Join, StopFrame, servers,
       lvars
  <2> QED
    BY <1>1, <2>1, <2>2, <2>3, <2>4, <2>5, <2>6, <2>7, <2>8 DEF Messages
<1>2. ASSUME NEW l \in Loops, LoopStep(l) PROVE Canceling'
  <2>1. CASE LoopWhile(l)
    BY <2>1, <1>2, LoopActive DEF IInv, TypeOK, Orderly, Canceling, Active, LoopWhile,
       LoopGoto, LoopFrame, cvars, hist
  <2>2. CASE LoopBarrier(l)
    BY <2>2, <1>2, LoopActive DEF IInv, TypeOK, Orderly, Canceling, Active, LoopBarrier,
       LoopGoto, LoopFrame, cvars, hist
  <2>3. CASE LoopEmpty(l)
    BY <2>3, <1>2, LoopActive DEF IInv, TypeOK, Orderly, Canceling, Active, LoopEmpty,
       LoopGoto, LoopFrame, cvars, hist
  <2>4. CASE LoopExecute(l)
    BY <2>4, <1>2, LoopActive DEF IInv, TypeOK, Orderly, Canceling, Active, LoopExecute,
       LoopGoto, LoopFrame, cvars, hist
  <2>5. CASE LoopCancel(l)
    BY <2>5, <1>2, LoopActive DEF IInv, TypeOK, Orderly, Canceling, Active, LoopCancel,
       LoopGoto, LoopFrame, cvars, hist
  <2>6. CASE LoopThrows(l)
    BY <2>6, <1>2, LoopActive DEF IInv, TypeOK, Orderly, Canceling, Active, LoopThrows,
       LoopGoto, LoopFrame, cvars, hist
  <2>7. CASE LoopReset(l)
    BY <2>7, <1>2, LoopActive DEF IInv, TypeOK, Orderly, Canceling, Active, LoopReset,
       LoopGoto, LoopFrame, cvars, hist
  <2>8. CASE LoopStopListening(l)
    BY <2>8, <1>2, LoopActive DEF IInv, TypeOK, Orderly, Canceling, Active,
       LoopStopListening, LoopServer, LoopGoto, LoopFrame, Touch, cvars, hist
  <2>9. CASE LoopDrained(l)
    BY <2>9, <1>2, LoopActive DEF IInv, TypeOK, Orderly, Canceling, Active, LoopDrained,
       LoopGoto, LoopFrame, cvars, hist
  <2>10. CASE LoopDelete(l)
    BY <2>10, <1>2, LoopActive DEF IInv, TypeOK, Orderly, Canceling, Active, LoopDelete,
       LoopServer, LoopGoto, LoopFrame, Touch, cvars, hist
  <2>11. CASE LoopNull(l)
    BY <2>11, <1>2, LoopActive DEF IInv, TypeOK, Orderly, Canceling, Active, LoopNull,
       LoopGoto, LoopFrame, cvars, hist
  <2> QED
    BY <1>2, <2>1, <2>2, <2>3, <2>4, <2>5, <2>6, <2>7, <2>8, <2>9, <2>10, <2>11 DEF LoopStep
<1>3. ASSUME Gives PROVE Canceling'
  <2>1. CASE Gives
    BY <2>1 DEF IInv, Orderly, Canceling, StoppedFlag, Active, Gives, GiveCommand,
       PushCommand, servers,
       lvars, cvars, hist
  <2> QED
    BY <1>3, <2>1 DEF Gives
<1> QED
  BY <1>1, <1>2, <1>3 DEF Step

\* A loop at server k finds it as it was made: the sweep changes that server,
\* and goes to the next or on.
LEMMA SweepFacts ==
  ASSUME IInv, crash = "no", ~overlap, NEW l \in Loops, LoopStopListening(l) \/ LoopDelete(l)
  PROVE  /\ crash' = crash /\ ptr' = ptr
         /\ li[l] \in 1 .. 3 /\ li' \in [Loops -> 1 .. 3]
         /\ \A x \in Kinds : Turn(x) = li[l] /\ ptr[x] # 0 => inst[x][ptr[x]] # "freed"
         /\ \A x \in Kinds : DOMAIN inst'[x] = DOMAIN inst[x]
         /\ \A x \in Kinds : \A i \in DOMAIN inst[x] :
              inst'[x][i] = IF Turn(x) = li[l] /\ i = ptr[x]
                            THEN (IF LoopDelete(l) THEN "freed" ELSE "stopped")
                            ELSE inst[x][i]
         /\ \/ li[l] < 3 /\ li'[l] = li[l] + 1 /\ lpc'[l] = lpc[l]
            \/ li[l] = 3 /\ li'[l] = 1 /\ lpc'[l] = IF LoopDelete(l) THEN "null" ELSE "drain"
<1>1. PICK k \in Kinds : k = StopOrder[li[l]] /\ Turn(k) = li[l]
  BY TypeParts, OrderFacts DEF IInv, Places
<1>2. PICK to \in {"stopped", "freed"} :
        to = IF LoopDelete(l) THEN "freed" ELSE "stopped"
  OBVIOUS
<1>3. lpc[l] = IF LoopDelete(l) THEN "join" ELSE "stop"
  BY DEF LoopDelete, LoopStopListening, LoopServer
<1>4. Touch(k, to)
  BY <1>1, <1>2 DEF LoopDelete, LoopStopListening, LoopServer
<1>5. l \in Active /\ Active = {l}
  BY <1>3, OnlyLoop DEF Active
<1>6. li[l] \in 1 .. 3 /\ li \in [Loops -> 1 .. 3] /\ Servers
  BY TypeParts DEF IInv, Places
<1>7. ptr[k] # 0 => inst[k][ptr[k]] # "freed"
  BY <1>1, <1>3, <1>5, <1>6 DEF IInv, Orderly, Pointed, PastDelete
<1>8. \A x \in Kinds : Turn(x) = li[l] => x = k
  BY <1>1, OrderFacts
<1>9. /\ crash' = crash
      /\ \A x \in Kinds : DOMAIN inst'[x] = DOMAIN inst[x]
      /\ \A x \in Kinds : x # k => inst'[x] = inst[x]
      /\ \A i \in DOMAIN inst[k] : inst'[k][i] = IF i = ptr[k] THEN to ELSE inst[k][i]
  <2>1. ptr[k] = 0 => 0 \notin DOMAIN inst[k]
    <3>1. inst[k] \in Seq({"listening", "stopped", "freed"})
      BY <1>6 DEF Servers
    <3> QED
      BY <3>1
  <2> QED
    BY <1>4, <1>6, <1>7, <2>1, TouchFacts
<1>10. /\ ptr' = ptr /\ li' \in [Loops -> 1 .. 3]
       /\ \/ li[l] < 3 /\ li'[l] = li[l] + 1 /\ lpc'[l] = lpc[l]
          \/ li[l] = 3 /\ li'[l] = 1 /\ lpc'[l] = IF LoopDelete(l) THEN "null" ELSE "drain"
  <2>1. lpc \in [Loops -> {"none", "while", "barrier", "size", "cancel", "reset", "stop",
                           "drain", "draincancel", "join", "null", "done"}]
    BY DEF IInv, TypeOK
  <2>2. CASE LoopDelete(l)
    BY <1>6, <2>1, <2>2, OrderFacts DEF LoopDelete, LoopServer, LoopGoto
  <2>3. CASE ~LoopDelete(l) /\ LoopStopListening(l)
    BY <1>6, <2>1, <2>3, OrderFacts DEF LoopStopListening, LoopServer, LoopGoto
  <2> QED
    BY <2>2, <2>3
<1> QED
  BY <1>1, <1>2, <1>6, <1>7, <1>8, <1>9, <1>10

\* A step that changes no server keeps the pointers right.
LEMMA SameServers ==
  ASSUME IInv, ~overlap, UNCHANGED <<lpc, li, ptr, inst>>
  PROVE  Pointed' /\ Unpointed'
<1>1. Pointed /\ Unpointed
  BY DEF IInv, Orderly
<1> QED
  BY <1>1 DEF Pointed, Unpointed, Active, PastStop, PastDelete

\* A server that is pointed to is freed by its loop only, at its turn.
LEMMA PointedStep ==
  ASSUME IInv, crash = "no", Step, ~overlap, ~overlap'
  PROVE  Pointed'
<1>1. ASSUME Messages PROVE Pointed'
  <2>1. CASE Starts
    BY <2>1, StartFacts, SameServers
  <2>2. CASE Stop
    BY <2>2, SameServers DEF Stop, servers, lvars
  <2>3. CASE Enable
    <3>1. CASE UNCHANGED <<ptr, inst>>
      BY <2>3, <3>1, EnableFacts, SameServers DEF IInv
    <3>2. ASSUME NEW k \in Kinds, ptr[k] = 0, \A i \in DOMAIN inst[k] : inst[k][i] = "freed",
                 inst' = [inst EXCEPT ![k] = Append(inst[k], "listening")],
                 ptr' = [ptr EXCEPT ![k] = Len(inst[k]) + 1]
          PROVE  Pointed'
      <4>1. inst[k] \in Seq({"listening", "stopped", "freed"})
        BY TypeParts DEF IInv, Servers
      <4>2. PICK q : q = Append(inst[k], "listening")
        OBVIOUS
      <4>3. /\ Len(inst[k]) \in Nat /\ DOMAIN inst[k] = 1 .. Len(inst[k])
            /\ DOMAIN q = 1 .. Len(inst[k]) + 1 /\ q[Len(inst[k]) + 1] = "listening"
            /\ \A i \in 1 .. Len(inst[k]) : q[i] = inst[k][i]
        BY <4>1, <4>2, AppendFacts
      <4>4. /\ inst'[k] = q /\ ptr'[k] = Len(inst[k]) + 1
            /\ \A x \in Kinds : x # k => inst'[x] = inst[x] /\ ptr'[x] = ptr[x]
        BY <3>2, <4>2, TypeParts DEF IInv, Servers
      <4>5. Active = {} /\ Active' = {}
        BY <2>3, EnableFacts DEF IInv, Orderly, Alone, Active
      <4> QED
        BY <2>3, <4>3, <4>4, <4>5 DEF IInv, Orderly, Pointed
    <3> QED
      BY <2>3, <3>1, <3>2, EnableFacts DEF IInv
  <2>4. CASE Launch
    <3>1. PICK n \in Loops : /\ \A l \in Loops : lpc[l] # "none" <=> l < n
                             /\ lpc' = [lpc EXCEPT ![n] = "while"]
                             /\ \/ mainLoop' = n /\ cpc' = "idle"
                                \/ mainLoop' = mainLoop /\ cpc' = "running"
      BY <2>4, LaunchFacts
    <3>2. Active = {}
      BY <2>4 DEF IInv, Orderly, Alone, Launch
    <3>3. \A l \in Loops : lpc'[l] = IF l = n THEN "while" ELSE lpc[l]
      BY <3>1 DEF IInv, TypeOK
    <3>4. n \in Active' /\ \A l \in Active' : l = n
      BY <3>2, <3>3 DEF Active
    <3>5. \A k \in Kinds : ~PastStop(n, k)' /\ ~PastDelete(n, k)'
      BY <3>3 DEF PastStop, PastDelete
    <3> QED
      BY <2>4, <3>2, <3>4, <3>5 DEF IInv, Orderly, Pointed, Launch, servers
  <2>5. CASE RunReturns
    BY <2>5, SameServers DEF RunReturns, servers, lvars, hist
  <2>6. CASE StopRunning
    BY <2>6, SameServers DEF StopRunning, StopFrame, servers, lvars
  <2>7. CASE StopCancel
    BY <2>7, SameServers DEF StopCancel, StopFrame, servers, lvars
  <2>8. CASE Join
    BY <2>8, SameServers DEF Join, StopFrame, servers, lvars
  <2> QED
    BY <1>1, <2>1, <2>2, <2>3, <2>4, <2>5, <2>6, <2>7, <2>8 DEF Messages
<1>2. ASSUME NEW l \in Loops, LoopStep(l) PROVE Pointed'
  <2>1. CASE LoopWhile(l)
    <3> SUFFICES ASSUME NEW k \in Kinds, ptr'[k] # 0
                 PROVE  /\ inst'[k][ptr'[k]] = "freed" <=> \E m \in Active' : PastDelete(m, k)'
                        /\ inst'[k][ptr'[k]] = "listening" => \A m \in Active' : ~PastStop(m, k)'
      BY DEF Pointed
    <3>1. Active = {l} /\ Orderly
      BY <1>2, LoopActive
    <3>2. ptr[k] # 0 =>
            /\ inst[k][ptr[k]] = "freed" <=> PastDelete(l, k)
            /\ inst[k][ptr[k]] = "listening" => ~PastStop(l, k)
      BY <3>1 DEF Orderly, Pointed
    <3>3. Turn(k) \in 1 .. 3
      BY OrderFacts
    <3>4. /\ UNCHANGED <<ptr, inst, li>>
          /\ PastDelete(l, k)' <=> PastDelete(l, k)
          /\ PastStop(l, k)' <=> PastStop(l, k)
      BY <2>1, <3>3 DEF IInv, TypeOK, AtFirst, PastDelete, PastStop, LoopWhile, LoopGoto
    <3>5. Active' = {l}
      BY <2>1, <1>2, LoopActive DEF IInv, TypeOK, LoopWhile, LoopGoto
    <3> QED
      BY <3>2, <3>4, <3>5
  <2>2. CASE LoopBarrier(l)
    <3> SUFFICES ASSUME NEW k \in Kinds, ptr'[k] # 0
                 PROVE  /\ inst'[k][ptr'[k]] = "freed" <=> \E m \in Active' : PastDelete(m, k)'
                        /\ inst'[k][ptr'[k]] = "listening" => \A m \in Active' : ~PastStop(m, k)'
      BY DEF Pointed
    <3>1. Active = {l} /\ Orderly
      BY <1>2, LoopActive
    <3>2. ptr[k] # 0 =>
            /\ inst[k][ptr[k]] = "freed" <=> PastDelete(l, k)
            /\ inst[k][ptr[k]] = "listening" => ~PastStop(l, k)
      BY <3>1 DEF Orderly, Pointed
    <3>3. Turn(k) \in 1 .. 3
      BY OrderFacts
    <3>4. /\ UNCHANGED <<ptr, inst, li>>
          /\ PastDelete(l, k)' <=> PastDelete(l, k)
          /\ PastStop(l, k)' <=> PastStop(l, k)
      BY <2>2, <3>3 DEF IInv, TypeOK, AtFirst, PastDelete, PastStop, LoopBarrier, LoopGoto
    <3>5. Active' = {l}
      BY <2>2, <1>2, LoopActive DEF IInv, TypeOK, LoopBarrier, LoopGoto
    <3> QED
      BY <3>2, <3>4, <3>5
  <2>3. CASE LoopEmpty(l)
    <3> SUFFICES ASSUME NEW k \in Kinds, ptr'[k] # 0
                 PROVE  /\ inst'[k][ptr'[k]] = "freed" <=> \E m \in Active' : PastDelete(m, k)'
                        /\ inst'[k][ptr'[k]] = "listening" => \A m \in Active' : ~PastStop(m, k)'
      BY DEF Pointed
    <3>1. Active = {l} /\ Orderly
      BY <1>2, LoopActive
    <3>2. ptr[k] # 0 =>
            /\ inst[k][ptr[k]] = "freed" <=> PastDelete(l, k)
            /\ inst[k][ptr[k]] = "listening" => ~PastStop(l, k)
      BY <3>1 DEF Orderly, Pointed
    <3>3. Turn(k) \in 1 .. 3
      BY OrderFacts
    <3>4. /\ UNCHANGED <<ptr, inst, li>>
          /\ PastDelete(l, k)' <=> PastDelete(l, k)
          /\ PastStop(l, k)' <=> PastStop(l, k)
      BY <2>3, <3>3 DEF IInv, TypeOK, AtFirst, PastDelete, PastStop, LoopEmpty, LoopGoto
    <3>5. Active' = {l}
      BY <2>3, <1>2, LoopActive DEF IInv, TypeOK, LoopEmpty, LoopGoto
    <3> QED
      BY <3>2, <3>4, <3>5
  <2>4. CASE LoopExecute(l)
    <3> SUFFICES ASSUME NEW k \in Kinds, ptr'[k] # 0
                 PROVE  /\ inst'[k][ptr'[k]] = "freed" <=> \E m \in Active' : PastDelete(m, k)'
                        /\ inst'[k][ptr'[k]] = "listening" => \A m \in Active' : ~PastStop(m, k)'
      BY DEF Pointed
    <3>1. Active = {l} /\ Orderly
      BY <1>2, LoopActive
    <3>2. ptr[k] # 0 =>
            /\ inst[k][ptr[k]] = "freed" <=> PastDelete(l, k)
            /\ inst[k][ptr[k]] = "listening" => ~PastStop(l, k)
      BY <3>1 DEF Orderly, Pointed
    <3>3. Turn(k) \in 1 .. 3
      BY OrderFacts
    <3>4. /\ UNCHANGED <<ptr, inst, li>>
          /\ PastDelete(l, k)' <=> PastDelete(l, k)
          /\ PastStop(l, k)' <=> PastStop(l, k)
      BY <2>4, <3>3 DEF IInv, TypeOK, AtFirst, PastDelete, PastStop, LoopExecute, LoopGoto
    <3>5. Active' = {l}
      BY <2>4, <1>2, LoopActive DEF IInv, TypeOK, LoopExecute, LoopGoto
    <3> QED
      BY <3>2, <3>4, <3>5
  <2>5. CASE LoopCancel(l)
    <3> SUFFICES ASSUME NEW k \in Kinds, ptr'[k] # 0
                 PROVE  /\ inst'[k][ptr'[k]] = "freed" <=> \E m \in Active' : PastDelete(m, k)'
                        /\ inst'[k][ptr'[k]] = "listening" => \A m \in Active' : ~PastStop(m, k)'
      BY DEF Pointed
    <3>1. Active = {l} /\ Orderly
      BY <1>2, LoopActive
    <3>2. ptr[k] # 0 =>
            /\ inst[k][ptr[k]] = "freed" <=> PastDelete(l, k)
            /\ inst[k][ptr[k]] = "listening" => ~PastStop(l, k)
      BY <3>1 DEF Orderly, Pointed
    <3>3. Turn(k) \in 1 .. 3
      BY OrderFacts
    <3>4. /\ UNCHANGED <<ptr, inst, li>>
          /\ PastDelete(l, k)' <=> PastDelete(l, k)
          /\ PastStop(l, k)' <=> PastStop(l, k)
      BY <2>5, <3>3 DEF IInv, TypeOK, AtFirst, PastDelete, PastStop, LoopCancel, LoopGoto
    <3>5. Active' = {l}
      BY <2>5, <1>2, LoopActive DEF IInv, TypeOK, LoopCancel, LoopGoto
    <3> QED
      BY <3>2, <3>4, <3>5
  <2>6. CASE LoopThrows(l)
    <3> SUFFICES ASSUME NEW k \in Kinds, ptr'[k] # 0
                 PROVE  /\ inst'[k][ptr'[k]] = "freed" <=> \E m \in Active' : PastDelete(m, k)'
                        /\ inst'[k][ptr'[k]] = "listening" => \A m \in Active' : ~PastStop(m, k)'
      BY DEF Pointed
    <3>1. Active = {l} /\ Orderly
      BY <1>2, LoopActive
    <3>2. ptr[k] # 0 =>
            /\ inst[k][ptr[k]] = "freed" <=> PastDelete(l, k)
            /\ inst[k][ptr[k]] = "listening" => ~PastStop(l, k)
      BY <3>1 DEF Orderly, Pointed
    <3>3. Turn(k) \in 1 .. 3
      BY OrderFacts
    <3>4. /\ UNCHANGED <<ptr, inst, li>>
          /\ PastDelete(l, k)' <=> PastDelete(l, k)
          /\ PastStop(l, k)' <=> PastStop(l, k)
      BY <2>6, <3>3 DEF IInv, TypeOK, AtFirst, PastDelete, PastStop, LoopThrows, LoopGoto
    <3>5. Active' = {l}
      BY <2>6, <1>2, LoopActive DEF IInv, TypeOK, LoopThrows, LoopGoto
    <3> QED
      BY <3>2, <3>4, <3>5
  <2>7. CASE LoopReset(l)
    <3> SUFFICES ASSUME NEW k \in Kinds, ptr'[k] # 0
                 PROVE  /\ inst'[k][ptr'[k]] = "freed" <=> \E m \in Active' : PastDelete(m, k)'
                        /\ inst'[k][ptr'[k]] = "listening" => \A m \in Active' : ~PastStop(m, k)'
      BY DEF Pointed
    <3>1. Active = {l} /\ Orderly
      BY <1>2, LoopActive
    <3>2. ptr[k] # 0 =>
            /\ inst[k][ptr[k]] = "freed" <=> PastDelete(l, k)
            /\ inst[k][ptr[k]] = "listening" => ~PastStop(l, k)
      BY <3>1 DEF Orderly, Pointed
    <3>3. Turn(k) \in 1 .. 3
      BY OrderFacts
    <3>4. /\ UNCHANGED <<ptr, inst, li>>
          /\ PastDelete(l, k)' <=> PastDelete(l, k)
          /\ PastStop(l, k)' <=> PastStop(l, k)
      <4>1. lpc[l] = "reset" /\ lpc'[l] = "stop" /\ UNCHANGED <<ptr, inst, li>>
        BY <2>7 DEF IInv, TypeOK, LoopReset, LoopGoto
      <4>2. li[l] = 1
        BY <4>1 DEF IInv, AtFirst
      <4> QED
        BY <3>3, <4>1, <4>2 DEF PastDelete, PastStop
    <3>5. Active' = {l}
      BY <2>7, <1>2, LoopActive DEF IInv, TypeOK, LoopReset, LoopGoto
    <3> QED
      BY <3>2, <3>4, <3>5
  <2>8. CASE LoopStopListening(l)
    <3> SUFFICES ASSUME NEW k \in Kinds, ptr'[k] # 0
                 PROVE  /\ inst'[k][ptr'[k]] = "freed" <=> \E m \in Active' : PastDelete(m, k)'
                        /\ inst'[k][ptr'[k]] = "listening" => \A m \in Active' : ~PastStop(m, k)'
      BY DEF Pointed
    <3>1. Active = {l} /\ Orderly
      BY <1>2, LoopActive
    <3>2. ptr[k] # 0 =>
            /\ inst[k][ptr[k]] = "freed" <=> PastDelete(l, k)
            /\ inst[k][ptr[k]] = "listening" => ~PastStop(l, k)
      BY <3>1 DEF Orderly, Pointed
    <3>3. Turn(k) \in 1 .. 3
      BY OrderFacts
    <3>4. /\ UNCHANGED ptr /\ ptr[k] \in DOMAIN inst[k]
          /\ inst'[k][ptr[k]] = IF Turn(k) = li[l] THEN "stopped" ELSE inst[k][ptr[k]]
          /\ Turn(k) = li[l] => inst[k][ptr[k]] # "freed"
          /\ li[l] \in 1 .. 3
          /\ \/ li[l] < 3 /\ li'[l] = li[l] + 1 /\ lpc'[l] = "stop"
             \/ li[l] = 3 /\ li'[l] = 1 /\ lpc'[l] = "drain"
      <4>1. lpc[l] = "stop" /\ (LoopDelete(l) <=> FALSE)
        BY <2>8 DEF LoopStopListening, LoopDelete, LoopServer
      <4>2. UNCHANGED ptr
        BY <2>8, SweepFacts
      <4>3. ptr[k] \in DOMAIN inst[k]
        <5>1. inst[k] \in Seq({"listening", "stopped", "freed"}) /\ ptr[k] \in 1 .. Len(inst[k])
          BY <4>2, TypeParts DEF IInv, Servers
        <5> QED
          BY <5>1
      <4> QED
        BY <2>8, <4>1, <4>2, <4>3, SweepFacts
    <3>5. Active' = {l} /\ lpc[l] = "stop"
      BY <2>8, <1>2, <3>4, LoopActive DEF LoopStopListening, LoopServer
    <3>6. inst'[k][ptr[k]] = "freed" <=> PastDelete(l, k)'
      BY <3>2, <3>3, <3>4, <3>5 DEF PastDelete
    <3>7. inst'[k][ptr[k]] = "listening" => ~PastStop(l, k)'
      BY <3>2, <3>3, <3>4, <3>5 DEF PastStop
    <3> QED
      BY <3>4, <3>5, <3>6, <3>7
  <2>9. CASE LoopDrained(l)
    <3> SUFFICES ASSUME NEW k \in Kinds, ptr'[k] # 0
                 PROVE  /\ inst'[k][ptr'[k]] = "freed" <=> \E m \in Active' : PastDelete(m, k)'
                        /\ inst'[k][ptr'[k]] = "listening" => \A m \in Active' : ~PastStop(m, k)'
      BY DEF Pointed
    <3>1. Active = {l} /\ Orderly
      BY <1>2, LoopActive
    <3>2. ptr[k] # 0 =>
            /\ inst[k][ptr[k]] = "freed" <=> PastDelete(l, k)
            /\ inst[k][ptr[k]] = "listening" => ~PastStop(l, k)
      BY <3>1 DEF Orderly, Pointed
    <3>3. Turn(k) \in 1 .. 3
      BY OrderFacts
    <3>4. /\ UNCHANGED <<ptr, inst, li>>
          /\ PastDelete(l, k)' <=> PastDelete(l, k)
          /\ PastStop(l, k)' <=> PastStop(l, k)
      <4>1. lpc[l] = "drain" /\ lpc'[l] = "join" /\ UNCHANGED <<ptr, inst, li>> /\ li[l] = 1
        BY <2>9 DEF IInv, TypeOK, AtFirst, LoopDrained, LoopGoto
      <4> QED
        BY <3>3, <4>1 DEF PastDelete, PastStop
    <3>5. Active' = {l}
      BY <2>9, <1>2, LoopActive DEF IInv, TypeOK, LoopDrained, LoopGoto
    <3> QED
      BY <3>2, <3>4, <3>5
  <2>10. CASE LoopDelete(l)
    <3> SUFFICES ASSUME NEW k \in Kinds, ptr'[k] # 0
                 PROVE  /\ inst'[k][ptr'[k]] = "freed" <=> \E m \in Active' : PastDelete(m, k)'
                        /\ inst'[k][ptr'[k]] = "listening" => \A m \in Active' : ~PastStop(m, k)'
      BY DEF Pointed
    <3>1. Active = {l} /\ Orderly
      BY <1>2, LoopActive
    <3>2. ptr[k] # 0 =>
            /\ inst[k][ptr[k]] = "freed" <=> PastDelete(l, k)
            /\ inst[k][ptr[k]] = "listening" => ~PastStop(l, k)
      BY <3>1 DEF Orderly, Pointed
    <3>3. Turn(k) \in 1 .. 3
      BY OrderFacts
    <3>4. /\ UNCHANGED ptr /\ ptr[k] \in DOMAIN inst[k]
          /\ inst'[k][ptr[k]] = IF Turn(k) = li[l] THEN "freed" ELSE inst[k][ptr[k]]
          /\ Turn(k) = li[l] => inst[k][ptr[k]] # "freed"
          /\ li[l] \in 1 .. 3
          /\ \/ li[l] < 3 /\ li'[l] = li[l] + 1 /\ lpc'[l] = "join"
             \/ li[l] = 3 /\ li'[l] = 1 /\ lpc'[l] = "null"
      <4>1. lpc[l] = "join" /\ (LoopDelete(l) <=> TRUE)
        BY <2>10 DEF LoopDelete, LoopServer
      <4>2. UNCHANGED ptr
        BY <2>10, SweepFacts
      <4>3. ptr[k] \in DOMAIN inst[k]
        <5>1. inst[k] \in Seq({"listening", "stopped", "freed"}) /\ ptr[k] \in 1 .. Len(inst[k])
          BY <4>2, TypeParts DEF IInv, Servers
        <5> QED
          BY <5>1
      <4> QED
        BY <2>10, <4>1, <4>2, <4>3, SweepFacts
    <3>5. Active' = {l} /\ lpc[l] = "join"
      BY <2>10, <1>2, <3>4, LoopActive DEF LoopDelete, LoopServer
    <3>6. inst'[k][ptr[k]] = "freed" <=> PastDelete(l, k)'
      BY <3>2, <3>3, <3>4, <3>5 DEF PastDelete
    <3>7. inst'[k][ptr[k]] = "listening" => ~PastStop(l, k)'
      BY <3>2, <3>3, <3>4, <3>5 DEF PastStop
    <3> QED
      BY <3>4, <3>5, <3>6, <3>7
  <2>11. CASE LoopNull(l)
    BY <2>11 DEF Pointed, LoopNull
  <2> QED
    BY <1>2, <2>1, <2>2, <2>3, <2>4, <2>5, <2>6, <2>7, <2>8, <2>9, <2>10, <2>11 DEF LoopStep
<1>3. ASSUME Gives PROVE Pointed'
  <2>1. CASE Gives
    BY <2>1, SameServers DEF Gives, GiveCommand, PushCommand, servers, lvars, cvars, hist
  <2> QED
    BY <1>3, <2>1 DEF Gives
<1> QED
  BY <1>1, <1>2, <1>3 DEF Step

\* A pointer is set to null, or to another server, when its server is freed.
LEMMA UnpointedStep ==
  ASSUME IInv, crash = "no", Step, ~overlap, ~overlap'
  PROVE  Unpointed'
<1>1. ASSUME Messages PROVE Unpointed'
  <2>1. CASE Starts
    BY <2>1, StartFacts DEF IInv, Orderly, Unpointed
  <2>2. CASE Stop
    BY <2>2 DEF IInv, Orderly, Unpointed, Stop, servers, lvars
  <2>3. CASE Enable
    <3>1. CASE UNCHANGED <<ptr, inst>>
      BY <2>3, <3>1, EnableFacts, SameServers DEF IInv
    <3>2. ASSUME NEW k \in Kinds, ptr[k] = 0, \A i \in DOMAIN inst[k] : inst[k][i] = "freed",
                 inst' = [inst EXCEPT ![k] = Append(inst[k], "listening")],
                 ptr' = [ptr EXCEPT ![k] = Len(inst[k]) + 1]
          PROVE  Unpointed'
      <4>1. inst[k] \in Seq({"listening", "stopped", "freed"})
        BY TypeParts DEF IInv, Servers
      <4>2. PICK q : q = Append(inst[k], "listening")
        OBVIOUS
      <4>3. /\ Len(inst[k]) \in Nat /\ DOMAIN inst[k] = 1 .. Len(inst[k])
            /\ DOMAIN q = 1 .. Len(inst[k]) + 1 /\ q[Len(inst[k]) + 1] = "listening"
            /\ \A i \in 1 .. Len(inst[k]) : q[i] = inst[k][i]
        BY <4>1, <4>2, AppendFacts
      <4>4. /\ inst'[k] = q /\ ptr'[k] = Len(inst[k]) + 1
            /\ \A x \in Kinds : x # k => inst'[x] = inst[x] /\ ptr'[x] = ptr[x]
        BY <3>2, <4>2, TypeParts DEF IInv, Servers
      <4> QED
        BY <3>2, <4>3, <4>4 DEF IInv, Orderly, Unpointed
    <3> QED
      BY <2>3, <3>1, <3>2, EnableFacts DEF IInv
  <2>4. CASE Launch
    BY <2>4 DEF IInv, Orderly, Unpointed, Launch, servers, hist
  <2>5. CASE RunReturns
    BY <2>5 DEF IInv, Orderly, Unpointed, RunReturns, servers, lvars, hist
  <2>6. CASE StopRunning
    BY <2>6 DEF IInv, Orderly, Unpointed, StopRunning, StopFrame, servers, lvars
  <2>7. CASE StopCancel
    BY <2>7 DEF IInv, Orderly, Unpointed, StopCancel, StopFrame, servers, lvars
  <2>8. CASE Join
    BY <2>8 DEF IInv, Orderly, Unpointed, Join, StopFrame, servers, lvars
  <2> QED
    BY <1>1, <2>1, <2>2, <2>3, <2>4, <2>5, <2>6, <2>7, <2>8 DEF Messages
<1>2. ASSUME NEW l \in Loops, LoopStep(l) PROVE Unpointed'
  <2>1. CASE LoopWhile(l)
    BY <2>1 DEF IInv, Orderly, Unpointed, LoopWhile, LoopGoto, LoopFrame, cvars, hist
  <2>2. CASE LoopBarrier(l)
    BY <2>2 DEF IInv, Orderly, Unpointed, LoopBarrier, LoopGoto, LoopFrame, cvars, hist
  <2>3. CASE LoopEmpty(l)
    BY <2>3 DEF IInv, Orderly, Unpointed, LoopEmpty, LoopGoto, LoopFrame, cvars, hist
  <2>4. CASE LoopExecute(l)
    BY <2>4 DEF IInv, Orderly, Unpointed, LoopExecute, LoopGoto, LoopFrame, cvars, hist
  <2>5. CASE LoopCancel(l)
    BY <2>5 DEF IInv, Orderly, Unpointed, LoopCancel, LoopGoto, LoopFrame, cvars, hist
  <2>6. CASE LoopThrows(l)
    BY <2>6 DEF IInv, Orderly, Unpointed, LoopThrows, LoopGoto, LoopFrame, cvars, hist
  <2>7. CASE LoopReset(l)
    BY <2>7 DEF IInv, Orderly, Unpointed, LoopReset, LoopGoto, LoopFrame, cvars, hist
  <2>8. CASE LoopStopListening(l)
    BY <2>8, SweepFacts DEF IInv, Orderly, Unpointed
  <2>9. CASE LoopDrained(l)
    BY <2>9 DEF IInv, Orderly, Unpointed, LoopDrained, LoopGoto, LoopFrame, cvars, hist
  <2>10. CASE LoopDelete(l)
    BY <2>10, SweepFacts DEF IInv, Orderly, Unpointed
  <2>11. CASE LoopNull(l)
    <3>1. Active = {l} /\ Pointed /\ Unpointed
      BY <2>11, <1>2, LoopActive DEF Orderly
    <3>2. \A k \in Kinds : \A i \in DOMAIN inst[k] : inst[k][i] = "freed"
      BY <2>11, <3>1 DEF Pointed, Unpointed, PastDelete, LoopNull, IInv, TypeOK
    <3> QED
      BY <2>11, <3>2 DEF Unpointed, LoopNull
  <2> QED
    BY <1>2, <2>1, <2>2, <2>3, <2>4, <2>5, <2>6, <2>7, <2>8, <2>9, <2>10, <2>11 DEF LoopStep
<1>3. ASSUME Gives PROVE Unpointed'
  <2>1. CASE Gives
    BY <2>1 DEF IInv, Orderly, Unpointed, Gives, GiveCommand, PushCommand, servers, lvars,
       cvars, hist
  <2> QED
    BY <1>3, <2>1 DEF Gives
<1> QED
  BY <1>1, <1>2, <1>3 DEF Step

\* So no freed server is used.
LEMMA FreedStep ==
  ASSUME IInv, crash = "no", Step, ~overlap, ~overlap'
  PROVE  crash' # "freed"
<1>1. ASSUME Messages PROVE crash' # "freed"
  <2>1. CASE Starts
    BY <2>1 DEF Starts, Start, servers, lvars
  <2>2. CASE Stop
    BY <2>2 DEF Stop, servers, lvars
  <2>3. CASE Enable
    BY <2>3, EnableFacts DEF IInv
  <2>4. CASE Launch
    BY <2>4 DEF Launch, servers, hist
  <2>5. CASE RunReturns
    BY <2>5 DEF RunReturns, servers, lvars, hist
  <2>6. CASE StopRunning
    BY <2>6 DEF StopRunning, StopFrame, servers, lvars
  <2>7. CASE StopCancel
    BY <2>7 DEF StopCancel, StopFrame, servers, lvars
  <2>8. CASE Join
    BY <2>8 DEF Join, StopFrame, servers, lvars
  <2> QED
    BY <1>1, <2>1, <2>2, <2>3, <2>4, <2>5, <2>6, <2>7, <2>8 DEF Messages
<1>2. ASSUME NEW l \in Loops, LoopStep(l) PROVE crash' # "freed"
  <2>1. CASE LoopWhile(l)
    BY <2>1 DEF LoopWhile, LoopGoto, LoopFrame, cvars, hist
  <2>2. CASE LoopBarrier(l)
    BY <2>2 DEF LoopBarrier, LoopGoto, LoopFrame, cvars, hist
  <2>3. CASE LoopEmpty(l)
    BY <2>3 DEF LoopEmpty, LoopGoto, LoopFrame, cvars, hist
  <2>4. CASE LoopExecute(l)
    BY <2>4 DEF LoopExecute, LoopGoto, LoopFrame, cvars, hist
  <2>5. CASE LoopCancel(l)
    BY <2>5 DEF LoopCancel, LoopGoto, LoopFrame, cvars, hist
  <2>6. CASE LoopThrows(l)
    BY <2>6 DEF LoopThrows, LoopGoto, LoopFrame, cvars, hist
  <2>7. CASE LoopReset(l)
    BY <2>7 DEF LoopReset, LoopGoto, LoopFrame, cvars, hist
  <2>8. CASE LoopStopListening(l)
    BY <2>8, SweepFacts
  <2>9. CASE LoopDrained(l)
    BY <2>9 DEF LoopDrained, LoopGoto, LoopFrame, cvars, hist
  <2>10. CASE LoopDelete(l)
    BY <2>10, SweepFacts
  <2>11. CASE LoopNull(l)
    BY <2>11 DEF LoopNull, LoopGoto, LoopFrame, cvars, hist
  <2> QED
    BY <1>2, <2>1, <2>2, <2>3, <2>4, <2>5, <2>6, <2>7, <2>8, <2>9, <2>10, <2>11 DEF LoopStep
<1>3. ASSUME Gives PROVE crash' # "freed"
  <2>1. CASE Gives
    BY <2>1 DEF Gives, GiveCommand, PushCommand, servers, lvars, cvars, hist
  <2> QED
    BY <1>3, <2>1 DEF Gives
<1> QED
  BY <1>1, <1>2, <1>3 DEF Step

\* A *-stop-* that returns has seen the loop end.
LEMMA NothingLeftStep ==
  ASSUME IInv, crash = "no", Step
  PROVE  NothingLeftAfterStop'
<1>1. ASSUME Messages PROVE NothingLeftAfterStop'
  <2>1. CASE Starts
    BY <2>1 DEF IInv, StoppedFlag, NothingLeftAfterStop, Starts, Start, servers, lvars
  <2>2. CASE Stop
    BY <2>2 DEF IInv, StoppedFlag, NothingLeftAfterStop, Stop, servers, lvars
  <2>3. CASE Enable
    BY <2>3, EnableFacts DEF IInv, StoppedFlag, NothingLeftAfterStop
  <2>4. CASE Launch
    BY <2>4 DEF IInv, StoppedFlag, NothingLeftAfterStop, Launch, servers, hist
  <2>5. CASE RunReturns
    BY <2>5 DEF IInv, StoppedFlag, NothingLeftAfterStop, RunReturns, servers, lvars, hist
  <2>6. CASE StopRunning
    BY <2>6 DEF IInv, StoppedFlag, NothingLeftAfterStop, StopRunning, StopFrame, servers,
       lvars
  <2>7. CASE StopCancel
    BY <2>7 DEF IInv, StoppedFlag, NothingLeftAfterStop, StopCancel, StopFrame, servers,
       lvars
  <2>8. CASE Join
    <3> SUFFICES ASSUME ~overlap'
                 PROVE  /\ Active' = {} /\ queue' = <<>> /\ ~running'
                        /\ \A k \in Kinds : ptr'[k] = 0
      BY DEF NothingLeftAfterStop
    <3>1. ~overlap /\ Orderly
      BY <2>8, OverlapGrows DEF IInv
    <3>2. Active = {}
      BY <2>8, <3>1, ServerNodeAssumption DEF Orderly, Alone, Active, Join, Loops
    <3>3. queue = <<>> /\ ~running /\ \A k \in Kinds : ptr[k] = 0
      BY <2>8, <3>1, <3>2 DEF IInv, Orderly, Idle, StoppedFlag, Join
    <3> QED
      BY <2>8, <3>2, <3>3 DEF Join, StopFrame, servers, lvars, Active
  <2> QED
    BY <1>1, <2>1, <2>2, <2>3, <2>4, <2>5, <2>6, <2>7, <2>8 DEF Messages
<1>2. ASSUME NEW l \in Loops, LoopStep(l) PROVE NothingLeftAfterStop'
  BY <1>2, LoopMoves DEF IInv, NothingLeftAfterStop
<1>3. ASSUME Gives PROVE NothingLeftAfterStop'
  <2> SUFFICES ASSUME stopped', ~overlap' PROVE FALSE
    BY DEF NothingLeftAfterStop
  <2>0. UNCHANGED <<stopped, overlap>>
    BY <1>3 DEF Gives, GiveCommand, PushCommand, hist
  <2>1. stopped /\ ~overlap
    BY <2>0
  <2>2. ptr["console"] = 0
    BY <2>1 DEF IInv, NothingLeftAfterStop, Kinds
  <2> QED
    BY <1>3, <2>1, <2>2, GivesFacts
<1> QED
  BY <1>1, <1>2, <1>3 DEF Step

\* A loop ends only after running() was turned off, or on a cancelled queue.
LEMMA RunningServesStep ==
  ASSUME IInv, crash = "no", Step
  PROVE  RunningServes'
<1>1. ASSUME Messages PROVE RunningServes'
  <2>1. CASE Starts
    <3> SUFFICES ASSUME ~overlap', cpc' = "idle", ~stale'
                 PROVE  \E l \in Loops : lpc'[l] \in {"while", "barrier", "size"}
      BY <2>1, StartFacts DEF RunningServes
    <3> QED
      BY <2>1, StartFacts DEF IInv, RunningServes
  <2>2. CASE Stop
    BY <2>2 DEF IInv, StoppedFlag, RunningServes, Stop, servers, lvars
  <2>3. CASE Enable
    BY <2>3, EnableFacts DEF IInv, RunningServes
  <2>4. CASE Launch
    <3>1. PICK n \in Loops : lpc' = [lpc EXCEPT ![n] = "while"]
      BY <2>4, LaunchFacts
    <3>2. lpc'[n] = "while"
      BY <3>1 DEF IInv, TypeOK
    <3> QED
      BY <3>2 DEF RunningServes
  <2>5. CASE RunReturns
    BY <2>5 DEF IInv, StoppedFlag, RunningServes, RunReturns, servers, lvars, hist
  <2>6. CASE StopRunning
    BY <2>6 DEF IInv, StoppedFlag, RunningServes, StopRunning, StopFrame, servers, lvars
  <2>7. CASE StopCancel
    BY <2>7 DEF IInv, StoppedFlag, RunningServes, StopCancel, StopFrame, servers, lvars
  <2>8. CASE Join
    BY <2>8 DEF IInv, StoppedFlag, RunningServes, Join, StopFrame, servers, lvars
  <2> QED
    BY <1>1, <2>1, <2>2, <2>3, <2>4, <2>5, <2>6, <2>7, <2>8 DEF Messages
<1>2. ASSUME NEW l \in Loops, LoopStep(l) PROVE RunningServes'
  <2> SUFFICES ASSUME running', cpc' \in {"idle", "running"}, ~stale', ~overlap'
               PROVE  lpc'[l] \in {"while", "barrier", "size"}
    BY <1>2 DEF RunningServes
  <2>1. running /\ cpc \in {"idle", "running"} /\ ~stale /\ ~overlap
    BY <1>2, LoopMoves
  <2>2. Active = {l} /\ Orderly
    BY <1>2, <2>1, LoopActive
  <2>3. lpc[l] \in {"while", "barrier", "size"} /\ ~canceled
    <3>1. PICK m \in Loops : lpc[m] \in {"while", "barrier", "size"}
      BY <2>1 DEF IInv, RunningServes
    <3>2. m = l
      BY <2>2, <3>1 DEF Active
    <3> QED
      BY <2>1, <2>2, <3>1, <3>2 DEF Orderly, Canceling
  <2>4. lpc \in [Loops -> {"none", "while", "barrier", "size", "cancel", "reset", "stop",
                           "drain", "draincancel", "join", "null", "done"}]
    BY DEF IInv, TypeOK
  <2> QED
    BY <1>2, <2>1, <2>3, <2>4 DEF LoopStep, LoopWhile, LoopBarrier, LoopEmpty, LoopExecute,
       LoopCancel, LoopThrows, LoopReset, LoopStopListening, LoopDrained, LoopDelete,
       LoopNull, LoopServer, LoopGoto
<1>3. ASSUME Gives PROVE RunningServes'
  <2>1. UNCHANGED <<running, cpc, stale, overlap, lpc>>
    BY <1>3 DEF Gives, GiveCommand, PushCommand, lvars, cvars, hist
  <2> QED
    BY <2>1 DEF IInv, RunningServes
<1> QED
  BY <1>1, <1>2, <1>3 DEF Step

-----------------------------------------------------------------------------
(* The theorems. *)

\* All of this together, as long as lives do not overlap.
LEMMA OrderlyStep ==
  ASSUME IInv, crash = "no", Step
  PROVE  ~overlap' => Orderly'
<1> SUFFICES ASSUME ~overlap' PROVE Orderly'
  OBVIOUS
<1>1. ~overlap
  BY OverlapGrows
<1> QED
  BY <1>1, AloneStep, IdleStep, PointedStep, UnpointedStep, DrainedStep, CancelingStep,
     FreedStep
     DEF Orderly

\* Every step keeps the invariant.
LEMMA NextInv == IInv /\ [Next]_vars => IInv'
<1> SUFFICES ASSUME IInv, [Next]_vars PROVE IInv'
  OBVIOUS
<1>1. CASE crash = "no" /\ Step
  BY <1>1, TypeStep, NumberedStep, AtFirstStep, StoppedFlagStep, OrderlyStep,
     NothingLeftStep,
     RunningServesStep DEF IInv
<1>2. CASE UNCHANGED vars
  <2> USE <1>2 DEF vars, servers, lvars, cvars, hist
  <2>1. TypeOK' /\ AtFirst' /\ StoppedFlag'
    BY DEF IInv, TypeOK, AtFirst, StoppedFlag
  <2>2. Numbered' /\ NothingLeftAfterStop' /\ RunningServes'
    BY DEF IInv, Numbered, NothingLeftAfterStop, RunningServes, Active
  <2>3. ASSUME Orderly PROVE Orderly'
    <3>1. Alone' /\ Idle' /\ Unpointed'
      BY <2>3 DEF Orderly, Alone, Idle, Unpointed, Active
    <3>2. Pointed'
      BY <2>3 DEF Orderly, Pointed, Active, PastStop, PastDelete
    <3>3. Drained' /\ Canceling'
      BY <2>3 DEF Orderly, Drained, Canceling, Active
    <3> QED
      BY <2>3, <3>1, <3>2, <3>3 DEF Orderly
  <2> QED
    BY <2>1, <2>2, <2>3 DEF IInv
<1> QED
  BY <1>1, <1>2 DEF Next, Finished, Step, Messages, Starts, CallStep, Gives

\* The inductive invariant holds in every reachable state.
LEMMA Invariant == Spec => []IInv
<1> QED
  BY InitInv, NextInv, PTL DEF Spec

\* However often the server is started and stopped, and whichever servers come
\* up, no NetworkServer is used after its delete, and every one that holds a
\* port is one of those that the three pointers name (CogServer.cc:80-252).
THEOREM PointersStayRight == Spec => []PointersRight
<1>1. IInv => PointersRight
  BY DEF IInv, Orderly, Unpointed, PointersRight, NoFreedServer, NoOrphanServer
<1> QED
  BY <1>1, Invariant, PTL

\* A *-stop-* that had to stop the server returns with the loop over, the
\* servers deleted and the queue empty (CogServerNode.cc, CogServer.h:101-104).
THEOREM StopLeavesNothing == Spec => []NothingLeftAfterStop
<1>1. IInv => NothingLeftAfterStop
  BY DEF IInv
<1> QED
  BY <1>1, Invariant, PTL

\* As long as running() says so some serverLoop() executes requests, unless the
\* queue was canceled at the start or a start met a loop (CogServer.h:89-91).
THEOREM RunningMeansServed == Spec => []RunningServes
<1>1. IInv => RunningServes
  BY DEF IInv
<1> QED
  BY <1>1, Invariant, PTL
=============================================================================
