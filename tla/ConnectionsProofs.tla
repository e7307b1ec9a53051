------------------------- MODULE ConnectionsProofs -------------------------
(***************************************************************************)
(* The connection limit and the registry of SocketManager, for any number  *)
(* of servers, any limit and any number of connections: the inductive      *)
(* invariant of Connections and the theorems that follow from it.          *)
(***************************************************************************)
EXTENDS Connections, FiniteSetTheorems, TLAPS

\* What a listener is setting up: the object is in the state that belongs to
\* the listener's place in listen(), and is the listener's own.
SetUp ==
  \A l \in Listeners :
    /\ lpc[l] = "waiting" => lsock[l] \in Socks /\ spc[lsock[l]] = "ctor" /\ owner[lsock[l]] = l
    /\ lpc[l] = "gotslot" => lsock[l] \in Socks /\ spc[lsock[l]] = "slot" /\ owner[lsock[l]] = l
    /\ lpc[l] = "registered" => lsock[l] \in Socks /\ spc[lsock[l]] = "listed" /\ owner[lsock[l]] = l

\* The inductive invariant: the count is exact, hence the limit holds.
IInv ==
  /\ TypeOK
  /\ SetUp
  /\ SlotsAccounted
  /\ OpenWithinLimit
  /\ NoLostWakeup
  /\ RegistryLive

-----------------------------------------------------------------------------
(* Counting sockets and listeners. *)

\* Adding a socket to a set of sockets, or taking one away, changes its
\* cardinality by one.
LEMMA SockCard ==
  ASSUME NEW S \in SUBSET Socks, NEW s \in Socks
  PROVE  /\ Cardinality(S) \in Nat
         /\ s \notin S => Cardinality(S \cup {s}) = Cardinality(S) + 1
         /\ s \in S => Cardinality(S \ {s}) = Cardinality(S) - 1
<1>1. IsFiniteSet(S)
  BY ConnectionsAssumption, FS_Subset
<1>2. Cardinality(S) \in Nat
  BY <1>1, FS_CardinalityType
<1>3. s \notin S => Cardinality(S \cup {s}) = Cardinality(S) + 1
  BY <1>1, FS_AddElement
<1>4. s \in S => Cardinality(S \ {s}) = Cardinality(S) - 1
  BY <1>1, FS_RemoveElement
<1> QED
  BY <1>2, <1>3, <1>4

\* The same for sets of listeners.
LEMMA ListenerCard ==
  ASSUME NEW S \in SUBSET Listeners, NEW l \in Listeners
  PROVE  /\ Cardinality(S) \in Nat
         /\ l \notin S => Cardinality(S \cup {l}) = Cardinality(S) + 1
<1>1. IsFiniteSet(S)
  BY ConnectionsAssumption, FS_Subset
<1>2. Cardinality(S) \in Nat
  BY <1>1, FS_CardinalityType
<1>3. l \notin S => Cardinality(S \cup {l}) = Cardinality(S) + 1
  BY <1>1, FS_AddElement
<1> QED
  BY <1>2, <1>3

\* The open sockets are among the live ones, so never more of them.
LEMMA OpenAmongLive ==
  /\ Cardinality(Open) \in Nat
  /\ Cardinality(Live) \in Nat
  /\ Cardinality(Unwound) \in Nat
  /\ Cardinality(Open) <= Cardinality(Live)
<1>1. IsFiniteSet(Live) /\ IsFiniteSet(Open) /\ IsFiniteSet(Unwound)
  BY ConnectionsAssumption, FS_Subset DEF Live, Open, Unwound
<1>2. Open \in SUBSET Live
  BY DEF Open, Live
<1> QED
  BY <1>1, <1>2, FS_Subset, FS_CardinalityType

-----------------------------------------------------------------------------
(* The inductive invariant. *)

\* Nobody is connected at the start.
LEMMA InitInv == Init => IInv
<1> SUFFICES ASSUME Init PROVE IInv
  OBVIOUS
<1>1. TypeOK
  BY ConnectionsAssumption DEF Init, TypeOK, ListenerPCs, SockStates, ConnStates, SrvPhases
<1>2. Live = {} /\ Open = {} /\ Unwound = {}
  BY DEF Init, Live, Open, Unwound
<1>3. SlotsAccounted /\ OpenWithinLimit
  BY <1>2, FS_EmptySet, ConnectionsAssumption DEF Init, SlotsAccounted, OpenWithinLimit
<1>4. SetUp /\ NoLostWakeup /\ RegistryLive
  BY DEF Init, SetUp, NoLostWakeup, RegistryLive
<1> QED
  BY <1>1, <1>3, <1>4 DEF IInv

\* A step that moves no socket into or out of the counted states keeps the
\* two facts about cardinalities.
LEMMA QuietStep ==
  ASSUME IInv, Live' = Live, Open' = Open, Unwound' = Unwound, numOpen' = numOpen
  PROVE  SlotsAccounted' /\ OpenWithinLimit'
  BY DEF IInv, SlotsAccounted, OpenWithinLimit

\* Neither does a step that leaves the listeners' places, the life of the
\* sockets and the state of the limit alone: only the types are at stake.
LEMMA FrameStep ==
  ASSUME IInv, TypeOK', UNCHANGED <<lpc, lsock, spc, owner, mvars>>
  PROVE  IInv'
<1>1. Live' = Live /\ Open' = Open /\ Unwound' = Unwound /\ numOpen' = numOpen
  BY DEF Live, Open, Unwound, mvars
<1>2. SlotsAccounted' /\ OpenWithinLimit'
  BY <1>1, QuietStep
<1>3. SetUp' /\ NoLostWakeup' /\ RegistryLive'
  BY DEF IInv, SetUp, NoLostWakeup, RegistryLive, mvars
<1> QED
  BY <1>2, <1>3 DEF IInv

\* The states in which a registered socket has a handler thread.
Handled == {"iwait", "idle", "quing", "close", "dtor"}

\* A handler thread that moves its own socket among those states.
LEMMA HandlerMove ==
  ASSUME IInv, TypeOK', NEW s \in Socks, NEW v \in Handled, spc[s] \in Handled,
         spc' = [spc EXCEPT ![s] = v],
         UNCHANGED <<lpc, lsock, owner, mvars>>
  PROVE  IInv'
<1>1. Live' = Live /\ Open' = Open /\ Unwound' = Unwound /\ numOpen' = numOpen
  BY DEF Live, Open, Unwound, mvars, Handled, IInv, TypeOK
<1>2. SlotsAccounted' /\ OpenWithinLimit'
  BY <1>1, QuietStep
<1>3. SetUp'
  BY DEF IInv, TypeOK, SetUp, Handled, mvars
<1>4. NoLostWakeup' /\ RegistryLive'
  BY DEF IInv, TypeOK, NoLostWakeup, RegistryLive, mvars, Handled
<1> QED
  BY <1>2, <1>3, <1>4 DEF IInv

\* A listener that moves between places where it sets up no socket.
LEMMA ListenerMove ==
  ASSUME IInv, NEW l \in Listeners,
         NEW v \in {"accept", "accepted", "checked", "ended", "cancelled"},
         lpc[l] \in {"accept", "accepted"},
         lpc' = [lpc EXCEPT ![l] = v],
         UNCHANGED <<running, lsock, cancelled, mvars, svars, srv>>
  PROVE  IInv'
<1>1. TypeOK'
  BY DEF IInv, TypeOK, ListenerPCs, mvars, svars
<1>2. Live' = Live /\ Open' = Open /\ Unwound' = Unwound /\ numOpen' = numOpen
  BY DEF Live, Open, Unwound, mvars, svars, IInv, TypeOK
<1>3. SlotsAccounted' /\ OpenWithinLimit'
  BY <1>2, QuietStep
<1>4. SetUp'
  BY DEF IInv, TypeOK, SetUp, svars
<1>5. NoLostWakeup' /\ RegistryLive'
  BY DEF IInv, NoLostWakeup, RegistryLive, mvars, svars
<1> QED
  BY <1>1, <1>3, <1>4, <1>5 DEF IInv

\* wait_available_slot(): the socket is counted whether it waits or not, and
\* is open only if the count, its own included, is within the limit.
LEMMA WaitSlotInv ==
  ASSUME IInv, NEW l \in Listeners, NEW s \in Socks, wait_available_slot(l, s)
  PROVE  IInv'
<1> USE DEF wait_available_slot
<1>1. TypeOK'
  BY DEF IInv, TypeOK, half_ping, ListenerPCs, SockStates, ConnStates
<1>2. SetUp'
  BY <1>1 DEF IInv, TypeOK, SetUp, SockStates
<1>3. /\ Unwound' = Unwound
      /\ Live' = Live \cup {s} /\ s \notin Live
  <2>1. PICK v \in {"waiting", "gotslot"} : lpc' = [lpc EXCEPT ![l] = v]
    OBVIOUS
  <2>2. PICK w \in {"ctor", "slot"} : spc' = [spc EXCEPT ![s] = w]
    OBVIOUS
  <2>3. Unwound' = Unwound
    BY <2>1 DEF IInv, TypeOK, Unwound
  <2> QED
    BY <2>2, <2>3 DEF IInv, TypeOK, Live
<1>4. SlotsAccounted'
  <2>1. Cardinality(Live') = Cardinality(Live) + 1
    BY <1>3, SockCard DEF Live
  <2>2. numOpen' = numOpen + 1 /\ Cardinality(Unwound') = Cardinality(Unwound)
    BY <1>3
  <2> QED
    BY <2>1, <2>2, OpenAmongLive DEF IInv, SlotsAccounted
<1>5. ASSUME MaxOpen < numOpen' PROVE OpenWithinLimit'
  <2>1. numOpen + 1 \in Nat
    BY DEF IInv, TypeOK
  <2>2. ~(numOpen' <= MaxOpen)
    BY <1>5, <2>1, ConnectionsAssumption
  <2>3. spc' = [spc EXCEPT ![s] = "ctor"] /\ spc[s] = "free"
    BY <2>2
  <2>4. Open' = Open
    BY <2>3 DEF IInv, TypeOK, Open
  <2> QED
    BY <2>4 DEF IInv, OpenWithinLimit
<1>6. ASSUME numOpen' <= MaxOpen PROVE OpenWithinLimit'
  <2>1. numOpen + 1 \in Nat
    BY DEF IInv, TypeOK
  <2>2. ~(MaxOpen < numOpen')
    BY <1>6, <2>1, ConnectionsAssumption
  <2>3. spc' = [spc EXCEPT ![s] = "slot"] /\ spc[s] = "free"
    BY <2>2
  <2>4. Open' = Open \cup {s} /\ s \notin Open
    BY <2>3 DEF IInv, TypeOK, Open
  <2>5. Cardinality(Open') = Cardinality(Open) + 1
    BY <2>4, SockCard DEF Open
  <2>6. Cardinality(Open) <= numOpen
    BY OpenAmongLive DEF IInv, SlotsAccounted
  <2> QED
    BY <1>6, <2>5, <2>6, OpenAmongLive, ConnectionsAssumption DEF IInv, TypeOK, OpenWithinLimit
<1>7. OpenWithinLimit'
  BY <1>5, <1>6, ConnectionsAssumption DEF IInv, TypeOK
<1>8. NoLostWakeup'
  BY ConnectionsAssumption DEF IInv, TypeOK, NoLostWakeup
<1>9. RegistryLive'
  BY DEF IInv, TypeOK, RegistryLive, SockStates
<1> QED
  BY <1>1, <1>2, <1>4, <1>7, <1>8, <1>9 DEF IInv

\* A woken listener: the only other way for a socket to become open.
LEMMA RewaitInv ==
  ASSUME IInv, NEW l \in Listeners, Rewait(l)
  PROVE  IInv'
<1> USE DEF Rewait
<1>1. TypeOK'
  BY DEF IInv, TypeOK, SetUp, ListenerPCs, SockStates
<1>2. lsock[l] \in Socks /\ spc[lsock[l]] = "ctor" /\ owner[lsock[l]] = l
  BY DEF IInv, SetUp
<1>3. SetUp'
  BY <1>2 DEF IInv, TypeOK, SetUp
<1>4. Live' = Live /\ Unwound' = Unwound /\ numOpen' = numOpen
  BY <1>2 DEF IInv, TypeOK, Live, Unwound
<1>5. SlotsAccounted'
  BY <1>4 DEF IInv, SlotsAccounted
<1>6. ASSUME MaxOpen < numOpen PROVE OpenWithinLimit'
  <2>1. ~(numOpen <= MaxOpen)
    BY <1>6, ConnectionsAssumption DEF IInv, TypeOK
  <2>2. spc' = spc
    BY <2>1
  <2>3. Open' = Open
    BY <2>2 DEF Open
  <2> QED
    BY <2>3 DEF IInv, OpenWithinLimit
<1>7. ASSUME numOpen <= MaxOpen PROVE OpenWithinLimit'
  <2>1. ~(MaxOpen < numOpen)
    BY <1>7, ConnectionsAssumption DEF IInv, TypeOK
  <2>2. spc' = [spc EXCEPT ![lsock[l]] = "slot"]
    BY <2>1
  <2>3. Open' = Open \cup {lsock[l]} /\ lsock[l] \notin Open
    BY <1>2, <2>2 DEF IInv, TypeOK, Open
  <2>4. Open \cup {lsock[l]} \in SUBSET Live
    BY <1>2 DEF Open, Live
  <2>5. Cardinality(Open') <= Cardinality(Live)
    BY <2>3, <2>4, FS_Subset, ConnectionsAssumption DEF Live
  <2> QED
    <3>1. MaxOpen \in Nat
      BY ConnectionsAssumption
    <3> QED
      BY <1>7, <2>5, OpenAmongLive, SockCard, <2>3, <1>2, <3>1
       DEF IInv, TypeOK, OpenWithinLimit, SlotsAccounted, Open
<1>8. OpenWithinLimit'
  BY <1>6, <1>7, ConnectionsAssumption DEF IInv, TypeOK
<1>9. NoLostWakeup'
  BY ConnectionsAssumption DEF IInv, TypeOK, NoLostWakeup
<1>10. RegistryLive'
  BY <1>2 DEF IInv, TypeOK, RegistryLive
<1> QED
  BY <1>1, <1>3, <1>5, <1>8, <1>9, <1>10 DEF IInv

\* set_connection() enters the socket in the registry as it becomes "listed".
LEMMA SetConnectionInv ==
  ASSUME IInv, NEW l \in Listeners, set_connection(l)
  PROVE  IInv'
<1> USE DEF set_connection
<1>1. TypeOK'
  BY DEF IInv, TypeOK, SetUp, ListenerPCs, SockStates
<1>2. lsock[l] \in Socks /\ spc[lsock[l]] = "slot" /\ owner[lsock[l]] = l
  BY DEF IInv, SetUp
<1>3. SetUp'
  BY <1>2 DEF IInv, TypeOK, SetUp
<1>4. Live' = Live /\ Open' = Open /\ Unwound' = Unwound /\ numOpen' = numOpen
  BY <1>2 DEF IInv, TypeOK, Live, Open, Unwound
<1>5. SlotsAccounted' /\ OpenWithinLimit'
  BY <1>4, QuietStep
<1>6. NoLostWakeup' /\ RegistryLive'
  BY <1>2 DEF IInv, TypeOK, NoLostWakeup, RegistryLive
<1> QED
  BY <1>1, <1>3, <1>5, <1>6 DEF IInv

\* The handler thread is started.
LEMMA SpawnHandlerInv ==
  ASSUME IInv, NEW l \in Listeners, SpawnHandler(l)
  PROVE  IInv'
<1> USE DEF SpawnHandler, mvars
<1>1. TypeOK'
  BY DEF IInv, TypeOK, SetUp, ListenerPCs, SockStates
<1>2. lsock[l] \in Socks /\ spc[lsock[l]] = "listed" /\ owner[lsock[l]] = l
  BY DEF IInv, SetUp
<1>3. SetUp'
  BY <1>2 DEF IInv, TypeOK, SetUp
<1>4. Live' = Live /\ Open' = Open /\ Unwound' = Unwound /\ numOpen' = numOpen
  BY <1>2 DEF IInv, TypeOK, Live, Open, Unwound
<1>5. SlotsAccounted' /\ OpenWithinLimit'
  BY <1>4, QuietStep
<1>6. NoLostWakeup' /\ RegistryLive'
  BY <1>2 DEF IInv, TypeOK, NoLostWakeup, RegistryLive
<1> QED
  BY <1>1, <1>3, <1>5, <1>6 DEF IInv

\* A cancelled wait: the object goes, but its slot stays counted, now on
\* account of the listener that was unwound.
LEMMA CancelledInWaitInv ==
  ASSUME IInv, NEW l \in Listeners, CancelledInWait(l)
  PROVE  IInv'
<1> USE DEF CancelledInWait
<1>1. TypeOK'
  BY DEF IInv, TypeOK, SetUp, ListenerPCs, SockStates, ConnStates
<1>2. lsock[l] \in Socks /\ spc[lsock[l]] = "ctor" /\ owner[lsock[l]] = l
  BY DEF IInv, SetUp
<1>3. SetUp'
  BY <1>2 DEF IInv, TypeOK, SetUp
<1>4. /\ Live' = Live \ {lsock[l]} /\ lsock[l] \in Live
      /\ Unwound' = Unwound \cup {l} /\ l \notin Unwound
      /\ Open' = Open
  BY <1>2 DEF IInv, TypeOK, Live, Unwound, Open
<1>5. SlotsAccounted'
  <2>1. Cardinality(Live') = Cardinality(Live) - 1
    BY <1>2, <1>4, SockCard DEF Live
  <2>2. Cardinality(Unwound') = Cardinality(Unwound) + 1
    BY <1>4, ListenerCard DEF Unwound
  <2> QED
    BY <2>1, <2>2, OpenAmongLive DEF IInv, SlotsAccounted
<1>6. OpenWithinLimit'
  BY <1>4 DEF IInv, OpenWithinLimit
<1>7. NoLostWakeup' /\ RegistryLive'
  BY <1>2 DEF IInv, TypeOK, NoLostWakeup, RegistryLive
<1> QED
  BY <1>1, <1>3, <1>5, <1>6, <1>7 DEF IInv

\* rem_sock() leaves the registry as the socket becomes "unlisted".
LEMMA RemSockInv ==
  ASSUME IInv, NEW s \in Socks, rem_sock(s)
  PROVE  IInv'
<1> USE DEF rem_sock, HandlerFrame, lvars
<1>1. TypeOK'
  BY DEF IInv, TypeOK, SockStates
<1>2. SetUp'
  BY DEF IInv, TypeOK, SetUp
<1>3. Live' = Live /\ Open' = Open /\ Unwound' = Unwound /\ numOpen' = numOpen
  BY DEF IInv, TypeOK, Live, Open, Unwound
<1>4. SlotsAccounted' /\ OpenWithinLimit'
  BY <1>3, QuietStep
<1>5. NoLostWakeup' /\ RegistryLive'
  BY DEF IInv, TypeOK, NoLostWakeup, RegistryLive
<1> QED
  BY <1>1, <1>2, <1>4, <1>5 DEF IInv

\* release_slot(): the count cannot go below zero, for it counts the socket
\* that is released.
LEMMA ReleaseSlotInv ==
  ASSUME IInv, NEW s \in Socks, release_slot(s)
  PROVE  IInv'
<1> USE DEF release_slot, lvars
<1>1. /\ Live' = Live \ {s} /\ s \in Live
      /\ Open' = Open \ {s} /\ s \in Open
      /\ Unwound' = Unwound
  BY DEF IInv, TypeOK, Live, Open, Unwound
<1>2. /\ Cardinality(Live') = Cardinality(Live) - 1
      /\ Cardinality(Open') = Cardinality(Open) - 1
      /\ Cardinality(Live') \in Nat
  BY <1>1, SockCard DEF Live, Open
<1>3. numOpen' \in Nat /\ SlotsAccounted'
  BY <1>1, <1>2, OpenAmongLive DEF IInv, SlotsAccounted
<1>4. OpenWithinLimit'
  BY <1>2, OpenAmongLive, ConnectionsAssumption DEF IInv, OpenWithinLimit
<1>5. TypeOK'
  BY <1>3 DEF IInv, TypeOK, SockStates, ConnStates
<1>6. SetUp'
  BY DEF IInv, TypeOK, SetUp
<1>7. NoLostWakeup' /\ RegistryLive'
  BY DEF IInv, TypeOK, NoLostWakeup, RegistryLive
<1> QED
  BY <1>3, <1>4, <1>5, <1>6, <1>7 DEF IInv

\* Every step keeps the invariant.
LEMMA NextInv == IInv /\ [Next]_vars => IInv'
<1> SUFFICES ASSUME IInv, [Next]_vars PROVE IInv'
  OBVIOUS
<1> USE DEF lvars, mvars, svars
<1>1. ASSUME NEW l \in Listeners, ListenerStep(l) PROVE IInv'
  <2>1. CASE CheckRunning(l)
    BY <2>1, ListenerMove DEF CheckRunning
  <2>2. CASE \E s \in Socks : wait_available_slot(l, s)
    BY <2>2, WaitSlotInv
  <2>3. CASE Rewait(l)
    BY <2>3, RewaitInv
  <2>4. CASE set_connection(l)
    BY <2>4, SetConnectionInv
  <2>5. CASE SpawnHandler(l)
    BY <2>5, SpawnHandlerInv
  <2>6. CASE CancelledInAccept(l)
    BY <2>6, ListenerMove DEF CancelledInAccept
  <2>7. CASE CancelledInWait(l)
    BY <2>7, CancelledInWaitInv
  <2> QED
    BY <1>1, <2>1, <2>2, <2>3, <2>4, <2>5, <2>6, <2>7 DEF ListenerStep
<1>2. ASSUME NEW s \in Socks, HandlerStep(s) PROVE IInv'
  <2>1. CASE LineDone(s)
    <3>1. TypeOK'
      BY <2>1 DEF LineDone, HandlerFrame, IInv, TypeOK, SockStates
    <3> QED
      BY <2>1, <3>1, HandlerMove DEF LineDone, HandlerFrame, Handled
  <2>2. CASE LineEndsSession(s)
    <3>1. TypeOK'
      BY <2>2 DEF LineEndsSession, HandlerFrame, IInv, TypeOK, SockStates
    <3> QED
      BY <2>2, <3>1, HandlerMove DEF LineEndsSession, HandlerFrame, Handled
  <2>3. CASE ReadError(s)
    <3>1. TypeOK'
      BY <2>3 DEF ReadError, HandlerFrame, IInv, TypeOK, SockStates
    <3> QED
      BY <2>3, <3>1, HandlerMove DEF ReadError, HandlerFrame, Handled
  <2>4. CASE DtorExit(s)
    <3>1. TypeOK'
      BY <2>4 DEF DtorExit, HandlerFrame, IInv, TypeOK, SockStates, ConnStates
    <3> QED
      BY <2>4, <3>1, HandlerMove DEF DtorExit, HandlerFrame, Handled
  <2>5. CASE rem_sock(s)
    BY <2>5, RemSockInv
  <2>6. CASE release_slot(s)
    BY <2>6, ReleaseSlotInv
  <2>7. CASE ReadOtherError(s)
    <3>1. TypeOK'
      BY <2>7 DEF ReadOtherError, HandlerFrame, IInv, TypeOK, SockStates, ConnStates
    <3> QED
      BY <2>7, <3>1, HandlerMove DEF ReadOtherError, HandlerFrame, Handled
  <2> QED
    BY <1>2, <2>1, <2>2, <2>3, <2>4, <2>5, <2>6, <2>7 DEF HandlerStep
<1>3. CASE ServerStep
  <2>1. UNCHANGED <<lpc, lsock, spc, owner, mvars>>
    BY <1>3 DEF ServerStep, StopFlag, network_gone, CancelListener, JoinListener, join_threads
  <2>2. TypeOK'
    <3>1. CASE StopFlag
      BY <3>1 DEF StopFlag, IInv, TypeOK, SrvPhases
    <3>2. CASE network_gone
      BY <3>2 DEF network_gone, IInv, TypeOK, SrvPhases, ConnStates
    <3>3. CASE CancelListener
      BY <3>3 DEF CancelListener, IInv, TypeOK, SrvPhases
    <3>4. CASE JoinListener
      BY <3>4 DEF JoinListener, IInv, TypeOK, SrvPhases
    <3>5. CASE join_threads
      BY <3>5 DEF join_threads, IInv, TypeOK, SrvPhases
    <3> QED
      BY <1>3, <3>1, <3>2, <3>3, <3>4, <3>5 DEF ServerStep
  <2> QED
    BY <2>1, <2>2, FrameStep
<1>4. CASE Environment
  <2>1. ASSUME NEW l \in Listeners, Accept(l) PROVE IInv'
    BY <2>1, ListenerMove DEF Accept
  <2>2. ASSUME NEW s \in Socks, ReadLine(s) PROVE IInv'
    <3>1. TypeOK'
      BY <2>2 DEF ReadLine, HandlerFrame, IInv, TypeOK, SockStates
    <3> QED
      BY <2>2, <3>1, HandlerMove DEF ReadLine, HandlerFrame, Handled
  <2>3. ASSUME NEW s \in Socks, GoIdle(s) PROVE IInv'
    <3>1. TypeOK'
      BY <2>3 DEF GoIdle, HandlerFrame, IInv, TypeOK, SockStates
    <3> QED
      BY <2>3, <3>1, HandlerMove DEF GoIdle, HandlerFrame, Handled
  <2>4. ASSUME NEW s \in Socks, ClientClose(s) \/ ClientVanish(s) \/ kill(s) PROVE IInv'
    <3>1. TypeOK'
      BY <2>4 DEF ClientClose, ClientVanish, kill, IInv, TypeOK, ConnStates
    <3>2. UNCHANGED <<lpc, lsock, spc, owner, mvars>>
      BY <2>4 DEF ClientClose, ClientVanish, kill
    <3> QED
      BY <3>1, <3>2, FrameStep
  <2>5. CASE display_stats
    <3>1. TypeOK'
      BY <2>5 DEF display_stats, half_ping, IInv, TypeOK, ConnStates
    <3> QED
      BY <2>5, <3>1, FrameStep DEF display_stats
  <2>6. CASE BeginShutdown
    <3>1. TypeOK'
      BY <2>6 DEF BeginShutdown, IInv, TypeOK, SrvPhases
    <3> QED
      BY <2>6, <3>1, FrameStep DEF BeginShutdown
  <2>7. ASSUME NEW s \in Socks, WorkEnds(s) PROVE IInv'
    <3>1. TypeOK'
      BY <2>7 DEF WorkEnds, HandlerFrame, IInv, TypeOK
    <3> QED
      BY <2>7, <3>1, FrameStep DEF WorkEnds, HandlerFrame
  <2> QED
    BY <1>4, <2>1, <2>2, <2>3, <2>4, <2>5, <2>6, <2>7 DEF Environment
<1>5. CASE Terminated \/ UNCHANGED vars
  <2>1. TypeOK'
    BY <1>5 DEF Terminated, vars, IInv, TypeOK
  <2> QED
    BY <1>5, <2>1, FrameStep DEF Terminated, vars
<1> QED
  BY <1>1, <1>2, <1>3, <1>4, <1>5 DEF Next

\* The inductive invariant holds in every reachable state.
LEMMA InvHolds == Spec => []IInv
<1> QED
  BY InitInv, NextInv, PTL DEF Spec

-----------------------------------------------------------------------------
(* What follows from it. *)

\* Type correctness.  It rests on the accounting of the slots: without it
\* _num_open_sockets, which is unsigned, could wrap below zero.
THEOREM TypeCorrect == Spec => []TypeOK
<1>1. IInv => TypeOK
  BY DEF IInv
<1> QED
  BY <1>1, InvHolds, PTL

\* The connection limit of set_max_open_sockets() holds for every number of
\* servers and every limit.
THEOREM LimitHolds == Spec => []OpenWithinLimit
<1>1. IInv => OpenWithinLimit
  BY DEF IInv
<1> QED
  BY <1>1, InvHolds, PTL

\* _num_open_sockets is exact through constructors, destructors and
\* cancelled waits.
THEOREM CountExact == Spec => []SlotsAccounted
<1>1. IInv => SlotsAccounted
  BY DEF IInv
<1> QED
  BY <1>1, InvHolds, PTL

\* No listener sleeps on _max_cv while a slot is free.
THEOREM NoWakeupLost == Spec => []NoLostWakeup
<1>1. IInv => NoLostWakeup
  BY DEF IInv
<1> QED
  BY <1>1, InvHolds, PTL

\* _sock_list never holds a pointer to a destroyed or unconnected socket.
THEOREM RegistryCorrect == Spec => []RegistryLive
<1>1. IInv => RegistryLive
  BY DEF IInv
<1> QED
  BY <1>1, InvHolds, PTL

-----------------------------------------------------------------------------
(* The shutdown joins every thread. *)

\* A socket that exists belongs to the server whose listener made it.
Owned == \A s \in Socks : spc[s] # "free" => owner[s] \in Listeners

\* stop_listening() has seen the listeners of the servers before srv.at end;
\* join_threads() comes after all of them, and has seen the sockets of the
\* servers before srv.at go.
StopProgress ==
  /\ srv.phase = "loop" => srv.at = 1
  /\ srv.phase \in {"flag", "gone", "cancel", "join"} =>
       \A i \in DOMAIN StopOrder : i < srv.at => ListenerEnded(StopOrder[i])
  /\ srv.phase \in {"joinh", "done"} => \A l \in Listeners : ListenerEnded(l)
  /\ srv.phase = "joinh" =>
       \A i \in DOMAIN StopOrder : i < srv.at =>
         \A s \in Socks : spc[s] # "free" => owner[s] # StopOrder[i]
  /\ srv.phase = "done" => \A s \in Socks : spc[s] = "free"

JoinInv == Owned /\ StopProgress

\* No socket and no stop at first.
LEMMA InitJoin == Init => JoinInv
<1> SUFFICES ASSUME Init PROVE JoinInv
  OBVIOUS
<1>1. Owned
  BY DEF Init, Owned
<1> QED
  BY <1>1 DEF Init, JoinInv, StopProgress

\* The order in which the servers are stopped.
LEMMA StopOrderFacts ==
  /\ Len(StopOrder) \in Nat /\ DOMAIN StopOrder = 1 .. Len(StopOrder)
  /\ \A i \in DOMAIN StopOrder : StopOrder[i] \in Listeners
  /\ \A l \in Listeners : \E i \in DOMAIN StopOrder : StopOrder[i] = l
<1>1. StopOrder \in Seq(Listeners)
  BY ConnectionsAssumption
<1> QED
  BY <1>1, ConnectionsAssumption

\* A listener that has ended stays so, and makes no more sockets; the sockets
\* that are left keep their server.
Ending ==
  /\ Owned'
  /\ \A l \in Listeners : ListenerEnded(l) => ListenerEnded(l)'
  /\ (\A l \in Listeners : ListenerEnded(l)) =>
       \A s \in Socks : spc'[s] # "free" => spc[s] # "free" /\ owner'[s] = owner[s]

\* A listener that has ended stays so and makes no socket.
LEMMA EndedStay ==
  ASSUME IInv, Owned, [Next]_vars
  PROVE  Ending
<1> USE DEF Ending, ListenerEnded
<1>1. ASSUME UNCHANGED <<lpc, spc, owner>> PROVE Ending
  BY <1>1 DEF Owned
<1>2. ASSUME NEW l \in Listeners, ListenerStep(l) PROVE Ending
  <2>1. CASE CheckRunning(l) \/ CancelledInAccept(l)
    BY <2>1 DEF CheckRunning, CancelledInAccept, svars, IInv, TypeOK, Owned
  <2>2. ASSUME NEW s \in Socks, wait_available_slot(l, s) PROVE Ending
    <3>1. lpc[l] = "checked" /\ owner' = [owner EXCEPT ![s] = l] /\ spc[s] = "free"
      BY <2>2 DEF wait_available_slot
    <3>2. PICK v, w : lpc' = [lpc EXCEPT ![l] = v] /\ spc' = [spc EXCEPT ![s] = w]
      BY <2>2 DEF wait_available_slot
    <3> QED
      BY <3>1, <3>2 DEF IInv, TypeOK, Owned
  <2>3. CASE Rewait(l) \/ set_connection(l) \/ SpawnHandler(l)
    <3>1. /\ lpc[l] \in {"waiting", "gotslot", "registered"}
          /\ lsock[l] \in Socks /\ spc[lsock[l]] # "free" /\ owner' = owner
      BY <2>3 DEF Rewait, set_connection, SpawnHandler, IInv, SetUp
    <3>2. \/ UNCHANGED <<lpc, spc>>
          \/ \E v \in ListenerPCs, w \in SockStates :
               lpc' = [lpc EXCEPT ![l] = v] /\ spc' = [spc EXCEPT ![lsock[l]] = w]
      BY <2>3 DEF Rewait, set_connection, SpawnHandler, ListenerPCs, SockStates
    <3> QED
      BY <3>1, <3>2 DEF IInv, TypeOK, Owned
  <2>4. CASE CancelledInWait(l)
    BY <2>4 DEF CancelledInWait, IInv, TypeOK, SetUp, Owned
  <2> QED
    BY <1>2, <2>1, <2>2, <2>3, <2>4 DEF ListenerStep
<1>3. ASSUME NEW s \in Socks, HandlerStep(s) \/ ReadLine(s) \/ GoIdle(s) PROVE Ending
  <2>1. CASE release_slot(s)
    BY <2>1 DEF release_slot, lvars, IInv, TypeOK, Owned
  <2>2. CASE ~release_slot(s)
    <3>1. spc[s] # "free" /\ UNCHANGED <<lpc, owner>>
      BY <1>3, <2>2 DEF HandlerStep, LineDone, LineEndsSession, ReadError, ReadOtherError,
         DtorExit, rem_sock,
         ReadLine, GoIdle, HandlerFrame, lvars
    <3>2. PICK w : spc' = [spc EXCEPT ![s] = w]
      BY <1>3, <2>2 DEF HandlerStep, LineDone, LineEndsSession, ReadError, ReadOtherError,
         DtorExit, rem_sock,
         ReadLine, GoIdle
    <3> QED
      BY <3>1, <3>2 DEF IInv, TypeOK, Owned
  <2> QED
    BY <2>1, <2>2
<1>4. ASSUME NEW l \in Listeners, Accept(l) PROVE Ending
  BY <1>4 DEF Accept, svars, IInv, TypeOK, Owned
<1>5. CASE ServerStep \/ Terminated \/ UNCHANGED vars
  BY <1>1, <1>5 DEF ServerStep, StopFlag, network_gone, CancelListener, JoinListener,
     join_threads, Terminated, vars, lvars, svars
<1>6. CASE Environment
  <2>1. ASSUME NEW s \in Socks, ClientClose(s) \/ ClientVanish(s) \/ kill(s) PROVE Ending
    BY <1>1, <2>1 DEF ClientClose, ClientVanish, kill, lvars
  <2>3. ASSUME NEW s \in Socks, WorkEnds(s) PROVE Ending
    BY <1>1, <2>3 DEF WorkEnds, HandlerFrame, lvars
  <2>2. CASE display_stats \/ BeginShutdown
    BY <1>1, <2>2 DEF display_stats, BeginShutdown, lvars, svars
  <2> QED
    BY <1>3, <1>4, <1>6, <2>1, <2>2, <2>3 DEF Environment
<1> QED
  BY <1>2, <1>3, <1>5, <1>6 DEF Next

\* serverLoop() goes from server to server, and from the listeners to the
\* handler threads.
LEMMA StopStep ==
  ASSUME IInv, JoinInv, [Next]_vars
  PROVE  StopProgress'
<1>1. Ending /\ srv \in [phase : SrvPhases, at : Nat]
  BY EndedStay DEF JoinInv, IInv, TypeOK
<1>2. CASE UNCHANGED srv
  BY <1>1, <1>2, StopOrderFacts DEF JoinInv, StopProgress, Ending
<1>3. CASE BeginShutdown
  <2>1. srv.phase = "loop" /\ srv'.phase = "flag" /\ srv'.at = srv.at
    BY <1>1, <1>3 DEF BeginShutdown
  <2>2. srv.at = 1
    BY <2>1 DEF JoinInv, StopProgress
  <2> QED
    BY <2>1, <2>2, StopOrderFacts DEF StopProgress
<1>4. CASE StopFlag \/ network_gone \/ CancelListener
  <2>1. /\ srv.phase \in {"flag", "gone", "cancel"} /\ srv'.phase \in {"gone", "cancel", "join"}
        /\ srv'.at = srv.at
    BY <1>1, <1>4 DEF StopFlag, network_gone, CancelListener
  <2> QED
    BY <1>1, <2>1, StopOrderFacts DEF JoinInv, StopProgress, Ending
<1>5. CASE JoinListener
  <2>1. \A i \in DOMAIN StopOrder : i <= srv.at => ListenerEnded(StopOrder[i])
    BY <1>1, <1>5, StopOrderFacts DEF JoinInv, StopProgress, JoinListener, Current
  <2>2. CASE srv.at < Len(StopOrder)
    <3>1. srv'.phase = "flag" /\ srv'.at = srv.at + 1
      BY <1>5, <2>2 DEF JoinListener
    <3> QED
      BY <1>1, <2>1, <3>1, StopOrderFacts DEF StopProgress, Ending
  <2>3. CASE ~(srv.at < Len(StopOrder))
    <3>1. srv'.phase = "joinh" /\ srv'.at = 1
      BY <1>5, <2>3 DEF JoinListener
    <3>2. \A l \in Listeners : ListenerEnded(l)
      BY <1>1, <2>1, <2>3, StopOrderFacts
    <3> QED
      BY <1>1, <3>1, <3>2, StopOrderFacts DEF StopProgress, Ending
  <2> QED
    BY <2>2, <2>3
<1>6. CASE join_threads
  <2>1. /\ \A l \in Listeners : ListenerEnded(l)
        /\ \A i \in DOMAIN StopOrder : i <= srv.at =>
             \A s \in Socks : spc[s] # "free" => owner[s] # StopOrder[i]
    BY <1>1, <1>6, StopOrderFacts DEF JoinInv, StopProgress, join_threads, Current
  <2>2. UNCHANGED <<lpc, spc, owner>>
    BY <1>6 DEF join_threads, lvars, svars
  <2>3. CASE srv.at < Len(StopOrder)
    <3>1. srv'.phase = "joinh" /\ srv'.at = srv.at + 1
      BY <1>1, <1>6, <2>3 DEF join_threads
    <3> QED
      BY <1>1, <2>1, <2>2, <3>1, StopOrderFacts DEF StopProgress, ListenerEnded
  <2>4. CASE ~(srv.at < Len(StopOrder))
    <3>1. srv'.phase = "done"
      BY <1>6, <2>4 DEF join_threads
    <3>2. \A s \in Socks : spc[s] = "free"
      BY <1>1, <2>1, <2>4, StopOrderFacts DEF JoinInv, Owned
    <3> QED
      BY <2>1, <2>2, <3>1, <3>2 DEF StopProgress, ListenerEnded
  <2> QED
    BY <2>3, <2>4
<1>7. UNCHANGED srv \/ BeginShutdown \/ ServerStep
  <2>1. ASSUME NEW l \in Listeners, ListenerStep(l) \/ Accept(l) PROVE UNCHANGED srv
    BY <2>1 DEF ListenerStep, Accept, CheckRunning, wait_available_slot, Rewait,
       set_connection, SpawnHandler, CancelledInAccept, CancelledInWait
  <2>2. ASSUME NEW s \in Socks,
               \/ HandlerStep(s) \/ ReadLine(s) \/ GoIdle(s) \/ WorkEnds(s)
               \/ ClientClose(s) \/ ClientVanish(s) \/ kill(s)
        PROVE  UNCHANGED srv
    BY <2>2 DEF HandlerStep, LineDone, LineEndsSession, ReadError, ReadOtherError,
         DtorExit, rem_sock,
       release_slot, ReadLine, GoIdle, WorkEnds, ClientClose, ClientVanish, kill, HandlerFrame
  <2>3. display_stats \/ Terminated \/ UNCHANGED vars => UNCHANGED srv
    BY DEF display_stats, Terminated, vars
  <2> QED
    BY <2>1, <2>2, <2>3 DEF Next, Environment
<1> QED
  BY <1>2, <1>3, <1>4, <1>5, <1>6, <1>7 DEF ServerStep

\* When serverLoop() returns, every listener thread and every handler thread
\* has ended, whatever the listeners were doing when they were cancelled and
\* however many servers there are (NetworkServer.cc:105-107).
THEOREM AllThreadsJoined == Spec => []AllJoinedAtReturn
<1>1. IInv /\ JoinInv /\ [Next]_vars => JoinInv'
  BY EndedStay, StopStep DEF JoinInv, Ending
<1>2. JoinInv => AllJoinedAtReturn
  BY DEF JoinInv, StopProgress, AllJoinedAtReturn, Live
<1> QED
  BY <1>1, <1>2, InitJoin, InvHolds, PTL DEF Spec

=============================================================================
