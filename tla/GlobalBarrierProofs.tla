------------------------ MODULE GlobalBarrierProofs ------------------------
(***************************************************************************)
(* global_barrier() for any number of sockets and any commands: the state  *)
(* of concurrent barriers makes sense, work is held back only while one is *)
(* under way, and a barrier that is past its scan has seen every other     *)
(* queue drained.                                                          *)
(***************************************************************************)
EXTENDS GlobalBarrier, TLAPS

\* Lines are read, pushed, popped and evaluated in turn; how many of each
\* follows from where the two threads of the socket are.
CountersOf(s) ==
  /\ popped[s] <= pushed[s] /\ sent[s] <= Len(Script[s])
  /\ pushed[s] = (IF hpc[s] = "read" THEN sent[s] ELSE sent[s] - 1)
  /\ evaluated[s] = (IF epc[s] = "loop" THEN popped[s] ELSE popped[s] - 1)

Counters ==
  /\ hpc \in [Socks -> {"read", "test", "blocked", "push"}]
  /\ epc \in [Socks -> EvalPCs]
  /\ sent \in [Socks -> Nat] /\ pushed \in [Socks -> Nat]
  /\ popped \in [Socks -> Nat] /\ evaluated \in [Socks -> Nat]
  /\ \A s \in Socks : CountersOf(s)

BarrierTypes ==
  /\ evalDone \in [Socks -> BOOLEAN] /\ inBarrier \in [Socks -> BOOLEAN]
  /\ active \in BOOLEAN /\ sockLock \in Socks \cup {None}
  /\ checked \subseteq Socks /\ skipped \in [Socks -> SUBSET Socks]
  /\ before \in [Socks -> [Socks -> Nat]]
  /\ exposed \subseteq Socks

\* A socket is marked just between Mark() and Unmark().
MarkedInBarrier ==
  \A s \in Socks : inBarrier[s] <=> epc[s] \in {"activate", "pass", "scan", "unmark"}

\* A scan, and the release of the barrier, run under _sock_lock.
ScanLocked == \A s \in Socks : epc[s] \in {"scan", "release"} => sockLock = s

\* What was pushed when a barrier became active has been pushed now.
SnapshotsOld == \A s, x \in Socks : before[s][x] <= pushed[x]

\* What the scan has gone over it has skipped or found drained.
ScanSound ==
  \A s \in Socks : epc[s] = "scan" =>
    \A x \in checked \ skipped[s] : before[s][x] <= popped[x]

\* The barriers for which the flag has been set since they began.
Holding(s) ==
  epc[s] \in {"pass", "scan", "unmark", "lastout", "release"} /\ s \notin exposed

\* A line past block_on_bar() was there when such a barrier began, and nothing has
\* been pushed in its shell since.
LateLine ==
  \A s, x \in Socks : Holding(s) /\ hpc[x] = "push" => pushed[x] = before[s][x]

IInv ==
  /\ Counters
  /\ BarrierTypes
  /\ MarkedInBarrier
  /\ ScanLocked
  /\ SnapshotsOld
  /\ ScanSound
  /\ HeldOnlyByBarrier
  /\ QueuesDrained
  /\ LateLine
  /\ HeldBack

\* A script has a length.
LEMMA LengthsNat == \A s \in Socks : Len(Script[s]) \in Nat
<1> SUFFICES ASSUME NEW s \in Socks PROVE Len(Script[s]) \in Nat
  OBVIOUS
<1>1. Script[s] \in Seq({"work", "bar", "sync"})
  BY GlobalBarrierAssumption
<1> QED
  BY <1>1

\* The two parts of the invariant that say what kind of value a variable has.
LEMMA TypesFollow == Counters /\ BarrierTypes => TypeOK
<1> SUFFICES ASSUME Counters, BarrierTypes PROVE TypeOK
  OBVIOUS
<1>1. ASSUME NEW s \in Socks
      PROVE  evaluated[s] <= popped[s] /\ popped[s] <= pushed[s]
               /\ pushed[s] <= sent[s] /\ sent[s] <= Len(Script[s])
  <2>1. /\ popped[s] \in Nat /\ evaluated[s] \in Nat /\ pushed[s] \in Nat /\ sent[s] \in Nat
        /\ CountersOf(s)
    BY DEF Counters
  <2> QED
    BY <2>1 DEF CountersOf
<1> QED
  BY <1>1 DEF Counters, BarrierTypes, TypeOK

\* The invariant holds when nothing has been sent.
LEMMA InitInv == Init => IInv
<1> SUFFICES ASSUME Init PROVE IInv
  OBVIOUS
<1>1. BarrierTypes
  BY Zenon DEF Init, BarrierTypes
<1>2. Counters
  BY LengthsNat DEF Init, Counters, CountersOf, EvalPCs
<1>3. SnapshotsOld
  BY DEF Init, SnapshotsOld
<1> QED
  BY <1>1, <1>2, <1>3 DEF Init, IInv, MarkedInBarrier, ScanLocked, ScanSound,
                          HeldOnlyByBarrier, QueuesDrained, PastScan, LateLine,
                          Holding, HeldBack

-----------------------------------------------------------------------------
(* The steps of the threads of socket s, one lemma per part of IInv and     *)
(* one step per action.                                                     *)

SockStep(s) == HandlerStep(s) \/ EvalStep(s) \/ finish_eval(s)


\* The counters of a socket go up in turn: read, pushed, popped, evaluated.
LEMMA CountStep ==
  ASSUME IInv, NEW s \in Socks, SockStep(s)
  PROVE  Counters'
<1> USE DEF IInv, Counters, CountersOf, hvars, evars, EvalFrame, BarrierFrame, EvalPCs
<1>1. CASE ReadLine(s)
  <2>1. UNCHANGED <<popped, evaluated, epc>>
    BY <1>1 DEF ReadLine, EvalFrame, BarrierFrame, hvars, evars
  <2>2. /\ hpc' \in [Socks -> {"read", "test", "blocked", "push"}]
        /\ sent' \in [Socks -> Nat] /\ pushed' \in [Socks -> Nat]
    BY <1>1 DEF ReadLine, EvalPCs
  <2>3. ASSUME NEW x \in Socks PROVE CountersOf(x)'
    BY <1>1, <2>1, <2>2, LengthsNat DEF ReadLine, CountersOf, Queued
  <2> QED
    BY <2>1, <2>2, <2>3
<1>2. CASE block_on_bar(s)
  <2>1. UNCHANGED <<popped, evaluated, epc>>
    BY <1>2 DEF block_on_bar, EvalFrame, BarrierFrame, hvars, evars
  <2>2. /\ hpc' \in [Socks -> {"read", "test", "blocked", "push"}]
        /\ sent' \in [Socks -> Nat] /\ pushed' \in [Socks -> Nat]
    BY <1>2 DEF block_on_bar, EvalPCs
  <2>3. ASSUME NEW x \in Socks PROVE CountersOf(x)'
    BY <1>2, <2>1, <2>2, LengthsNat DEF block_on_bar, CountersOf, Queued
  <2> QED
    BY <2>1, <2>2, <2>3
<1>3. CASE Push(s)
  <2>1. UNCHANGED <<popped, evaluated, epc>>
    BY <1>3 DEF Push, EvalFrame, BarrierFrame, hvars, evars
  <2>2. /\ hpc' \in [Socks -> {"read", "test", "blocked", "push"}]
        /\ sent' \in [Socks -> Nat] /\ pushed' \in [Socks -> Nat]
    BY <1>3 DEF Push, EvalPCs
  <2>3. ASSUME NEW x \in Socks PROVE CountersOf(x)'
    BY <1>3, <2>1, <2>2, LengthsNat DEF Push, CountersOf, Queued
  <2> QED
    BY <2>1, <2>2, <2>3
<1>4. CASE Pop(s)
  <2>1. UNCHANGED <<sent, pushed, hpc>>
    BY <1>4 DEF Pop, EvalFrame, BarrierFrame, hvars, evars
  <2>2. popped' \in [Socks -> Nat] /\ evaluated' \in [Socks -> Nat] /\ epc' \in [Socks -> EvalPCs]
    BY <1>4 DEF Pop, EvalPCs
  <2>3. ASSUME NEW x \in Socks PROVE CountersOf(x)'
    BY <1>4, <2>1, <2>2, LengthsNat DEF Pop, CountersOf, Queued
  <2> QED
    BY <2>1, <2>2, <2>3
<1>5. CASE start_eval(s)
  BY <1>5 DEF start_eval
<1>6. CASE EvalWork(s)
  <2>1. UNCHANGED <<sent, pushed, hpc>>
    BY <1>6 DEF EvalWork, EvalFrame, BarrierFrame, hvars, evars
  <2>2. popped' \in [Socks -> Nat] /\ evaluated' \in [Socks -> Nat] /\ epc' \in [Socks -> EvalPCs]
    BY <1>6 DEF EvalWork, EvalPCs
  <2>3. ASSUME NEW x \in Socks PROVE CountersOf(x)'
    BY <1>6, <2>1, <2>2, LengthsNat DEF EvalWork, CountersOf, Queued
  <2> QED
    BY <2>1, <2>2, <2>3
<1>7. CASE recv_barrier(s)
  BY <1>7 DEF recv_barrier
<1>8. CASE LeaveSync(s)
  <2>1. UNCHANGED <<sent, pushed, hpc>>
    BY <1>8 DEF LeaveSync, EvalFrame, BarrierFrame, hvars, evars
  <2>2. popped' \in [Socks -> Nat] /\ evaluated' \in [Socks -> Nat] /\ epc' \in [Socks -> EvalPCs]
    BY <1>8 DEF LeaveSync, EvalPCs
  <2>3. ASSUME NEW x \in Socks PROVE CountersOf(x)'
    BY <1>8, <2>1, <2>2, LengthsNat DEF LeaveSync, CountersOf, Queued
  <2> QED
    BY <2>1, <2>2, <2>3
<1>9. CASE FindSelf(s)
  BY <1>9 DEF FindSelf
<1>10. CASE Mark(s)
  BY <1>10 DEF Mark
<1>11. CASE Activate(s)
  BY <1>11 DEF Activate
<1>12. CASE BeginPass(s)
  BY <1>12 DEF BeginPass
<1>13. CASE EndPass(s)
  BY <1>13 DEF EndPass
<1>14. CASE Unmark(s)
  BY <1>14 DEF Unmark
<1>15. CASE NotLast(s)
  <2>1. UNCHANGED <<sent, pushed, hpc>>
    BY <1>15 DEF NotLast, EvalFrame, BarrierFrame, hvars, evars
  <2>2. popped' \in [Socks -> Nat] /\ evaluated' \in [Socks -> Nat] /\ epc' \in [Socks -> EvalPCs]
    BY <1>15 DEF NotLast, EvalPCs
  <2>3. ASSUME NEW x \in Socks PROVE CountersOf(x)'
    BY <1>15, <2>1, <2>2, LengthsNat DEF NotLast, CountersOf, Queued
  <2> QED
    BY <2>1, <2>2, <2>3
<1>16. CASE LastOut(s)
  BY <1>16 DEF LastOut
<1>17. CASE ReleaseBarrier(s)
  <2>1. UNCHANGED <<sent, pushed, popped>>
    BY <1>17 DEF ReleaseBarrier, EvalFrame, BarrierFrame, hvars, evars
  <2>2. /\ hpc' \in [Socks -> {"read", "test", "blocked", "push"}]
        /\ evaluated' \in [Socks -> Nat] /\ epc' \in [Socks -> EvalPCs]
    BY <1>17 DEF ReleaseBarrier, EvalPCs
  <2>3. ASSUME NEW x \in Socks PROVE CountersOf(x)'
    BY <1>17, <2>1, <2>2, LengthsNat DEF ReleaseBarrier, CountersOf, Queued
  <2> QED
    BY <2>1, <2>2, <2>3
<1>18. CASE finish_eval(s)
  BY <1>18 DEF finish_eval
<1>19. ASSUME NEW x \in Socks, SkipSock(s, x) PROVE Counters'
  BY <1>19 DEF SkipSock
<1>20. ASSUME NEW x \in Socks, IdleSock(s, x) PROVE Counters'
  BY <1>20 DEF IdleSock
<1>21. ASSUME NEW x \in Socks, BusySock(s, x) PROVE Counters'
  BY <1>21 DEF BusySock
<1> QED
  BY <1>1, <1>2, <1>3, <1>4, <1>5, <1>6, <1>7, <1>8, <1>9, <1>10, <1>11, <1>12, <1>13,
     <1>14, <1>15, <1>16, <1>17, <1>18, <1>19, <1>20, <1>21 DEF SockStep, HandlerStep,
     EvalStep

\* The other variables keep their types.
LEMMA TypeStep ==
  ASSUME IInv, NEW s \in Socks, SockStep(s)
  PROVE  BarrierTypes'
<1> USE DEF IInv, BarrierTypes, Counters, bvars, evars, history, EvalFrame, BarrierFrame
<1>1. CASE ReadLine(s)
  BY <1>1 DEF ReadLine
<1>2. CASE block_on_bar(s)
  BY <1>2 DEF block_on_bar
<1>3. CASE Push(s)
  BY <1>3 DEF Push
<1>4. CASE Pop(s)
  BY <1>4 DEF Pop
<1>5. CASE start_eval(s)
  BY <1>5 DEF start_eval
<1>6. CASE EvalWork(s)
  BY <1>6 DEF EvalWork
<1>7. CASE recv_barrier(s)
  BY <1>7 DEF recv_barrier
<1>8. CASE LeaveSync(s)
  BY <1>8 DEF LeaveSync
<1>9. CASE FindSelf(s)
  BY <1>9 DEF FindSelf
<1>10. CASE Mark(s)
  BY <1>10 DEF Mark
<1>11. CASE Activate(s)
  BY <1>11 DEF Activate
<1>12. CASE BeginPass(s)
  BY <1>12 DEF BeginPass
<1>13. CASE EndPass(s)
  BY <1>13 DEF EndPass
<1>14. CASE Unmark(s)
  BY <1>14 DEF Unmark
<1>15. CASE NotLast(s)
  BY <1>15 DEF NotLast
<1>16. CASE LastOut(s)
  BY <1>16 DEF LastOut
<1>17. CASE ReleaseBarrier(s)
  BY <1>17 DEF ReleaseBarrier
<1>18. CASE finish_eval(s)
  BY <1>18 DEF finish_eval
<1>19. ASSUME NEW x \in Socks, SkipSock(s, x) PROVE BarrierTypes'
  BY <1>19 DEF SkipSock
<1>20. ASSUME NEW x \in Socks, IdleSock(s, x) PROVE BarrierTypes'
  BY <1>20 DEF IdleSock
<1>21. ASSUME NEW x \in Socks, BusySock(s, x) PROVE BarrierTypes'
  BY <1>21 DEF BusySock
<1> QED
  BY <1>1, <1>2, <1>3, <1>4, <1>5, <1>6, <1>7, <1>8, <1>9, <1>10, <1>11, <1>12, <1>13,
     <1>14, <1>15, <1>16, <1>17, <1>18, <1>19, <1>20, <1>21 DEF SockStep, HandlerStep,
     EvalStep

\* The marks and the lock go with the place of each eval thread.
LEMMA LockStep ==
  ASSUME IInv, NEW s \in Socks, SockStep(s)
  PROVE  MarkedInBarrier' /\ ScanLocked'
<1> USE GlobalBarrierAssumption
    DEF IInv, Counters, BarrierTypes, MarkedInBarrier, ScanLocked, hvars, evars, bvars, history, EvalFrame, BarrierFrame
<1>1. CASE ReadLine(s)
  BY <1>1 DEF ReadLine
<1>2. CASE block_on_bar(s)
  BY <1>2 DEF block_on_bar
<1>3. CASE Push(s)
  BY <1>3 DEF Push
<1>4. CASE Pop(s)
  BY <1>4 DEF Pop
<1>5. CASE start_eval(s)
  BY <1>5 DEF start_eval
<1>6. CASE EvalWork(s)
  BY <1>6 DEF EvalWork
<1>7. CASE recv_barrier(s)
  BY <1>7 DEF recv_barrier
<1>8. CASE LeaveSync(s)
  BY <1>8 DEF LeaveSync
<1>9. CASE FindSelf(s)
  BY <1>9 DEF FindSelf
<1>10. CASE Mark(s)
  BY <1>10 DEF Mark
<1>11. CASE Activate(s)
  BY <1>11 DEF Activate
<1>12. CASE BeginPass(s)
  BY <1>12 DEF BeginPass
<1>13. CASE EndPass(s)
  BY <1>13 DEF EndPass
<1>14. CASE Unmark(s)
  BY <1>14 DEF Unmark
<1>15. CASE NotLast(s)
  BY <1>15 DEF NotLast
<1>16. CASE LastOut(s)
  BY <1>16 DEF LastOut
<1>17. CASE ReleaseBarrier(s)
  BY <1>17 DEF ReleaseBarrier
<1>18. CASE finish_eval(s)
  BY <1>18 DEF finish_eval
<1>19. ASSUME NEW x \in Socks, SkipSock(s, x) PROVE MarkedInBarrier' /\ ScanLocked'
  BY <1>19 DEF SkipSock
<1>20. ASSUME NEW x \in Socks, IdleSock(s, x) PROVE MarkedInBarrier' /\ ScanLocked'
  BY <1>20 DEF IdleSock
<1>21. ASSUME NEW x \in Socks, BusySock(s, x) PROVE MarkedInBarrier' /\ ScanLocked'
  BY <1>21 DEF BusySock
<1> QED
  BY <1>1, <1>2, <1>3, <1>4, <1>5, <1>6, <1>7, <1>8, <1>9, <1>10, <1>11, <1>12, <1>13,
     <1>14, <1>15, <1>16, <1>17, <1>18, <1>19, <1>20, <1>21 DEF SockStep, HandlerStep,
     EvalStep

\* Who leaves without clearing the flag leaves somebody behind who is marked.
LEMMA HoldStep ==
  ASSUME IInv, NEW s \in Socks, SockStep(s)
  PROVE  HeldOnlyByBarrier'
<1> USE DEF IInv, Counters, BarrierTypes, MarkedInBarrier, HeldOnlyByBarrier, hvars, evars, bvars, history, EvalFrame,
        BarrierFrame
<1>1. CASE ReadLine(s)
  BY <1>1 DEF ReadLine
<1>2. CASE block_on_bar(s)
  BY <1>2 DEF block_on_bar
<1>3. CASE Push(s)
  BY <1>3 DEF Push
<1>4. CASE Pop(s)
  BY <1>4 DEF Pop
<1>5. CASE start_eval(s)
  BY <1>5 DEF start_eval
<1>6. CASE EvalWork(s)
  BY <1>6 DEF EvalWork
<1>7. CASE recv_barrier(s)
  BY <1>7 DEF recv_barrier
<1>8. CASE LeaveSync(s)
  BY <1>8 DEF LeaveSync
<1>9. CASE FindSelf(s)
  BY <1>9 DEF FindSelf
<1>10. CASE Mark(s)
  BY <1>10 DEF Mark
<1>11. CASE Activate(s)
  BY <1>11 DEF Activate
<1>12. CASE BeginPass(s)
  BY <1>12 DEF BeginPass
<1>13. CASE EndPass(s)
  BY <1>13 DEF EndPass
<1>14. CASE Unmark(s)
  BY <1>14 DEF Unmark
<1>15. CASE NotLast(s)
  BY <1>15 DEF NotLast
<1>16. CASE LastOut(s)
  BY <1>16 DEF LastOut
<1>17. CASE ReleaseBarrier(s)
  BY <1>17 DEF ReleaseBarrier
<1>18. CASE finish_eval(s)
  BY <1>18 DEF finish_eval
<1>19. ASSUME NEW x \in Socks, SkipSock(s, x) PROVE HeldOnlyByBarrier'
  BY <1>19 DEF SkipSock
<1>20. ASSUME NEW x \in Socks, IdleSock(s, x) PROVE HeldOnlyByBarrier'
  BY <1>20 DEF IdleSock
<1>21. ASSUME NEW x \in Socks, BusySock(s, x) PROVE HeldOnlyByBarrier'
  BY <1>21 DEF BusySock
<1> QED
  BY <1>1, <1>2, <1>3, <1>4, <1>5, <1>6, <1>7, <1>8, <1>9, <1>10, <1>11, <1>12, <1>13,
     <1>14, <1>15, <1>16, <1>17, <1>18, <1>19, <1>20, <1>21 DEF SockStep, HandlerStep,
     EvalStep

\* Queues only advance, and a scan counts a queue as drained when it is empty.
LEMMA DrainStep ==
  ASSUME IInv, NEW s \in Socks, SockStep(s)
  PROVE  SnapshotsOld' /\ ScanSound' /\ QueuesDrained'
<1> USE DEF IInv, Counters, BarrierTypes, SnapshotsOld, ScanSound, ScanLocked, QueuesDrained, PastScan, hvars, evars, bvars,
        history, EvalFrame, BarrierFrame, busyShell, Queued
<1>1. CASE ReadLine(s)
  BY <1>1 DEF ReadLine
<1>2. CASE block_on_bar(s)
  BY <1>2 DEF block_on_bar
<1>3. CASE Push(s)
  <2>1. UNCHANGED <<checked, skipped, before, popped>>
    BY <1>3 DEF Push
  <2>2. \A y \in Socks : pushed'[y] \in Nat /\ pushed[y] \in Nat /\ pushed[y] <= pushed'[y]
    BY <1>3 DEF Push
  <2>3. \A y \in Socks : epc'[y] = epc[y] \/ epc'[y] = "popped"
    BY <1>3 DEF Push
  <2>4. \A y, z \in Socks : before[y][z] \in Nat
    OBVIOUS
  <2>5. \A y, z \in Socks : before[y][z] <= pushed[z] => before[y][z] <= pushed'[z]
    BY <2>2, <2>4
  <2> QED
    BY <2>1, <2>3, <2>5
<1>4. CASE Pop(s)
  <2>1. UNCHANGED <<checked, skipped, before, pushed>>
    BY <1>4 DEF Pop
  <2>2. \A y \in Socks : popped'[y] \in Nat /\ popped[y] \in Nat /\ popped[y] <= popped'[y]
    BY <1>4 DEF Pop
  <2>3. \A y \in Socks : epc'[y] = epc[y] \/ epc'[y] = "popped"
    BY <1>4 DEF Pop
  <2>4. \A y, z \in Socks : before[y][z] \in Nat
    OBVIOUS
  <2>5. \A y, z \in Socks : before[y][z] <= popped[z] => before[y][z] <= popped'[z]
    BY <2>2, <2>4
  <2> QED
    BY <2>1, <2>3, <2>5
<1>5. CASE start_eval(s)
  BY <1>5 DEF start_eval
<1>6. CASE EvalWork(s)
  BY <1>6 DEF EvalWork
<1>7. CASE recv_barrier(s)
  BY <1>7 DEF recv_barrier
<1>8. CASE LeaveSync(s)
  BY <1>8 DEF LeaveSync
<1>9. CASE FindSelf(s)
  BY <1>9 DEF FindSelf
<1>10. CASE Mark(s)
  BY <1>10 DEF Mark
<1>11. CASE Activate(s)
  BY <1>11 DEF Activate
<1>12. CASE BeginPass(s)
  BY <1>12 DEF BeginPass
<1>13. CASE EndPass(s)
  BY <1>13 DEF EndPass
<1>14. CASE Unmark(s)
  BY <1>14 DEF Unmark
<1>15. CASE NotLast(s)
  BY <1>15 DEF NotLast
<1>16. CASE LastOut(s)
  BY <1>16 DEF LastOut
<1>17. CASE ReleaseBarrier(s)
  BY <1>17 DEF ReleaseBarrier
<1>18. CASE finish_eval(s)
  BY <1>18 DEF finish_eval
<1>19. ASSUME NEW x \in Socks, SkipSock(s, x) PROVE SnapshotsOld' /\ ScanSound' /\ QueuesDrained'
  BY <1>19 DEF SkipSock
<1>20. ASSUME NEW x \in Socks, IdleSock(s, x) PROVE SnapshotsOld' /\ ScanSound' /\ QueuesDrained'
  BY <1>20 DEF IdleSock
<1>21. ASSUME NEW x \in Socks, BusySock(s, x) PROVE SnapshotsOld' /\ ScanSound' /\ QueuesDrained'
  BY <1>21 DEF BusySock
<1> QED
  BY <1>1, <1>2, <1>3, <1>4, <1>5, <1>6, <1>7, <1>8, <1>9, <1>10, <1>11, <1>12, <1>13,
     <1>14, <1>15, <1>16, <1>17, <1>18, <1>19, <1>20, <1>21 DEF SockStep, HandlerStep,
     EvalStep

\* block_on_bar() lets nobody through while the flag is set, so that a line which
\* is past it was there before; once it is pushed its shell gets no other.
LEMMA LateStep ==
  ASSUME IInv, NEW s \in Socks, SockStep(s)
  PROVE  LateLine' /\ HeldBack'
<1> USE DEF IInv, Counters, BarrierTypes, LateLine, Holding, HeldBack, SnapshotsOld,
        hvars, evars, bvars, history, EvalFrame, BarrierFrame
<1>1. CASE ReadLine(s)
  BY <1>1 DEF ReadLine
<1>2. CASE block_on_bar(s)
  BY <1>2 DEF block_on_bar
<1>3. CASE Push(s)
  BY <1>3 DEF Push
<1>4. CASE Pop(s)
  BY <1>4 DEF Pop
<1>5. CASE start_eval(s)
  BY <1>5 DEF start_eval
<1>6. CASE EvalWork(s)
  BY <1>6 DEF EvalWork
<1>7. CASE recv_barrier(s)
  BY <1>7 DEF recv_barrier
<1>8. CASE LeaveSync(s)
  BY <1>8 DEF LeaveSync
<1>9. CASE FindSelf(s)
  BY <1>9 DEF FindSelf
<1>10. CASE Mark(s)
  BY <1>10 DEF Mark
<1>11. CASE Activate(s)
  BY <1>11 DEF Activate
<1>12. CASE BeginPass(s)
  BY <1>12 DEF BeginPass
<1>13. CASE EndPass(s)
  BY <1>13 DEF EndPass
<1>14. CASE Unmark(s)
  BY <1>14 DEF Unmark
<1>15. CASE NotLast(s)
  BY <1>15 DEF NotLast
<1>16. CASE LastOut(s)
  BY <1>16 DEF LastOut
<1>17. CASE ReleaseBarrier(s)
  BY <1>17 DEF ReleaseBarrier
<1>18. CASE finish_eval(s)
  BY <1>18 DEF finish_eval
<1>19. ASSUME NEW x \in Socks, SkipSock(s, x) PROVE LateLine' /\ HeldBack'
  BY <1>19 DEF SkipSock
<1>20. ASSUME NEW x \in Socks, IdleSock(s, x) PROVE LateLine' /\ HeldBack'
  BY <1>20 DEF IdleSock
<1>21. ASSUME NEW x \in Socks, BusySock(s, x) PROVE LateLine' /\ HeldBack'
  BY <1>21 DEF BusySock
<1> QED
  BY <1>1, <1>2, <1>3, <1>4, <1>5, <1>6, <1>7, <1>8, <1>9, <1>10, <1>11, <1>12, <1>13,
     <1>14, <1>15, <1>16, <1>17, <1>18, <1>19, <1>20, <1>21 DEF SockStep, HandlerStep,
     EvalStep

\* Every step of a client, an eval thread or a barrier keeps it.
LEMMA NextInv == IInv /\ [Next]_vars => IInv'
<1> SUFFICES ASSUME IInv, [Next]_vars PROVE IInv'
  OBVIOUS
<1>1. ASSUME NEW s \in Socks, SockStep(s) PROVE IInv'
  BY <1>1, CountStep, TypeStep, LockStep, HoldStep, DrainStep, LateStep DEF IInv
<1>2. CASE UNCHANGED vars
  BY <1>2 DEF vars, hvars, evars, bvars, history, IInv, Counters, CountersOf, BarrierTypes,
              MarkedInBarrier, ScanLocked, SnapshotsOld, ScanSound, HeldOnlyByBarrier,
              QueuesDrained, PastScan, LateLine, Holding, HeldBack
<1> QED
  BY <1>1, <1>2 DEF Next, SockStep, Terminated

\* The inductive invariant holds in every reachable state.
LEMMA InvHolds == Spec => []IInv
  BY InitInv, NextInv, PTL DEF Spec

\* global_barrier() with any number of concurrent barriers, on any sockets:
\* _global_barrier_active is set only while some barrier is under way that
\* will clear it, and no handler thread sleeps on a flag that is clear.
THEOREM HeldForBarriers == Spec => []HoldInv
<1>1. IInv => HoldInv
  BY TypesFollow DEF IInv, HoldInv
<1> QED
  BY <1>1, InvHolds, PTL

\* When a barrier is over, whatever was queued at its start in a shell that
\* was in no barrier of its own has been popped.
THEOREM BarrierDrains == Spec => []QueuesDrained
<1>1. IInv => QueuesDrained
  BY DEF IInv
<1> QED
  BY <1>1, InvHolds, PTL

\* For any sockets, commands and concurrent barriers: until the flag is cleared, a
\* barrier lets into each shell at most the one line that was past block_on_bar()
\* when it began (SocketManager.cc:319-323, 402-410, GenericShell.cc:752-764).
THEOREM BarrierHoldsBack == Spec => []HeldBack
<1>1. IInv => HeldBack
  BY DEF IInv
<1> QED
  BY <1>1, InvHolds, PTL

=============================================================================
