-------------------------- MODULE WebSessionProofs --------------------------
(***************************************************************************)
(* One connection to the web port, with any requests and frames in any     *)
(* number: OnLine() is called with what the client sent, nothing lost or   *)
(* run together, and of what the three threads write no frame comes before *)
(* the 101, after it at most one byte is not of a frame, and every thread  *)
(* writes the payload of a frame right after its header, as far as its own *)
(* writes go.                                                              *)
(***************************************************************************)
EXTENDS WebSession, FiniteSetTheorems, TLAPS

HeaderKinds == {"first", "length", "upgrade"}

\* Every element of the stream belongs to a request or a frame that was sent.
Owned(e) ==
  /\ e.kind \in HeaderKinds \cup {"empty", "byte"} => e.n \in DOMAIN sent
  /\ e.kind = "length" => sent[e.n].body > 0
  /\ e.kind = "upgrade" => sent[e.n].upgrade
  /\ e.kind \in FrameKinds => e.n \in DOMAIN frames /\ frames[e.n] = e.kind

\* The client sends nothing but frames after a request to upgrade, and frames
\* only then.
UpgradeLast ==
  /\ \A i \in DOMAIN sent : sent[i].upgrade => i = Len(sent)
  /\ frames # <<>> => sent # <<>> /\ sent[Len(sent)].upgrade

\* The header line that follows a header line.
After(e) ==
  IF e.kind = "first" /\ sent[e.n].body > 0 THEN Line("length", e.n)
  ELSE IF e.kind # "upgrade" /\ sent[e.n].upgrade THEN Line("upgrade", e.n)
  ELSE Line("empty", e.n)

\* What follows the header of request n, whose empty line is the element i of
\* net, or the last one read if i is 0: its body, then the next request or
\* the first frame.  Only a client that closes leaves out a part.
BodyFollows(i, n) ==
  LET b == i + sent[n].body
  IN  /\ \A j \in i + 1 .. b : j \in DOMAIN net => net[j] = Line("byte", n)
      /\ b < Len(net) => IF sent[n].upgrade
                         THEN net[b + 1].kind \in FrameKinds /\ net[b + 1].n = 1
                         ELSE net[b + 1] = Line("first", n + 1)
      /\ ~closed => /\ b <= Len(net)
                    /\ b = Len(net) => n = Len(sent) /\ frames = <<>>

\* What follows e, the element i of net, or the last one read.
Linked(e, i) ==
  /\ e.kind \in HeaderKinds => /\ i < Len(net) => net[i + 1] = After(e)
                               /\ ~closed => i < Len(net)
  /\ e.kind = "empty" => BodyFollows(i, e.n)
  /\ e.kind \in FrameKinds =>
       /\ i < Len(net) => net[i + 1].kind \in FrameKinds /\ net[i + 1].n = e.n + 1
       /\ ~closed /\ i = Len(net) => e.n = Len(frames)

Stream == /\ \A i \in DOMAIN net : Owned(net[i]) /\ Linked(net[i], i)
          /\ Owned(line)

\* Between two requests.
Fresh == /\ net # <<>> => net[1] = Line("first", Len(delivered) + 1)
         /\ net = <<>> /\ ~closed => Len(sent) = Len(delivered)

\* The last line read is one of the request that is next for OnLine().
Reading == /\ line.n = Len(delivered) + 1 /\ line.n \in DOMAIN sent
           /\ Linked(line, 0)

\* _content_length and _got_websock_header are what the request says, or have
\* not been read.
LengthRead == length = sent[line.n].body
LengthUnread == length = 0 /\ ~upgrade

\* Where the handler is in the requests.
HttpCursor ==
  /\ pc \notin {"pong", "pongdata", "cmddata"}
  /\ pc = "read" /\ ~first => Fresh /\ LengthUnread
  /\ pc = "line" /\ ~first => Reading /\ line.kind = "first" /\ LengthUnread
  /\ pc = "read" /\ first =>
       /\ Reading /\ line.kind \in HeaderKinds
       /\ line.kind = "first" => LengthUnread
       /\ line.kind # "first" => LengthRead
       /\ upgrade <=> line.kind = "upgrade"
  /\ pc = "line" /\ first =>
       /\ Reading /\ line.kind \in {"length", "upgrade", "empty"}
       /\ line.kind = "length" => LengthUnread
       /\ line.kind # "length" => LengthRead
       /\ upgrade <=> line.kind = "empty" /\ sent[line.n].upgrade
  /\ pc \in {"connect", "upgrade", "body"} =>
       /\ Reading /\ line.kind = "empty" /\ LengthRead
       /\ upgrade = sent[line.n].upgrade
       /\ pc = "upgrade" => upgrade
       /\ pc = "body" => ~upgrade
  /\ pc = "online" => Fresh /\ ~upgrade
  /\ Len(delivered) <= Len(sent)

\* How many frames have been read.
FramesRead == IF line.kind = "empty" THEN 0 ELSE line.n

\* Where the handler is in the frames.
FrameCursor ==
  /\ upgrade /\ sent # <<>> /\ sent[Len(sent)].upgrade
  /\ Len(sent) <= Len(delivered)
  /\ pc \in {"read", "online", "cmddata", "pong", "pongdata", "dtor", "gone"}
  /\ pc \notin {"dtor", "gone"} =>
       /\ line.kind \in FrameKinds \cup {"empty"} /\ Linked(line, 0)
       /\ line.kind = "empty" => line.n = Len(sent)
       /\ Len(delivered) = Len(sent) + TextsTo(FramesRead)

Cursor == IF frameIO THEN FrameCursor ELSE HttpCursor

\* A request is pending from OnConnection() until it is executed, and each
\* makes at most one shell.
Shells ==
  /\ shell <= Len(sent) /\ shell <= Len(delivered)
  /\ request # "none" => pc \in {"upgrade", "body", "online", "dtor", "gone"}
  /\ request # "none" /\ pc = "online" => shell < Len(sent) /\ shell < Len(delivered)

Announced == \E i \in DOMAIN wire : wire[i].kind = "101"

\* No frame comes before the 101, and no HTTP after it.
Framed ==
  \A i \in DOMAIN wire : /\ IsFrame(wire[i]) => Upgraded(i)
                         /\ Upgraded(i) => IsFrame(wire[i]) \/ wire[i].kind = "syn"

\* Who is about to write frames does so after the 101; who writes HTTP is not.
Writers ==
  /\ frameIO => Announced
  /\ Announced => frameIO \/ pc = "upgrade"
  /\ evalq # <<>> \/ poll # Idle => frameIO
  /\ ping \in {"pong", "synhead", "syndata"} => frameIO

\* A frame that has been begun is the one that the poll thread, or half_ping(),
\* is at.
Halves ==
  /\ Count("head") = Count("data") + (IF poll.at = "data" THEN 1 ELSE 0)
  /\ Count("synhead") = Count("syndata") + (IF ping = "syndata" THEN 1 ELSE 0)
  /\ pc = "gone" => poll = Idle /\ ping = "idle" /\ evalq = <<>>

\* The frame with the payload d, number n, has been begun by a thread that has
\* written nothing since.
Open(q, d, n) ==
  \E j \in DOMAIN q : /\ q[j] = Write(HeaderOf(d), n)
                      /\ \A k \in j + 1 .. Len(q) : Thread(q[k].kind) # Thread(d)

\* Who is about to write a payload has written its header last.
Opened ==
  /\ poll.at = "data" => Open(wire, "data", poll.n)
  /\ pc = "pongdata" => Open(wire, "pongdata", line.n)
  /\ pc = "cmddata" => Open(wire, "cmddata", line.n)
  /\ ping = "syndata" => Open(wire, "syndata", 0)

\* A SYN byte after the 101.
Late(q, i) == q[i].kind = "syn" /\ \E j \in 1 .. i - 1 : q[j].kind = "101"

\* There is one at most: no other half_ping() is on its way to write one.
OneLate == \A i, j \in DOMAIN wire : Late(wire, i) /\ Late(wire, j) => i = j

SynDone == (\E i \in DOMAIN wire : Late(wire, i)) =>
             ping \notin {"syn", "raw"} /\ (ping = "mode" => frameIO)

IInv == /\ TypeOK /\ UpgradeLast /\ Stream /\ Cursor /\ DeliveredExact
        /\ Shells /\ Writers /\ Framed /\ Halves
        /\ HalvesInOrder /\ Opened /\ OneLate /\ SynDone

-----------------------------------------------------------------------------
(* Sequences. *)

Element == [kind: LineKinds, n: Nat]

\* Append() of an element.
LEMMA AppendFacts ==
  ASSUME NEW S, NEW q \in Seq(S), NEW e \in S
  PROVE  /\ Append(q, e) \in Seq(S)
         /\ Len(q) \in Nat /\ Len(Append(q, e)) = Len(q) + 1
         /\ DOMAIN q = 1 .. Len(q) /\ DOMAIN Append(q, e) = 1 .. Len(q) + 1
         /\ \A i \in 1 .. Len(q) : Append(q, e)[i] = q[i]
         /\ Append(q, e)[Len(q) + 1] = e
  OBVIOUS

\* What is left of a sequence when its first k elements have been read.
LEMMA DropFacts ==
  ASSUME NEW S, NEW q \in Seq(S), NEW k \in 0 .. Len(q)
  PROVE  LET p == SubSeq(q, k + 1, Len(q)) IN
         /\ p \in Seq(S) /\ Len(p) = Len(q) - k
         /\ Len(q) \in Nat /\ Len(p) \in Nat
         /\ DOMAIN q = 1 .. Len(q) /\ DOMAIN p = 1 .. Len(p)
         /\ \A i \in 1 .. Len(p) : p[i] = q[i + k]
  OBVIOUS

\* Tail() reads one element.
LEMMA TailDrops ==
  ASSUME NEW S, NEW q \in Seq(S), q # <<>>
  PROVE  /\ 1 \in 0 .. Len(q) /\ Tail(q) = SubSeq(q, 1 + 1, Len(q))
         /\ Head(q) = q[1] /\ q[1] \in S /\ 1 \in DOMAIN q
  OBVIOUS

\* The first k elements of a sequence.
LEMMA PrefixFacts ==
  ASSUME NEW S, NEW q \in Seq(S), NEW k \in 0 .. Len(q), NEW p,
         p = SubSeq(q, 1, k)
  PROVE  /\ p \in Seq(S) /\ Len(p) = k
         /\ Len(q) \in Nat /\ k \in Nat
         /\ DOMAIN q = 1 .. Len(q) /\ DOMAIN p = 1 .. k
         /\ \A i \in 1 .. k : p[i] = q[i]
  OBVIOUS

\* Concatenation.
LEMMA ConcatFacts ==
  ASSUME NEW S, NEW q \in Seq(S), NEW p \in Seq(S)
  PROVE  /\ q \o p \in Seq(S) /\ Len(q \o p) = Len(q) + Len(p)
         /\ Len(q) \in Nat /\ Len(p) \in Nat
         /\ DOMAIN q = 1 .. Len(q) /\ DOMAIN p = 1 .. Len(p)
         /\ DOMAIN (q \o p) = 1 .. Len(q) + Len(p)
         /\ \A i \in 1 .. Len(q) : (q \o p)[i] = q[i]
         /\ \A i \in 1 .. Len(p) : (q \o p)[Len(q) + i] = p[i]
  OBVIOUS

\* Two writes in a row.
LEMMA AppendTwo ==
  ASSUME NEW S, NEW q \in Seq(S), NEW a \in S, NEW b \in S
  PROVE  q \o <<a, b>> = Append(Append(q, a), b) /\ q \o <<a>> = Append(q, a)
  OBVIOUS

\* Nothing appended.
LEMMA ConcatEmpty ==
  ASSUME NEW S, NEW q \in Seq(S)
  PROVE  q \o <<>> = q
  OBVIOUS

-----------------------------------------------------------------------------
(* The stream of the client. *)

\* The lines of request r, number n, are the elements of q after the first m:
\* the first line, the header, which ends after h lines, and the body.
HasLines(q, m, h, r, n) ==
  /\ q[m + 1] = Line("first", n) /\ q[m + h] = Line("empty", n)
  /\ \A i \in 2 .. h - 1 : \/ q[m + i] = Line("length", n) /\ r.body > 0
                           \/ q[m + i] = Line("upgrade", n) /\ r.upgrade
  /\ \A i \in h + 1 .. h + r.body : q[m + i] = Line("byte", n)
  /\ q[m + 2] = IF r.body > 0 THEN Line("length", n)
                ELSE IF r.upgrade THEN Line("upgrade", n) ELSE Line("empty", n)
  /\ \A i \in 2 .. h - 1 :
       q[m + i + 1] = IF q[m + i].kind = "length" /\ r.upgrade
                      THEN Line("upgrade", n) ELSE Line("empty", n)

\* RequestLines() makes them.
LEMMA RequestLinesFacts ==
  ASSUME NEW r \in RequestType, NEW n \in Nat \ {0}
  PROVE  \E h \in 2 .. 4 : /\ RequestLines(r, n) \in Seq(Element)
                           /\ Len(RequestLines(r, n)) = h + r.body
                           /\ HasLines(RequestLines(r, n), 0, h, r, n)
<1> DEFINE F == Line("first", n)
           L == Line("length", n)
           U == Line("upgrade", n)
           E == Line("empty", n)
           B == [i \in 1 .. r.body |-> Line("byte", n)]
           HL == <<F>> \o (IF r.body > 0 THEN <<L>> ELSE <<>>)
           HU == HL \o (IF r.upgrade THEN <<U>> ELSE <<>>)
           H == HU \o <<E>>
<1>1. F \in Element /\ L \in Element /\ U \in Element /\ E \in Element
  BY DEF Line, Element, LineKinds
<1>2. r.body \in Nat /\ r.upgrade \in BOOLEAN
  BY DEF RequestType
<1>3. /\ B \in Seq(Element) /\ Len(B) = r.body /\ \A i \in 1 .. r.body : B[i] = Line("byte", n)
      /\ DOMAIN B = 1 .. r.body
  <2>1. Line("byte", n) \in Element
    BY DEF Line, Element, LineKinds
  <2> QED
    BY <1>2, <2>1
<1>4. F.kind = "first" /\ L.kind = "length" /\ U.kind = "upgrade" /\ E.kind = "empty"
  BY DEF Line
<1>5. RequestLines(r, n) = H \o B
  BY DEF RequestLines
<1>6. <<F>> \in Seq(Element) /\ Len(<<F>>) = 1 /\ <<F>>[1] = F
  BY <1>1
<1> HIDE DEF F, L, U, E, B
<1>7. IF r.body > 0 THEN /\ HL \in Seq(Element) /\ Len(HL) = 2 /\ HL[1] = F /\ HL[2] = L
                    ELSE /\ HL \in Seq(Element) /\ Len(HL) = 1 /\ HL[1] = F
  <2>1. CASE r.body > 0
    <3>1. HL = Append(<<F>>, L)
      BY <1>1, <1>6, <2>1, AppendTwo
    <3> QED
      BY <1>1, <1>6, <2>1, <3>1, AppendFacts
  <2>2. CASE ~(r.body > 0)
    <3>1. HL = <<F>>
      BY <1>1, <1>6, <2>2, ConcatEmpty
    <3> QED
      BY <1>1, <1>6, <2>2, <3>1
  <2> QED
    BY <2>1, <2>2
<1> HIDE DEF HL
<1>8. /\ HU \in Seq(Element) /\ Len(HU) = Len(HL) + (IF r.upgrade THEN 1 ELSE 0)
      /\ \A i \in 1 .. Len(HL) : HU[i] = HL[i]
      /\ r.upgrade => HU[Len(HL) + 1] = U
  <2>1. CASE r.upgrade
    <3>1. HU = Append(HL, U)
      BY <1>1, <1>7, <2>1, AppendTwo
    <3> QED
      BY <1>1, <1>7, <2>1, <3>1, AppendFacts
  <2>2. CASE ~r.upgrade
    <3>1. HU = HL
      BY <1>1, <1>7, <2>2, ConcatEmpty
    <3> QED
      BY <1>1, <1>7, <2>2, <3>1
  <2> QED
    BY <2>1, <2>2
<1> HIDE DEF HU
<1>9. /\ H \in Seq(Element) /\ Len(H) = Len(HU) + 1 /\ H[Len(HU) + 1] = E
      /\ \A i \in 1 .. Len(HU) : H[i] = HU[i]
  <2>1. H = Append(HU, E)
    BY <1>1, <1>8, AppendTwo
  <2> QED
    BY <1>1, <1>8, <2>1, AppendFacts
<1> HIDE DEF H
<1>10. PICK q : q = RequestLines(r, n)
  OBVIOUS
<1>11. /\ q \in Seq(Element) /\ Len(q) = Len(H) + r.body
       /\ \A i \in 1 .. Len(H) : q[i] = H[i]
       /\ \A i \in 1 .. r.body : q[Len(H) + i] = Line("byte", n)
  <2>1. /\ H \o B \in Seq(Element) /\ Len(H \o B) = Len(H) + Len(B)
        /\ \A i \in 1 .. Len(H) : (H \o B)[i] = H[i]
        /\ \A i \in 1 .. Len(B) : (H \o B)[Len(H) + i] = B[i]
    <3>1. PICK h : h = H
      OBVIOUS
    <3>2. PICK c : c = B
      OBVIOUS
    <3>3. h \in Seq(Element) /\ c \in Seq(Element)
      BY <1>3, <1>9, <3>1, <3>2
    <3>4. /\ h \o c \in Seq(Element) /\ Len(h \o c) = Len(h) + Len(c)
          /\ \A i \in 1 .. Len(h) : (h \o c)[i] = h[i]
          /\ \A i \in 1 .. Len(c) : (h \o c)[Len(h) + i] = c[i]
      BY <3>3, ConcatFacts
    <3> QED
      BY <3>1, <3>2, <3>4
  <2> QED
    BY <1>3, <1>5, <1>10, <2>1
<1>12. CASE r.body > 0 /\ r.upgrade
  <2>1. /\ Len(H) = 4 /\ H[1] = F /\ H[2] = L /\ H[3] = U /\ H[4] = E
    BY <1>12, <1>7, <1>8, <1>9
  <2>2. /\ Len(q) = 4 + r.body /\ q[1] = F /\ q[2] = L /\ q[3] = U /\ q[4] = E
    BY <1>11, <2>1
  <2>3. \A i \in 4 + 1 .. 4 + r.body : q[i] = Line("byte", n)
    <3> SUFFICES ASSUME NEW i \in 4 + 1 .. 4 + r.body PROVE q[i] = Line("byte", n)
      OBVIOUS
    <3>1. i - 4 \in 1 .. r.body /\ 4 + (i - 4) = i
      BY <1>2, <2>2
    <3> QED
      BY <1>11, <2>1, <3>1
  <2>4. \A i \in 2 .. 3 : i = 2 \/ i = 3
    OBVIOUS
  <2>5. \A i \in 1 .. 4 + r.body : 0 + i = i
    BY <1>2
  <2>6. HasLines(q, 0, 4, r, n)
    BY <1>12, <1>2, <1>4, <2>2, <2>3, <2>4, <2>5 DEF F, L, U, E, HasLines
  <2> QED
    BY <1>10, <1>11, <2>2, <2>6
<1>13. CASE r.body > 0 /\ ~r.upgrade
  <2>1. /\ Len(H) = 3 /\ H[1] = F /\ H[2] = L /\ H[3] = E
    BY <1>13, <1>7, <1>8, <1>9
  <2>2. /\ Len(q) = 3 + r.body /\ q[1] = F /\ q[2] = L /\ q[3] = E
    BY <1>11, <2>1
  <2>3. \A i \in 3 + 1 .. 3 + r.body : q[i] = Line("byte", n)
    <3> SUFFICES ASSUME NEW i \in 3 + 1 .. 3 + r.body PROVE q[i] = Line("byte", n)
      OBVIOUS
    <3>1. i - 3 \in 1 .. r.body /\ 3 + (i - 3) = i
      BY <1>2, <2>2
    <3> QED
      BY <1>11, <2>1, <3>1
  <2>4. \A i \in 2 .. 2 : i = 2
    OBVIOUS
  <2>5. \A i \in 1 .. 3 + r.body : 0 + i = i
    BY <1>2
  <2>6. HasLines(q, 0, 3, r, n)
    BY <1>13, <1>2, <1>4, <2>2, <2>3, <2>4, <2>5 DEF F, L, U, E, HasLines
  <2> QED
    BY <1>10, <1>11, <2>2, <2>6
<1>14. CASE ~(r.body > 0) /\ r.upgrade
  <2>1. /\ Len(H) = 3 /\ H[1] = F /\ H[2] = U /\ H[3] = E
    BY <1>14, <1>7, <1>8, <1>9
  <2>2. /\ Len(q) = 3 + r.body /\ q[1] = F /\ q[2] = U /\ q[3] = E
    BY <1>11, <2>1
  <2>3. \A i \in 3 + 1 .. 3 + r.body : q[i] = Line("byte", n)
    <3> SUFFICES ASSUME NEW i \in 3 + 1 .. 3 + r.body PROVE q[i] = Line("byte", n)
      OBVIOUS
    <3>1. i - 3 \in 1 .. r.body /\ 3 + (i - 3) = i
      BY <1>2, <2>2
    <3> QED
      BY <1>11, <2>1, <3>1
  <2>4. \A i \in 2 .. 2 : i = 2
    OBVIOUS
  <2>5. \A i \in 1 .. 3 + r.body : 0 + i = i
    BY <1>2
  <2>6. HasLines(q, 0, 3, r, n)
    BY <1>14, <1>2, <1>4, <2>2, <2>3, <2>4, <2>5 DEF F, L, U, E, HasLines
  <2> QED
    BY <1>10, <1>11, <2>2, <2>6
<1>15. CASE ~(r.body > 0) /\ ~r.upgrade
  <2>1. /\ Len(H) = 2 /\ H[1] = F /\ H[2] = E
    BY <1>15, <1>7, <1>8, <1>9
  <2>2. /\ Len(q) = 2 + r.body /\ q[1] = F /\ q[2] = E
    BY <1>11, <2>1
  <2>3. \A i \in 2 + 1 .. 2 + r.body : q[i] = Line("byte", n)
    <3> SUFFICES ASSUME NEW i \in 2 + 1 .. 2 + r.body PROVE q[i] = Line("byte", n)
      OBVIOUS
    <3>1. i - 2 \in 1 .. r.body /\ 2 + (i - 2) = i
      BY <1>2, <2>2
    <3> QED
      BY <1>11, <2>1, <3>1
  <2>4. \A i \in 2 .. 1 : FALSE
    OBVIOUS
  <2>5. \A i \in 1 .. 2 + r.body : 0 + i = i
    BY <1>2
  <2>6. HasLines(q, 0, 2, r, n)
    BY <1>15, <1>2, <1>4, <2>2, <2>3, <2>4, <2>5 DEF F, L, U, E, HasLines
  <2> QED
    BY <1>10, <1>11, <2>2, <2>6
<1> QED
  BY <1>12, <1>13, <1>14, <1>15, <1>2

\* The types that the stream needs, and how it changes: the handler reads k
\* elements, or the client closes and keeps back all but k.
StreamTypes == net \in Seq(Element) /\ \A j \in DOMAIN sent : sent[j].body \in Nat

Drops(k) == /\ k <= Len(net) /\ net' = SubSeq(net, k + 1, Len(net))
            /\ UNCHANGED <<sent, frames, closed>>

Keeps(k) == /\ k <= Len(net) /\ net' = SubSeq(net, 1, k) /\ closed'
            /\ UNCHANGED <<sent, frames>>

\* Reading k elements leaves what follows the others.
LEMMA LinkedDrop ==
  ASSUME NEW k \in Nat, StreamTypes, Drops(k),
         NEW e, Owned(e), NEW i \in Nat, k <= i, i <= Len(net), Linked(e, i)
  PROVE  Linked(e, i - k)'
<1>0. /\ Len(net') = Len(net) - k /\ Len(net) \in Nat /\ Len(net') \in Nat
      /\ DOMAIN net = 1 .. Len(net) /\ DOMAIN net' = 1 .. Len(net')
      /\ \A j \in 1 .. Len(net') : net'[j] = net[j + k]
  <2>1. /\ net \in Seq(Element) /\ k <= Len(net) /\ net' = SubSeq(net, k + 1, Len(net))
    BY DEF StreamTypes, Drops
  <2>2. k \in 0 .. Len(net)
    BY <2>1
  <2> DEFINE P == SubSeq(net, k + 1, Len(net))
  <2>3. /\ Len(P) = Len(net) - k /\ Len(net) \in Nat /\ Len(P) \in Nat
        /\ DOMAIN net = 1 .. Len(net) /\ DOMAIN P = 1 .. Len(P)
        /\ \A j \in 1 .. Len(P) : P[j] = net[j + k]
    BY <2>1, <2>2, DropFacts
  <2> QED
    BY <2>1, <2>3
<1>1. sent' = sent /\ frames' = frames /\ closed' = closed
  BY DEF Drops
<1>2. ASSUME e.kind \in HeaderKinds
      PROVE  /\ i - k < Len(net') => net'[i - k + 1] = After(e)'
             /\ ~closed' => i - k < Len(net')
  <2>1. After(e)' = After(e)
    BY <1>1 DEF After
  <2>2. /\ i < Len(net) => net[i + 1] = After(e)
        /\ ~closed => i < Len(net)
    BY <1>2 DEF Linked
  <2>3. i - k < Len(net') => i < Len(net) /\ net'[i - k + 1] = net[i + 1]
    <3>1. i - k < Len(net') => i < Len(net) /\ i - k + 1 \in 1 .. Len(net')
      BY <1>0
    <3>2. i - k + 1 + k = i + 1
      OBVIOUS
    <3> QED
      BY <1>0, <3>1, <3>2
  <2>4. i < Len(net) => i - k < Len(net')
    BY <1>0
  <2> QED
    BY <1>1, <2>1, <2>2, <2>3, <2>4
<1>3. ASSUME e.kind = "empty" PROVE BodyFollows(i - k, e.n)'
  <2>1. sent[e.n].body \in Nat
    BY <1>3 DEF Owned, StreamTypes
  <2>2. PICK b \in Nat : b = i + sent[e.n].body
    BY <2>1
  <2>3. /\ \A j \in i + 1 .. b : j \in DOMAIN net => net[j] = Line("byte", e.n)
        /\ b < Len(net) => IF sent[e.n].upgrade
                           THEN net[b + 1].kind \in FrameKinds /\ net[b + 1].n = 1
                           ELSE net[b + 1] = Line("first", e.n + 1)
        /\ ~closed => /\ b <= Len(net)
                      /\ b = Len(net) => e.n = Len(sent) /\ frames = <<>>
    BY <1>3, <2>2 DEF Linked, BodyFollows
  <2>4. i - k + sent'[e.n].body = b - k /\ b - k \in Nat
    BY <1>1, <2>1, <2>2
  <2>5. \A j \in i - k + 1 .. b - k : j \in DOMAIN net' => net'[j] = Line("byte", e.n)
    <3> SUFFICES ASSUME NEW j \in i - k + 1 .. b - k, j \in DOMAIN net'
                 PROVE  net'[j] = Line("byte", e.n)
      OBVIOUS
    <3>1. j + k \in i + 1 .. b /\ j + k \in DOMAIN net /\ net'[j] = net[j + k]
      BY <1>0
    <3> QED
      BY <3>1, <2>3
  <2>6. b - k < Len(net') => b < Len(net) /\ net'[b - k + 1] = net[b + 1]
    <3>1. b - k < Len(net') => b < Len(net) /\ b - k + 1 \in 1 .. Len(net')
      BY <1>0, <2>4
    <3>2. b - k + 1 + k = b + 1
      OBVIOUS
    <3> QED
      BY <1>0, <3>1, <3>2
  <2>7. (b <= Len(net) => b - k <= Len(net')) /\ (b - k = Len(net') => b = Len(net))
    BY <1>0
  <2> QED
    BY <1>1, <2>3, <2>4, <2>5, <2>6, <2>7 DEF BodyFollows
<1>4. ASSUME e.kind \in FrameKinds
      PROVE  /\ i - k < Len(net') =>
                  net'[i - k + 1].kind \in FrameKinds /\ net'[i - k + 1].n = e.n + 1
             /\ ~closed' /\ i - k = Len(net') => e.n = Len(frames')
  <2>1. /\ i < Len(net) => net[i + 1].kind \in FrameKinds /\ net[i + 1].n = e.n + 1
        /\ ~closed /\ i = Len(net) => e.n = Len(frames)
    BY <1>4 DEF Linked
  <2>2. i - k < Len(net') => i < Len(net) /\ net'[i - k + 1] = net[i + 1]
    <3>1. i - k < Len(net') => i < Len(net) /\ i - k + 1 \in 1 .. Len(net')
      BY <1>0
    <3>2. i - k + 1 + k = i + 1
      OBVIOUS
    <3> QED
      BY <1>0, <3>1, <3>2
  <2>3. i - k = Len(net') => i = Len(net)
    BY <1>0
  <2> QED
    BY <1>1, <2>1, <2>2, <2>3
<1> QED
  BY <1>2, <1>3, <1>4 DEF Linked

\* A client that closes takes back the end of the stream.
LEMMA LinkedClose ==
  ASSUME NEW k \in Nat, StreamTypes, Keeps(k),
         NEW e, Owned(e), NEW i \in Nat, i <= k, Linked(e, i)
  PROVE  Linked(e, i)'
<1>0. /\ Len(net') = k /\ Len(net) \in Nat /\ k <= Len(net)
      /\ DOMAIN net = 1 .. Len(net) /\ DOMAIN net' = 1 .. k
      /\ \A j \in 1 .. k : net'[j] = net[j]
  <2>1. /\ net \in Seq(Element) /\ k <= Len(net) /\ net' = SubSeq(net, 1, k)
    BY DEF StreamTypes, Keeps
  <2>2. k \in 0 .. Len(net)
    BY <2>1
  <2> QED
    BY <2>1, <2>2, PrefixFacts
<1>1. sent' = sent /\ frames' = frames /\ closed'
  BY DEF Keeps
<1>2. i < Len(net') => i < Len(net) /\ net'[i + 1] = net[i + 1]
  BY <1>0
<1>3. ASSUME e.kind \in HeaderKinds
      PROVE  i < Len(net') => net'[i + 1] = After(e)'
  <2>1. After(e)' = After(e)
    BY <1>1 DEF After
  <2> QED
    BY <1>2, <1>3, <2>1 DEF Linked
<1>4. ASSUME e.kind = "empty" PROVE BodyFollows(i, e.n)'
  <2>1. sent[e.n].body \in Nat
    BY <1>4 DEF Owned, StreamTypes
  <2>2. PICK b \in Nat : b = i + sent[e.n].body
    BY <2>1
  <2>3. /\ \A j \in i + 1 .. b : j \in DOMAIN net => net[j] = Line("byte", e.n)
        /\ b < Len(net) => IF sent[e.n].upgrade
                           THEN net[b + 1].kind \in FrameKinds /\ net[b + 1].n = 1
                           ELSE net[b + 1] = Line("first", e.n + 1)
    BY <1>4, <2>2 DEF Linked, BodyFollows
  <2>4. b < Len(net') => b < Len(net) /\ net'[b + 1] = net[b + 1]
    BY <1>0
  <2>5. \A j \in DOMAIN net' : j \in DOMAIN net /\ net'[j] = net[j]
    BY <1>0
  <2> QED
    BY <1>1, <2>2, <2>3, <2>4, <2>5 DEF BodyFollows
<1>5. ASSUME e.kind \in FrameKinds
      PROVE  i < Len(net') => net'[i + 1].kind \in FrameKinds /\ net'[i + 1].n = e.n + 1
  BY <1>2, <1>5 DEF Linked
<1> QED
  BY <1>1, <1>3, <1>4, <1>5 DEF Linked

\* What a client that sends a request, or a frame, adds to the stream.
SendsRequest(r) ==
  /\ ~closed /\ \A i \in DOMAIN sent : ~sent[i].upgrade
  /\ sent' = Append(sent, r) /\ net' = net \o RequestLines(r, Len(sent) + 1)
  /\ UNCHANGED <<frames, closed>>

SendsFrame(f) ==
  /\ ~closed /\ sent # <<>> /\ sent[Len(sent)].upgrade
  /\ frames' = Append(frames, f) /\ net' = Append(net, Line(f, Len(frames) + 1))
  /\ UNCHANGED <<sent, closed>>

ClientTypes == /\ net \in Seq(Element)
               /\ sent \in Seq(RequestType) /\ frames \in Seq(FrameKinds)

\* The lines of a request are where it was appended.
LEMMA LinesMove ==
  ASSUME NEW q, NEW p, NEW m \in Nat, NEW h \in 2 .. 4, NEW r \in RequestType, NEW n \in Nat,
         HasLines(q, 0, h, r, n), \A i \in 1 .. h + r.body : p[m + i] = q[i]
  PROVE  HasLines(p, m, h, r, n)
<1>1. r.body \in Nat /\ h \in Nat
  BY DEF RequestType
<1>2. 1 \in 1 .. h + r.body /\ 2 \in 1 .. h + r.body /\ h \in 1 .. h + r.body
  BY <1>1
<1>3. \A i \in 2 .. h - 1 : /\ i \in 1 .. h + r.body /\ i + 1 \in 1 .. h + r.body
                            /\ m + i + 1 = m + (i + 1) /\ 0 + i = i /\ 0 + i + 1 = i + 1
  BY <1>1
<1>4. \A i \in h + 1 .. h + r.body : i \in 1 .. h + r.body /\ 0 + i = i
  BY <1>1
<1>5. 0 + 1 = 1 /\ 0 + 2 = 2 /\ 0 + h = h
  BY <1>1
<1>6. p[m + 1] = Line("first", n) /\ p[m + h] = Line("empty", n)
  BY <1>2, <1>5 DEF HasLines
<1>7. \A i \in 2 .. h - 1 : \/ p[m + i] = Line("length", n) /\ r.body > 0
                            \/ p[m + i] = Line("upgrade", n) /\ r.upgrade
  BY <1>3 DEF HasLines
<1>8. \A i \in h + 1 .. h + r.body : p[m + i] = Line("byte", n)
  BY <1>4 DEF HasLines
<1>9. p[m + 2] = IF r.body > 0 THEN Line("length", n)
                 ELSE IF r.upgrade THEN Line("upgrade", n) ELSE Line("empty", n)
  BY <1>2, <1>5 DEF HasLines
<1>10. \A i \in 2 .. h - 1 :
         p[m + i + 1] = IF p[m + i].kind = "length" /\ r.upgrade
                        THEN Line("upgrade", n) ELSE Line("empty", n)
  <2> TAKE i \in 2 .. h - 1
  <2>1. p[m + i] = q[i] /\ p[m + i + 1] = q[i + 1]
    BY <1>3
  <2>2. q[i + 1] = IF q[i].kind = "length" /\ r.upgrade
                   THEN Line("upgrade", n) ELSE Line("empty", n)
    BY <1>3 DEF HasLines
  <2> QED
    BY <2>1, <2>2
<1> QED
  BY <1>6, <1>7, <1>8, <1>9, <1>10 DEF HasLines

\* What SendsRequest() does, element by element.
LEMMA SendRequestFacts ==
  ASSUME ClientTypes, UpgradeLast, NEW r \in RequestType, SendsRequest(r)
  PROVE  \E h \in 2 .. 4, n \in Nat, m \in Nat :
           /\ n = Len(sent) + 1 /\ m = Len(net)
           /\ DOMAIN sent = 1 .. n - 1 /\ DOMAIN sent' = 1 .. n /\ Len(sent') = n
           /\ sent'[n] = r /\ \A i \in DOMAIN sent : sent'[i] = sent[i]
           /\ sent' \in Seq(RequestType)
           /\ frames' = <<>> /\ frames = <<>> /\ ~closed /\ ~closed'
           /\ net' \in Seq(Element) /\ Len(net') = m + h + r.body /\ r.body \in Nat
           /\ DOMAIN net = 1 .. m /\ DOMAIN net' = 1 .. Len(net')
           /\ \A i \in 1 .. m : net'[i] = net[i]
           /\ HasLines(net', m, h, r, n)
<1>1. /\ net \in Seq(Element) /\ sent \in Seq(RequestType) /\ frames \in Seq(FrameKinds)
      /\ ~closed /\ \A i \in DOMAIN sent : ~sent[i].upgrade
      /\ sent' = Append(sent, r) /\ net' = net \o RequestLines(r, Len(sent) + 1)
      /\ frames' = frames /\ closed' = closed
  BY DEF ClientTypes, SendsRequest
<1>2. frames = <<>>
  <2>1. sent # <<>> => Len(sent) \in DOMAIN sent
    BY <1>1
  <2> QED
    BY <1>1, <2>1 DEF UpgradeLast
<1>3. PICK n \in Nat \ {0} : n = Len(sent) + 1
  BY <1>1
<1>4. PICK m \in Nat : m = Len(net)
  BY <1>1
<1>5. /\ DOMAIN sent = 1 .. n - 1 /\ DOMAIN sent' = 1 .. n /\ Len(sent') = n
      /\ sent'[n] = r /\ \A i \in DOMAIN sent : sent'[i] = sent[i]
      /\ sent' \in Seq(RequestType)
  <2>1. DOMAIN sent = 1 .. Len(sent) /\ n - 1 = Len(sent)
    BY <1>1, <1>3
  <2> QED
    BY <1>1, <1>3, <2>1, AppendFacts
<1>6. PICK q : q = RequestLines(r, n)
  OBVIOUS
<1>7. PICK h \in 2 .. 4 :
        q \in Seq(Element) /\ Len(q) = h + r.body /\ HasLines(q, 0, h, r, n)
  BY <1>6, RequestLinesFacts
<1>8. net' = net \o q
  BY <1>1, <1>3, <1>6
<1>9. /\ net' \in Seq(Element) /\ Len(net') = m + Len(q)
      /\ DOMAIN net = 1 .. m /\ DOMAIN net' = 1 .. m + Len(q)
      /\ \A i \in 1 .. m : net'[i] = net[i]
      /\ \A i \in 1 .. Len(q) : net'[m + i] = q[i]
  <2>1. net \in Seq(Element) /\ q \in Seq(Element)
    BY <1>1, <1>7
  <2>2. /\ net \o q \in Seq(Element) /\ Len(net \o q) = Len(net) + Len(q)
        /\ DOMAIN net = 1 .. Len(net) /\ DOMAIN (net \o q) = 1 .. Len(net) + Len(q)
        /\ \A i \in 1 .. Len(net) : (net \o q)[i] = net[i]
        /\ \A i \in 1 .. Len(q) : (net \o q)[Len(net) + i] = q[i]
    BY <2>1, ConcatFacts
  <2> QED
    BY <1>4, <1>8, <2>2
<1>10. r.body \in Nat /\ h \in Nat
  BY DEF RequestType
<1>11. HasLines(net', m, h, r, n)
  BY <1>7, <1>9, LinesMove
<1>12. m + Len(q) = m + h + r.body
  BY <1>7, <1>10
<1> WITNESS h \in 2 .. 4, n \in Nat, m \in Nat
<1> QED
  BY <1>1, <1>2, <1>3, <1>4, <1>5, <1>9, <1>10, <1>11, <1>12

\* A request that is sent comes where it is expected.
LEMMA LinkedRequest ==
  ASSUME ClientTypes, UpgradeLast, NEW r \in RequestType, SendsRequest(r),
         NEW e, Owned(e), NEW i \in Nat, i <= Len(net), Linked(e, i)
  PROVE  Linked(e, i)'
<1>1. PICK h \in 2 .. 4, n \in Nat, m \in Nat :
        /\ n = Len(sent) + 1 /\ m = Len(net) /\ DOMAIN sent = 1 .. n - 1
        /\ \A j \in DOMAIN sent : sent'[j] = sent[j]
        /\ frames = <<>> /\ ~closed /\ ~closed'
        /\ Len(net') = m + h + r.body /\ r.body \in Nat
        /\ DOMAIN net = 1 .. m /\ DOMAIN net' = 1 .. Len(net')
        /\ \A j \in 1 .. m : net'[j] = net[j]
        /\ HasLines(net', m, h, r, n)
  BY SendRequestFacts
<1>2. Len(net') \in Nat /\ m < Len(net') /\ h \in Nat /\ net'[m + 1] = Line("first", n)
  BY <1>1 DEF HasLines
<1>3. ASSUME e.kind \in HeaderKinds
      PROVE  /\ i < Len(net') => net'[i + 1] = After(e)'
             /\ ~closed' => i < Len(net')
  <2>1. e.n \in DOMAIN sent
    BY <1>3 DEF Owned
  <2>2. After(e)' = After(e)
    BY <1>1, <2>1 DEF After
  <2>3. i < m /\ net[i + 1] = After(e)
    BY <1>1, <1>3 DEF Linked
  <2>4. net'[i + 1] = net[i + 1] /\ i < Len(net')
    BY <1>1, <1>2, <2>3
  <2> QED
    BY <2>2, <2>3, <2>4
<1>4. ASSUME e.kind = "empty" PROVE BodyFollows(i, e.n)'
  <2>1. e.n \in DOMAIN sent /\ sent[e.n].body \in Nat /\ sent'[e.n] = sent[e.n]
        /\ ~sent[e.n].upgrade
    <3>1. e.n \in DOMAIN sent /\ sent \in Seq(RequestType)
      BY <1>4 DEF Owned, ClientTypes
    <3>2. sent[e.n] \in RequestType
      BY <3>1
    <3> QED
      BY <1>1, <3>1, <3>2 DEF RequestType, SendsRequest
  <2>2. PICK b \in Nat : b = i + sent[e.n].body
    BY <2>1
  <2>3. /\ \A j \in i + 1 .. b : j \in DOMAIN net => net[j] = Line("byte", e.n)
        /\ b < Len(net) => net[b + 1] = Line("first", e.n + 1)
        /\ b <= Len(net)
        /\ b = Len(net) => e.n = Len(sent)
    BY <1>1, <1>4, <2>1, <2>2 DEF Linked, BodyFollows
  <2>4. i + sent'[e.n].body = b
    BY <2>1, <2>2
  <2>5. \A j \in i + 1 .. b : j \in DOMAIN net' => net'[j] = Line("byte", e.n)
    BY <1>1, <2>3
  <2>6. net'[b + 1] = Line("first", e.n + 1)
    <3>1. CASE b < m
      BY <1>1, <2>3, <3>1
    <3>2. CASE b = m
      BY <1>1, <1>2, <2>3, <3>2
    <3> QED
      BY <1>1, <2>3, <3>1, <3>2
  <2>7. b < Len(net')
    BY <1>1, <1>2, <2>3
  <2>8. ~sent'[e.n].upgrade
    BY <2>1
  <2>9. b <= Len(net') /\ b # Len(net')
    BY <1>2, <2>7
  <2> QED
    BY <2>4, <2>5, <2>6, <2>8, <2>9 DEF BodyFollows
<1>5. e.kind \notin FrameKinds
  <2>1. DOMAIN frames = {}
    BY <1>1
  <2> QED
    BY <2>1 DEF Owned
<1> QED
  BY <1>3, <1>4, <1>5 DEF Linked

\* The lines of a request that is sent follow one another.
LEMMA LinkedLines ==
  ASSUME ClientTypes, UpgradeLast, NEW r \in RequestType, SendsRequest(r),
         NEW i \in DOMAIN net', i > Len(net)
  PROVE  Owned(net[i])' /\ Linked(net[i], i)'
<1>1. PICK h \in 2 .. 4, n \in Nat, m \in Nat :
        /\ n = Len(sent) + 1 /\ m = Len(net)
        /\ DOMAIN sent' = 1 .. n /\ Len(sent') = n /\ sent'[n] = r
        /\ frames' = <<>> /\ ~closed'
        /\ Len(net') = m + h + r.body /\ r.body \in Nat
        /\ DOMAIN net' = 1 .. Len(net')
        /\ HasLines(net', m, h, r, n)
  BY SendRequestFacts
<1>2. h \in Nat /\ Len(net') \in Nat /\ n \in 1 .. n
  BY <1>1
<1>3. PICK j \in 1 .. h + r.body : i = m + j
  <2>1. i - m \in 1 .. h + r.body /\ i = m + (i - m)
    BY <1>1, <1>2
  <2> QED
    BY <2>1
<1>4. \A k \in {"first", "length", "upgrade", "empty", "byte"} :
        Line(k, n).kind = k /\ Line(k, n).n = n
  BY DEF Line
<1>5. CASE j = 1
  <2>1. net'[i].kind = "first" /\ net'[i].n = n
    BY <1>1, <1>3, <1>4, <1>5 DEF HasLines
  <2>2. i + 1 = m + 2 /\ i < Len(net')
    BY <1>1, <1>2, <1>3, <1>5
  <2>3. After(net[i])' = net'[i + 1]
    BY <1>1, <2>1, <2>2 DEF After, HasLines
  <2> QED
    BY <1>1, <1>2, <2>1, <2>2, <2>3 DEF Owned, Linked, HeaderKinds, FrameKinds
<1>6. CASE j \in 2 .. h - 1
  <2>1. /\ \/ net'[i].kind = "length" /\ r.body > 0
           \/ net'[i].kind = "upgrade" /\ r.upgrade
        /\ net'[i].n = n
    <3>1. \/ net'[m + j] = Line("length", n) /\ r.body > 0
          \/ net'[m + j] = Line("upgrade", n) /\ r.upgrade
      BY <1>1, <1>6 DEF HasLines
    <3> QED
      BY <1>3, <1>4, <3>1
  <2>2. i + 1 = m + j + 1 /\ i < Len(net')
    BY <1>1, <1>2, <1>3, <1>6
  <2>3. After(net[i])' = net'[i + 1]
    <3>1. net'[i + 1] = IF net'[i].kind = "length" /\ r.upgrade
                       THEN Line("upgrade", n) ELSE Line("empty", n)
      BY <1>1, <1>3, <1>6, <2>2 DEF HasLines
    <3> QED
      BY <1>1, <2>1, <3>1 DEF After
  <2> QED
    BY <1>1, <1>2, <2>1, <2>2, <2>3 DEF Owned, Linked, HeaderKinds, FrameKinds
<1>7. CASE j = h
  <2>1. net'[i].kind = "empty" /\ net'[i].n = n
    BY <1>1, <1>3, <1>4, <1>7 DEF HasLines
  <2>2. i + sent'[n].body = Len(net')
    BY <1>1, <1>3, <1>7
  <2>3. \A k \in i + 1 .. Len(net') : net'[k] = Line("byte", n)
    <3> SUFFICES ASSUME NEW k \in i + 1 .. Len(net') PROVE net'[k] = Line("byte", n)
      OBVIOUS
    <3>1. k - m \in h + 1 .. h + r.body /\ m + (k - m) = k
      BY <1>1, <1>2, <1>3, <1>7
    <3> QED
      BY <1>1, <3>1 DEF HasLines
  <2>4. BodyFollows(i, n)'
    BY <1>1, <1>2, <2>2, <2>3 DEF BodyFollows
  <2> QED
    BY <1>1, <1>2, <2>1, <2>4 DEF Owned, Linked, HeaderKinds, FrameKinds
<1>8. CASE j \in h + 1 .. h + r.body
  <2>1. net'[i].kind = "byte" /\ net'[i].n = n
    BY <1>1, <1>3, <1>4, <1>8 DEF HasLines
  <2> QED
    BY <1>1, <1>2, <2>1 DEF Owned, Linked, HeaderKinds, FrameKinds
<1>9. j = 1 \/ j \in 2 .. h - 1 \/ j = h \/ j \in h + 1 .. h + r.body
  BY <1>1, <1>2
<1> QED
  BY <1>5, <1>6, <1>7, <1>8, <1>9

\* What SendsFrame() does, element by element.
LEMMA SendFrameFacts ==
  ASSUME ClientTypes, NEW f \in FrameKinds, SendsFrame(f)
  PROVE  \E m \in Nat, n \in Nat :
           /\ m = Len(net) /\ n = Len(frames)
           /\ net' \in Seq(Element) /\ Len(net') = m + 1
           /\ DOMAIN net = 1 .. m /\ DOMAIN net' = 1 .. m + 1
           /\ \A i \in 1 .. m : net'[i] = net[i]
           /\ net'[m + 1].kind = f /\ net'[m + 1].n = n + 1
           /\ frames' \in Seq(FrameKinds) /\ Len(frames') = n + 1
           /\ DOMAIN frames = 1 .. n /\ DOMAIN frames' = 1 .. n + 1
           /\ \A i \in 1 .. n : frames'[i] = frames[i]
           /\ frames'[n + 1] = f
           /\ sent' = sent /\ ~closed /\ ~closed' /\ sent # <<>> /\ sent[Len(sent)].upgrade
<1>1. /\ net \in Seq(Element) /\ frames \in Seq(FrameKinds)
      /\ sent' = sent /\ ~closed /\ ~closed' /\ sent # <<>> /\ sent[Len(sent)].upgrade
      /\ frames' = Append(frames, f) /\ net' = Append(net, Line(f, Len(frames) + 1))
  BY DEF ClientTypes, SendsFrame
<1>2. Len(net) \in Nat /\ Len(frames) \in Nat
  BY <1>1
<1>3. PICK l \in Element : l = Line(f, Len(frames) + 1) /\ l.kind = f /\ l.n = Len(frames) + 1
  <2>1. Line(f, Len(frames) + 1) = [kind |-> f, n |-> Len(frames) + 1]
    BY DEF Line
  <2>2. f \in LineKinds
    BY DEF LineKinds
  <2>3. [kind |-> f, n |-> Len(frames) + 1] \in Element
    BY <1>2, <2>2 DEF Element
  <2> QED
    BY <2>1, <2>3
<1>4. /\ net' \in Seq(Element) /\ Len(net') = Len(net) + 1
      /\ DOMAIN net = 1 .. Len(net) /\ DOMAIN net' = 1 .. Len(net) + 1
      /\ \A i \in 1 .. Len(net) : net'[i] = net[i]
      /\ net'[Len(net) + 1] = l
  BY <1>1, <1>3, AppendFacts
<1>5. /\ frames' \in Seq(FrameKinds) /\ Len(frames') = Len(frames) + 1
      /\ DOMAIN frames = 1 .. Len(frames) /\ DOMAIN frames' = 1 .. Len(frames) + 1
      /\ \A i \in 1 .. Len(frames) : frames'[i] = frames[i]
      /\ frames'[Len(frames) + 1] = f
  BY <1>1, AppendFacts
<1> QED
  BY <1>1, <1>2, <1>3, <1>4, <1>5

\* A frame that is sent comes where it is expected.
LEMMA LinkedFrame ==
  ASSUME ClientTypes, UpgradeLast, NEW f \in FrameKinds, SendsFrame(f),
         NEW e, Owned(e), NEW i \in Nat, i <= Len(net), Linked(e, i)
  PROVE  Linked(e, i)'
<1>1. PICK m \in Nat, n \in Nat :
        /\ m = Len(net) /\ n = Len(frames) /\ Len(net') = m + 1
        /\ DOMAIN net = 1 .. m /\ DOMAIN net' = 1 .. m + 1
        /\ \A j \in 1 .. m : net'[j] = net[j]
        /\ net'[m + 1].kind = f /\ net'[m + 1].n = n + 1
        /\ sent' = sent /\ ~closed /\ ~closed' /\ sent[Len(sent)].upgrade
  BY SendFrameFacts
<1>2. ASSUME e.kind \in HeaderKinds
      PROVE  /\ i < Len(net') => net'[i + 1] = After(e)'
             /\ ~closed' => i < Len(net')
  <2>1. After(e)' = After(e)
    BY <1>1 DEF After
  <2>2. i < m /\ net[i + 1] = After(e)
    BY <1>1, <1>2 DEF Linked
  <2>3. net'[i + 1] = net[i + 1] /\ i < Len(net')
    BY <1>1, <2>2
  <2> QED
    BY <2>1, <2>2, <2>3
<1>3. ASSUME e.kind = "empty" PROVE BodyFollows(i, e.n)'
  <2>1. sent[e.n].body \in Nat
    <3>1. e.n \in DOMAIN sent /\ sent \in Seq(RequestType)
      BY <1>3 DEF Owned, ClientTypes
    <3>2. sent[e.n] \in RequestType
      BY <3>1
    <3> QED
      BY <3>2 DEF RequestType
  <2>2. PICK b \in Nat : b = i + sent[e.n].body
    BY <2>1
  <2>3. /\ \A j \in i + 1 .. b : j \in DOMAIN net => net[j] = Line("byte", e.n)
        /\ b < Len(net) => IF sent[e.n].upgrade
                           THEN net[b + 1].kind \in FrameKinds /\ net[b + 1].n = 1
                           ELSE net[b + 1] = Line("first", e.n + 1)
        /\ b <= Len(net)
        /\ b = Len(net) => e.n = Len(sent) /\ frames = <<>>
    BY <1>1, <1>3, <2>2 DEF Linked, BodyFollows
  <2>4. i + sent'[e.n].body = b /\ b < Len(net')
    BY <1>1, <2>2, <2>3
  <2>5. \A j \in i + 1 .. b : j \in DOMAIN net' => net'[j] = Line("byte", e.n)
    BY <1>1, <2>3
  <2>6. IF sent'[e.n].upgrade
        THEN net'[b + 1].kind \in FrameKinds /\ net'[b + 1].n = 1
        ELSE net'[b + 1] = Line("first", e.n + 1)
    <3>1. CASE b < m
      <4>1. net'[b + 1] = net[b + 1]
        BY <1>1, <3>1
      <4> QED
        BY <1>1, <2>3, <3>1, <4>1
    <3>2. CASE b = m
      <4>1. n = 0 /\ sent'[e.n].upgrade
        BY <1>1, <2>3, <3>2
      <4> QED
        BY <1>1, <3>2, <4>1
    <3> QED
      BY <1>1, <2>3, <3>1, <3>2
  <2>7. b <= Len(net') /\ b # Len(net')
    BY <1>1, <2>4
  <2> QED
    BY <2>4, <2>5, <2>6, <2>7 DEF BodyFollows
<1>4. ASSUME e.kind \in FrameKinds
      PROVE  /\ i < Len(net') => net'[i + 1].kind \in FrameKinds /\ net'[i + 1].n = e.n + 1
             /\ i # Len(net')
  <2>1. /\ i < m => net[i + 1].kind \in FrameKinds /\ net[i + 1].n = e.n + 1
        /\ i = m => e.n = n
    BY <1>1, <1>4 DEF Linked
  <2>2. CASE i < m
    <3>1. net'[i + 1] = net[i + 1] /\ i # Len(net')
      BY <1>1, <2>2
    <3> QED
      BY <2>1, <2>2, <3>1
  <2>3. CASE i = m
    BY <1>1, <2>1, <2>3
  <2> QED
    BY <1>1, <2>2, <2>3
<1> QED
  BY <1>2, <1>3, <1>4 DEF Linked

\* A frame that is sent is the last element of the stream.
LEMMA LinkedLast ==
  ASSUME ClientTypes, NEW f \in FrameKinds, SendsFrame(f),
         NEW i \in DOMAIN net', i > Len(net)
  PROVE  Owned(net[i])' /\ Linked(net[i], i)'
<1>1. PICK m \in Nat, n \in Nat :
        /\ m = Len(net) /\ Len(net') = m + 1 /\ DOMAIN net' = 1 .. m + 1
        /\ net'[m + 1].kind = f /\ net'[m + 1].n = n + 1
        /\ Len(frames') = n + 1 /\ DOMAIN frames' = 1 .. n + 1 /\ frames'[n + 1] = f
  BY SendFrameFacts
<1>2. i = m + 1
  BY <1>1
<1>3. f \notin HeaderKinds \cup {"empty", "byte"}
  BY DEF FrameKinds, HeaderKinds
<1>4. ~(m + 1 < Len(net')) /\ n + 1 \in DOMAIN frames'
  BY <1>1
<1>5. Owned(net[i])'
  <2>1. f # "length" /\ f # "upgrade"
    BY DEF FrameKinds
  <2> QED
    BY <1>1, <1>2, <1>3, <1>4, <2>1 DEF Owned
<1>6. Linked(net[i], i)'
  BY <1>1, <1>2, <1>3, <1>4 DEF Linked
<1> QED
  BY <1>5, <1>6

-----------------------------------------------------------------------------
(* One step. *)

Step == Client \/ Handler \/ ShellThreads \/ Listener

\* The types once more, for the lemmas about the stream.
LEMMA Types ==
  ASSUME TypeOK
  PROVE  /\ ClientTypes /\ StreamTypes
         /\ Len(sent) \in Nat /\ DOMAIN sent = 1 .. Len(sent)
         /\ \A i \in DOMAIN sent : sent[i] \in RequestType
         /\ Len(frames) \in Nat /\ DOMAIN frames = 1 .. Len(frames)
         /\ \A i \in DOMAIN frames : frames[i] \in FrameKinds
         /\ Len(net) \in Nat /\ DOMAIN net = 1 .. Len(net)
         /\ \A i \in DOMAIN net : net[i] \in Element
         /\ Len(delivered) \in Nat /\ DOMAIN delivered = 1 .. Len(delivered)
         /\ line \in Element /\ line.n \in Nat
<1>1. /\ sent \in Seq(Requests) /\ frames \in Seq(Frames) /\ net \in Seq(Element)
      /\ delivered \in Seq(Seq(Element)) /\ line \in Element
  BY DEF TypeOK, Element
<1>2. Requests \subseteq RequestType /\ Frames \subseteq FrameKinds
  BY WebSessionAssumption
<1>3. sent \in Seq(RequestType) /\ frames \in Seq(FrameKinds)
  BY <1>1, <1>2
<1>4. /\ Len(sent) \in Nat /\ DOMAIN sent = 1 .. Len(sent)
      /\ \A i \in DOMAIN sent : sent[i] \in RequestType
  BY <1>3
<1>5. /\ Len(frames) \in Nat /\ DOMAIN frames = 1 .. Len(frames)
      /\ \A i \in DOMAIN frames : frames[i] \in FrameKinds
  BY <1>3
<1>6. /\ Len(net) \in Nat /\ DOMAIN net = 1 .. Len(net)
      /\ \A i \in DOMAIN net : net[i] \in Element
  BY <1>1
<1>7. Len(delivered) \in Nat /\ DOMAIN delivered = 1 .. Len(delivered)
  BY <1>1
<1>8. \A i \in DOMAIN sent : sent[i].body \in Nat
  BY <1>4 DEF RequestType
<1>9. line.n \in Nat
  BY <1>1 DEF Element
<1> QED
  BY <1>1, <1>3, <1>4, <1>5, <1>6, <1>7, <1>8, <1>9 DEF ClientTypes, StreamTypes

streamvars == <<sent, frames, net, closed>>
handlervars == <<pc, line, first, header, length, upgrade, url, frameIO>>

\* Who changes what.
LEMMA WhoChanges ==
  ASSUME Step
  PROVE  /\ \/ Client \/ ReadLine \/ ReadBody \/ BodyEOF \/ ReadFrame
            \/ UNCHANGED streamvars
         /\ Handler \/ UNCHANGED handlervars
         /\ \/ OnConnection \/ ExecuteRequest \/ CommandData
            \/ UNCHANGED <<request, shell, crashed>>
         /\ EvalLine \/ ShellThreads \/ UNCHANGED shellvars
         /\ Listener \/ UNCHANGED pingvars
         /\ StartFrames \/ ReadBody \/ ReadFrame \/ UNCHANGED delivered
         /\ \/ FirstLine \/ OnConnection \/ SendUpgrade \/ ExecuteRequest \/ EvalBody
            \/ CommandData \/ PongHeader \/ PongData \/ SendHead \/ SendData
            \/ HalfPingPong \/ HalfPingRaw \/ HalfPingSynHead \/ HalfPingSynData
            \/ UNCHANGED wire
<1>1. CASE Client
  <2>1. CASE SendRequest
    BY <1>1, <2>1 DEF SendRequest, ServerFrame, parse, shellvars, pingvars, streamvars,
       handlervars
  <2>2. CASE SendFrame
    BY <1>1, <2>2 DEF SendFrame, ServerFrame, parse, shellvars, pingvars, streamvars,
       handlervars
  <2>3. CASE Close
    BY <1>1, <2>3 DEF Close, ServerFrame, parse, shellvars, pingvars, streamvars,
       handlervars
  <2> QED
    BY <1>1, <2>1, <2>2, <2>3 DEF Client
<1>2. CASE Handler
  <2>1. CASE ReadLine
    BY <1>2, <2>1 DEF ReadLine, envars, parse, shellvars, pingvars, streamvars, handlervars
  <2>2. CASE ReadEOF
    BY <1>2, <2>2 DEF ReadEOF, envars, parse, shellvars, pingvars, streamvars, handlervars
  <2>3. CASE FirstLine
    BY <1>2, <2>3 DEF FirstLine, LineFrame, Put, envars, shellvars, pingvars, streamvars,
       handlervars
  <2>4. CASE HeaderLine
    BY <1>2, <2>4 DEF HeaderLine, LineFrame, envars, shellvars, pingvars, streamvars,
       handlervars
  <2>5. CASE EndOfHeader
    BY <1>2, <2>5 DEF EndOfHeader, LineFrame, envars, shellvars, pingvars, streamvars,
       handlervars
  <2>6. CASE OnConnection
    BY <1>2, <2>6 DEF OnConnection, ServePage, envars, parse, shellvars, pingvars, Put,
       streamvars, handlervars, shellvars, pingvars
  <2>7. CASE SendUpgrade
    BY <1>2, <2>7 DEF SendUpgrade, Put, envars, parse, shellvars, pingvars, streamvars,
       handlervars
  <2>8. CASE StartFrames
    BY <1>2, <2>8 DEF StartFrames, envars, parse, shellvars, pingvars, streamvars,
       handlervars
  <2>9. CASE ReadBody
    BY <1>2, <2>9 DEF ReadBody, envars, parse, shellvars, pingvars, streamvars, handlervars
  <2>10. CASE BodyEOF
    BY <1>2, <2>10 DEF BodyEOF, envars, parse, shellvars, pingvars, streamvars, handlervars
  <2>11. CASE ExecuteRequest
    BY <1>2, <2>11 DEF ExecuteRequest, Put, envars, parse, shellvars, pingvars, streamvars,
       handlervars
  <2>12. CASE EvalLine
    BY <1>2, <2>12 DEF EvalLine, envars, parse, pingvars, streamvars, handlervars,
       shellvars, pingvars
  <2>13. CASE EvalBody
    BY <1>2, <2>13 DEF EvalBody, Put, envars, shellvars, pingvars, streamvars, handlervars
  <2>14. CASE ReadFrame
    BY <1>2, <2>14 DEF ReadFrame, FrameFrame, envars, parse, shellvars, pingvars,
       streamvars, handlervars
  <2>15. CASE PongHeader
    BY <1>2, <2>15 DEF PongHeader, FrameFrame, Put, envars, parse, shellvars, pingvars,
       streamvars, handlervars
  <2>16. CASE PongData
    BY <1>2, <2>16 DEF PongData, FrameFrame, Put, envars, parse, shellvars, pingvars,
       streamvars, handlervars
  <2>17. CASE Delete
    BY <1>2, <2>17 DEF Delete, envars, parse, shellvars, pingvars, streamvars, handlervars
  <2>18. CASE CommandData
    BY <1>2, <2>18 DEF CommandData, Put, envars, parse, shellvars, pingvars, streamvars,
       handlervars
  <2> QED
    BY <1>2, <2>1, <2>2, <2>3, <2>4, <2>5, <2>6, <2>7, <2>8, <2>9, <2>10, <2>11, <2>12,
       <2>13, <2>14, <2>15, <2>16, <2>17, <2>18 DEF Handler, HandlerSteps
<1>3. CASE ShellThreads
  <2>1. CASE Evaluate
    BY <1>3, <2>1 DEF Evaluate, envars, parse, pingvars, streamvars, handlervars,
       shellvars, pingvars
  <2>2. CASE SendHead
    BY <1>3, <2>2 DEF SendHead, PollFrame, Put, envars, parse, pingvars, streamvars,
       handlervars, shellvars, pingvars
  <2>3. CASE SendData
    BY <1>3, <2>3 DEF SendData, PollFrame, Put, envars, parse, pingvars, streamvars,
       handlervars, shellvars, pingvars
  <2> QED
    BY <1>3, <2>1, <2>2, <2>3 DEF ShellThreads, ShellSends
<1>4. CASE Listener
  <2>1. CASE HalfPing
    BY <1>4, <2>1 DEF HalfPing, PingFrame, envars, parse, shellvars, streamvars,
       handlervars, shellvars, pingvars
  <2>2. CASE HalfPingMode
    BY <1>4, <2>2 DEF HalfPingMode, PingFrame, envars, parse, shellvars, streamvars,
       handlervars, shellvars, pingvars
  <2>3. CASE HalfPingPong
    BY <1>4, <2>3 DEF HalfPingPong, PingFrame, Put, envars, parse, shellvars, streamvars,
       handlervars, shellvars, pingvars
  <2>4. CASE HalfPingSyn
    BY <1>4, <2>4 DEF HalfPingSyn, PingFrame, Put, envars, parse, shellvars, streamvars,
       handlervars, shellvars, pingvars
  <2>5. CASE HalfPingSynData
    BY <1>4, <2>5 DEF HalfPingSynData, PingFrame, Put, envars, parse, shellvars,
       streamvars, handlervars, shellvars, pingvars
  <2>6. CASE HalfPingRaw
    BY <1>4, <2>6 DEF HalfPingRaw, PingFrame, Put, envars, parse, shellvars, streamvars,
       handlervars, pingvars
  <2>7. CASE HalfPingSynHead
    BY <1>4, <2>7 DEF HalfPingSynHead, PingFrame, Put, envars, parse, shellvars, streamvars,
       handlervars, pingvars
  <2> QED
    BY <1>4, <2>1, <2>2, <2>3, <2>4, <2>5, <2>6, <2>7 DEF Listener, HalfPingSteps
<1> QED
  BY <1>1, <1>2, <1>3, <1>4 DEF Step

\* Type correctness: what the client sends.
LEMMA StreamTypeStep ==
  ASSUME IInv, Step
  PROVE  /\ sent' \in Seq(Requests) /\ Len(sent') <= MaxRequests
         /\ frames' \in Seq(Frames) /\ Len(frames') <= MaxFrames
         /\ net' \in Seq(Element) /\ closed' \in BOOLEAN
<1>0. /\ sent \in Seq(Requests) /\ Len(sent) <= MaxRequests
      /\ frames \in Seq(Frames) /\ Len(frames) <= MaxFrames
      /\ net \in Seq(Element) /\ closed \in BOOLEAN
      /\ MaxRequests \in Nat /\ MaxFrames \in Nat /\ ClientTypes /\ UpgradeLast
      /\ Len(frames) \in Nat /\ Len(net) \in Nat
  <2>1. TypeOK
    BY DEF IInv
  <2> QED
    BY <2>1, Types, WebSessionAssumption DEF IInv, TypeOK, Element
<1>1. CASE SendRequest
  <2>1. PICK r \in Requests : SendsRequest(r) /\ sent' = Append(sent, r)
    BY <1>1 DEF SendRequest, SendsRequest
  <2>2. r \in RequestType
    BY <2>1, WebSessionAssumption
  <2>3. net' \in Seq(Element)
    BY <1>0, <2>1, <2>2, SendRequestFacts
  <2>4. sent' \in Seq(Requests) /\ Len(sent') = Len(sent) + 1 /\ Len(sent) \in Nat
    BY <1>0, <2>1, AppendFacts
  <2>5. Len(sent) < MaxRequests /\ frames' = frames /\ closed' = closed
    BY <1>1 DEF SendRequest
  <2> QED
    BY <1>0, <2>3, <2>4, <2>5
<1>2. CASE SendFrame
  <2>1. PICK f \in Frames : /\ frames' = Append(frames, f)
                            /\ net' = Append(net, Line(f, Len(frames) + 1))
    BY <1>2 DEF SendFrame
  <2>2. f \in FrameKinds
    BY <2>1, WebSessionAssumption
  <2>3. Line(f, Len(frames) + 1) \in Element
    BY <1>0, <2>2 DEF Line, Element, LineKinds
  <2>4. net' \in Seq(Element)
    BY <1>0, <2>1, <2>3, AppendFacts
  <2>5. frames' \in Seq(Frames) /\ Len(frames') = Len(frames) + 1
    BY <1>0, <2>1, AppendFacts
  <2>6. Len(frames) < MaxFrames /\ sent' = sent /\ closed' = closed
    BY <1>2 DEF SendFrame
  <2> QED
    BY <1>0, <2>4, <2>5, <2>6
<1>3. CASE Close
  <2>1. PICK k \in 0 .. Len(net) : net' = SubSeq(net, 1, k)
    BY <1>3 DEF Close
  <2>2. net' \in Seq(Element)
    BY <1>0, <2>1, PrefixFacts
  <2> QED
    BY <1>0, <1>3, <2>2 DEF Close
<1>4. CASE ReadLine \/ ReadFrame
  <2>1. net # <<>> /\ net' = Tail(net) /\ UNCHANGED envars
    BY <1>4 DEF ReadLine, ReadFrame, FrameFrame
  <2>2. net' \in Seq(Element)
    BY <1>0, <2>1
  <2> QED
    BY <1>0, <2>1, <2>2 DEF envars
<1>5. CASE ReadBody
  <2>1. length <= Len(net) /\ net' = SubSeq(net, length + 1, Len(net)) /\ UNCHANGED envars
    BY <1>0, <1>5 DEF ReadBody, IInv, TypeOK
  <2>2. length \in 0 .. Len(net)
    BY <1>0, <2>1 DEF IInv, TypeOK
  <2>3. net' \in Seq(Element)
    BY <1>0, <2>1, <2>2, DropFacts
  <2> QED
    BY <1>0, <2>1, <2>3 DEF envars
<1>6. CASE BodyEOF
  BY <1>0, <1>6 DEF BodyEOF, envars
<1>7. CASE UNCHANGED streamvars
  BY <1>0, <1>7 DEF streamvars
<1> QED
  BY <1>1, <1>2, <1>3, <1>4, <1>5, <1>6, <1>7, WhoChanges DEF Client

\* Type correctness: the handler thread.
HandlerTypes ==
  /\ pc \in HandlerPCs /\ line \in Element /\ length \in Nat
  /\ url \in {"info", "page", "shell", "command"}

HandlerFlags ==
  first \in BOOLEAN /\ header \in BOOLEAN /\ upgrade \in BOOLEAN /\ frameIO \in BOOLEAN

\* The program counter, the line, the length and the URL.
LEMMA HandlerTypeStep ==
  ASSUME IInv, Step
  PROVE  HandlerTypes'
<1>0. HandlerTypes /\ net \in Seq(Element) /\ TypeOK
  BY DEF IInv, TypeOK, HandlerTypes, Element
<1>1. ASSUME net # <<>> PROVE Head(net) \in Element
  BY <1>0, <1>1
<1>2. CASE ReadLine
  BY <1>0, <1>1, <1>2 DEF ReadLine, parse, HandlerTypes, HandlerPCs
<1>3. CASE FirstLine
  <2>1. line.kind = "first" => sent[line.n] \in RequestType
    BY <1>0, Types DEF IInv, Stream, Owned, HeaderKinds
  <2>2. line.kind = "first" => sent[line.n].url \in {"info", "page", "shell", "command"}
    BY <2>1 DEF RequestType
  <2> QED
    BY <1>0, <1>3, <2>2 DEF FirstLine, LineFrame, HandlerTypes, HandlerPCs
<1>4. CASE HeaderLine
  <2>1. line.kind = "length" => sent[line.n] \in RequestType
    BY <1>0, Types DEF IInv, Stream, Owned, HeaderKinds
  <2>2. line.kind = "length" => sent[line.n].body \in Nat
    BY <2>1 DEF RequestType
  <2>3. length' \in Nat
    BY <1>0, <1>4, <2>2 DEF HeaderLine, HandlerTypes
  <2> QED
    BY <1>0, <1>4, <2>3 DEF HeaderLine, LineFrame, HandlerTypes, HandlerPCs
<1>5. CASE ReadFrame
  <2>1. pc' \in HandlerPCs
    BY <1>5 DEF ReadFrame, HandlerPCs
  <2> QED
    BY <1>0, <1>1, <1>5, <2>1 DEF ReadFrame, FrameFrame, parse, HandlerTypes
<1>6. CASE EvalBody
  BY <1>0, <1>6 DEF EvalBody, HandlerTypes, HandlerPCs
<1>7. CASE ReadEOF \/ BodyEOF \/ Delete
  BY <1>0, <1>7 DEF ReadEOF, BodyEOF, Delete, parse, HandlerTypes, HandlerPCs
<1>8. CASE EndOfHeader \/ OnConnection
  BY <1>0, <1>8 DEF EndOfHeader, LineFrame, OnConnection, parse, HandlerTypes, HandlerPCs
<1>9. CASE SendUpgrade \/ ExecuteRequest \/ CommandData
  BY <1>0, <1>9 DEF SendUpgrade, ExecuteRequest, CommandData, parse, HandlerTypes, HandlerPCs
<1>10. CASE StartFrames \/ ReadBody \/ EvalLine
  BY <1>0, <1>10 DEF StartFrames, ReadBody, EvalLine, parse, HandlerTypes, HandlerPCs
<1>11. CASE PongHeader \/ PongData
  BY <1>0, <1>11 DEF PongHeader, PongData, FrameFrame, parse, HandlerTypes, HandlerPCs
<1>12. CASE UNCHANGED handlervars
  BY <1>0, <1>12 DEF handlervars, HandlerTypes
<1> QED
  BY <1>2, <1>3, <1>4, <1>5, <1>6, <1>7, <1>8, <1>9, <1>10, <1>11, <1>12, WhoChanges
  DEF Handler, HandlerSteps

\* The flags.
LEMMA HandlerFlagStep ==
  ASSUME IInv, Step
  PROVE  HandlerFlags'
<1>0. HandlerFlags
  BY DEF IInv, TypeOK, HandlerFlags
<1>1. CASE FirstLine \/ EndOfHeader
  BY <1>0, <1>1, Zenon DEF FirstLine, EndOfHeader, LineFrame, HandlerFlags
<1>2. CASE HeaderLine
  <2>1. upgrade' \in BOOLEAN
    BY <1>2 DEF HeaderLine
  <2>2. first' = first /\ header' = header /\ frameIO' = frameIO
    BY <1>2 DEF HeaderLine, LineFrame
  <2> QED
    BY <1>0, <2>1, <2>2, Zenon DEF HandlerFlags
<1>3. CASE StartFrames
  BY <1>0, <1>3, Zenon DEF StartFrames, parse, HandlerFlags
<1>4. CASE EvalBody
  BY <1>0, <1>4, Zenon DEF EvalBody, HandlerFlags
<1>5. ASSUME UNCHANGED <<first, header, upgrade, frameIO>> PROVE HandlerFlags'
  BY <1>0, <1>5, Zenon DEF HandlerFlags
<1>6. CASE ReadLine \/ ReadEOF \/ OnConnection \/ SendUpgrade \/ ReadBody \/ BodyEOF
  BY <1>5, <1>6, Zenon DEF ReadLine, ReadEOF, OnConnection, SendUpgrade, ReadBody, BodyEOF,
     parse
<1>7. CASE \/ ExecuteRequest \/ CommandData \/ EvalLine \/ ReadFrame \/ PongHeader
           \/ PongData \/ Delete
  BY <1>5, <1>7, Zenon
  DEF ExecuteRequest, CommandData, EvalLine, ReadFrame, PongHeader, PongData, Delete, FrameFrame, parse
<1>8. CASE UNCHANGED handlervars
  BY <1>5, <1>8, Zenon DEF handlervars
<1> QED
  BY <1>1, <1>2, <1>3, <1>4, <1>6, <1>7, <1>8, WhoChanges DEF Handler, HandlerSteps

\* Type correctness: requests and shells; no more than the client has sent.
LEMMA RequestTypeStep ==
  ASSUME IInv, Step
  PROVE  /\ request' \in {"none", "shell", "command"}
         /\ shell' \in 0 .. MaxRequests /\ crashed' \in BOOLEAN
<1>0. /\ request \in {"none", "shell", "command"} /\ shell \in 0 .. MaxRequests
      /\ crashed \in BOOLEAN /\ MaxRequests \in Nat
  BY WebSessionAssumption DEF IInv, TypeOK
<1>1. CASE OnConnection
  <2>1. request' \in {"none", "shell", "command"} /\ shell' = shell /\ crashed' = crashed
    BY <1>0, <1>1 DEF OnConnection
  <2> QED
    BY <1>0, <2>1
<1>2. CASE ExecuteRequest
  <2>1. shell < Len(sent) /\ Len(sent) <= MaxRequests /\ Len(sent) \in Nat
    BY <1>2, Types DEF ExecuteRequest, IInv, Shells, TypeOK
  <2>2. shell' = shell \/ shell' = shell + 1
    BY <1>2 DEF ExecuteRequest
  <2>3. shell' \in 0 .. MaxRequests
    BY <1>0, <2>1, <2>2
  <2>4. crashed' \in BOOLEAN
    BY <1>0, <1>2 DEF ExecuteRequest
  <2>5. request' = "none"
    BY <1>2 DEF ExecuteRequest
  <2> QED
    BY <2>3, <2>4, <2>5
<1>3. CASE UNCHANGED <<request, shell, crashed>>
  BY <1>0, <1>3
<1>4. CASE CommandData
  <2>1. crashed' \in BOOLEAN
    BY <1>4 DEF CommandData
  <2> QED
    BY <1>0, <1>4, <2>1 DEF CommandData
<1> QED
  BY <1>1, <1>2, <1>3, <1>4, WhoChanges

\* Type correctness: the threads of the shell and half_ping().
LEMMA ShellTypeStep ==
  ASSUME IInv, Step
  PROVE  /\ evalq' \in Seq(Nat) /\ poll' \in [at: {"idle", "head", "data"}, n: Nat]
         /\ ping' \in PingPCs /\ pings' \in 0 .. MaxHalfPings
<1>0. /\ evalq \in Seq(Nat) /\ poll \in [at: {"idle", "head", "data"}, n: Nat]
      /\ ping \in PingPCs /\ pings \in 0 .. MaxHalfPings
      /\ MaxHalfPings \in Nat /\ Len(delivered) \in Nat
  BY WebSessionAssumption, Types DEF IInv, TypeOK
<1>1. evalq' \in Seq(Nat) /\ poll' \in [at: {"idle", "head", "data"}, n: Nat]
  <2>1. CASE EvalLine
    BY <1>0, <2>1 DEF EvalLine
  <2>2. CASE Evaluate
    <3>1. Head(evalq) \in Nat /\ Tail(evalq) \in Seq(Nat)
      BY <1>0, <2>2 DEF Evaluate
    <3> QED
      BY <1>0, <2>2, <3>1 DEF Evaluate
  <2>3. CASE SendHead
    BY <1>0, <2>3 DEF SendHead, PollFrame
  <2>4. CASE SendData
    BY <1>0, <2>4 DEF SendData, PollFrame, Idle
  <2>5. CASE UNCHANGED shellvars
    BY <1>0, <2>5 DEF shellvars
  <2> QED
    BY <2>1, <2>2, <2>3, <2>4, <2>5, WhoChanges DEF ShellThreads, ShellSends
<1>2. ping' \in PingPCs /\ pings' \in 0 .. MaxHalfPings
  <2>1. CASE HalfPing
    BY <1>0, <2>1 DEF HalfPing, PingPCs
  <2>2. CASE HalfPingSteps
    BY <1>0, <2>2
    DEF HalfPingSteps, HalfPingMode, HalfPingPong, HalfPingSyn, HalfPingRaw, HalfPingSynHead,
        HalfPingSynData, PingPCs
  <2>3. CASE UNCHANGED pingvars
    BY <1>0, <2>3 DEF pingvars
  <2> QED
    BY <2>1, <2>2, <2>3, WhoChanges DEF Listener
<1> QED
  BY <1>1, <1>2

\* Type correctness: what OnLine() was called with.
LEMMA DeliveredTypeStep ==
  ASSUME IInv, Step
  PROVE  delivered' \in Seq(Seq(Element))
<1>0. delivered \in Seq(Seq(Element)) /\ net \in Seq(Element) /\ line \in Element
  BY DEF IInv, TypeOK, Element
<1>1. CASE StartFrames
  <2>1. <<line>> \in Seq(Element) /\ delivered' = Append(delivered, <<line>>)
    BY <1>0, <1>1 DEF StartFrames
  <2> QED
    BY <1>0, <2>1, AppendFacts
<1>2. CASE ReadBody
  <2>1. length \in 0 .. Len(net)
    BY <1>0, <1>2 DEF ReadBody, IInv, TypeOK
  <2>2. SubSeq(net, 1, length) \in Seq(Element)
    BY <1>0, <2>1, PrefixFacts
  <2>3. delivered' = Append(delivered, SubSeq(net, 1, length))
    BY <1>2 DEF ReadBody
  <2> QED
    BY <1>0, <2>2, <2>3, AppendFacts
<1>3. CASE ReadFrame
  <2>1. <<Head(net)>> \in Seq(Element)
    BY <1>0, <1>3 DEF ReadFrame
  <2>2. delivered' = Append(delivered, <<Head(net)>>) \/ delivered' = delivered
    BY <1>3 DEF ReadFrame
  <2>3. Append(delivered, <<Head(net)>>) \in Seq(Seq(Element))
    BY <1>0, <2>1, AppendFacts
  <2> QED
    BY <1>0, <2>2, <2>3
<1>4. CASE UNCHANGED delivered
  BY <1>0, <1>4
<1> QED
  BY <1>1, <1>2, <1>3, <1>4, WhoChanges

-----------------------------------------------------------------------------
(* What is written. *)

Written == [kind: WriteKinds, n: Nat]
FrameWrites == {"pong", "head", "data", "cmdhead", "cmddata", "ponghead", "pongdata",
                "synhead", "syndata"}

Has101(q) == \E i \in DOMAIN q : q[i].kind = "101"
WellFramed(q) ==
  \A i \in DOMAIN q :
    LET announced == \E j \in 1 .. i - 1 : q[j].kind = "101"
    IN  /\ IsFrame(q[i]) => announced
        /\ announced => IsFrame(q[i]) \/ q[i].kind = "syn"
CountIn(q, kind) == Cardinality({i \in DOMAIN q : q[i].kind = kind})

\* One more write keeps the order of HTTP and frames if it is of the right
\* side.
LEMMA WellFramedAppend ==
  ASSUME NEW q \in Seq(Written), NEW w \in Written, WellFramed(q),
         w.kind \in FrameWrites => Has101(q),
         Has101(q) => w.kind \in FrameWrites \cup {"syn"}
  PROVE  WellFramed(Append(q, w))
<1>1. /\ Len(q) \in Nat /\ DOMAIN q = 1 .. Len(q) /\ DOMAIN Append(q, w) = 1 .. Len(q) + 1
      /\ \A i \in 1 .. Len(q) : Append(q, w)[i] = q[i]
      /\ Append(q, w)[Len(q) + 1] = w
  BY AppendFacts
<1>2. PICK p : p = Append(q, w)
  OBVIOUS
<1>3. IsFrame(w) <=> w.kind \in FrameWrites
  BY DEF IsFrame, FrameWrites
<1>4. ASSUME NEW i \in 1 .. Len(q)
      PROVE  LET announced == \E j \in 1 .. i - 1 : p[j].kind = "101"
             IN  /\ IsFrame(p[i]) => announced
                 /\ announced => IsFrame(p[i]) \/ p[i].kind = "syn"
  <2>1. p[i] = q[i] /\ \A j \in 1 .. i - 1 : p[j] = q[j]
    BY <1>1, <1>2
  <2> QED
    BY <1>1, <2>1 DEF WellFramed
<1>5. /\ IsFrame(w) => \E j \in 1 .. Len(q) : p[j].kind = "101"
      /\ (\E j \in 1 .. Len(q) : p[j].kind = "101") => IsFrame(w) \/ w.kind = "syn"
  BY <1>1, <1>2, <1>3 DEF Has101
<1>6. Len(q) + 1 - 1 = Len(q) /\ \A i \in 1 .. Len(q) + 1 : i \in 1 .. Len(q) \/ i = Len(q) + 1
  BY <1>1
<1>7. WellFramed(p)
  <2> SUFFICES ASSUME NEW i \in 1 .. Len(q) + 1
               PROVE  LET announced == \E j \in 1 .. i - 1 : p[j].kind = "101"
                      IN  /\ IsFrame(p[i]) => announced
                          /\ announced => IsFrame(p[i]) \/ p[i].kind = "syn"
    BY <1>1, <1>2 DEF WellFramed
  <2>1. CASE i \in 1 .. Len(q)
    BY <1>4, <2>1
  <2>2. CASE i = Len(q) + 1
    <3>1. p[i] = w /\ i - 1 = Len(q)
      BY <1>1, <1>2, <1>6, <2>2
    <3> QED
      BY <1>5, <3>1
  <2> QED
    BY <1>6, <2>1, <2>2
<1> QED
  BY <1>2, <1>7

\* How one more write counts.
LEMMA CountAppend ==
  ASSUME NEW q \in Seq(Written), NEW w \in Written, NEW c
  PROVE  /\ CountIn(q, c) \in Nat
         /\ CountIn(Append(q, w), c) = CountIn(q, c) + (IF w.kind = c THEN 1 ELSE 0)
<1>1. /\ Len(q) \in Nat /\ DOMAIN q = 1 .. Len(q) /\ DOMAIN Append(q, w) = 1 .. Len(q) + 1
      /\ \A i \in 1 .. Len(q) : Append(q, w)[i] = q[i]
      /\ Append(q, w)[Len(q) + 1] = w
  BY AppendFacts
<1>2. PICK p : p = Append(q, w)
  OBVIOUS
<1>3. PICK A : A = {i \in 1 .. Len(q) : q[i].kind = c}
  OBVIOUS
<1>4. IsFiniteSet(A) /\ Cardinality(A) \in Nat
  <2>1. IsFiniteSet(1 .. Len(q))
    BY <1>1, FS_Interval
  <2>2. A \subseteq 1 .. Len(q)
    BY <1>3
  <2> QED
    BY <2>1, <2>2, FS_Subset, FS_CardinalityType
<1>5. CountIn(q, c) = Cardinality(A)
  BY <1>1, <1>3 DEF CountIn
<1>6. Len(q) + 1 \notin A
  BY <1>1, <1>3
<1>7. CASE w.kind = c
  <2>1. {i \in 1 .. Len(q) + 1 : p[i].kind = c} = A \cup {Len(q) + 1}
    BY <1>1, <1>2, <1>3, <1>7
  <2>2. Cardinality(A \cup {Len(q) + 1}) = Cardinality(A) + 1
    BY <1>4, <1>6, FS_AddElement
  <2>3. CountIn(p, c) = Cardinality(A) + 1
    BY <1>1, <1>2, <2>1, <2>2 DEF CountIn
  <2> QED
    BY <1>2, <1>4, <1>5, <1>7, <2>3
<1>8. CASE w.kind # c
  <2>1. {i \in 1 .. Len(q) + 1 : p[i].kind = c} = A
    BY <1>1, <1>2, <1>3, <1>8
  <2>2. CountIn(p, c) = Cardinality(A)
    BY <1>1, <1>2, <2>1 DEF CountIn
  <2> QED
    BY <1>2, <1>4, <1>5, <1>8, <2>2
<1> QED
  BY <1>7, <1>8

\* The writes so far, with the 101 or without.
LEMMA Has101Append ==
  ASSUME NEW q \in Seq(Written), NEW w \in Written
  PROVE  Has101(Append(q, w)) <=> Has101(q) \/ w.kind = "101"
<1>1. /\ Len(q) \in Nat /\ DOMAIN q = 1 .. Len(q) /\ DOMAIN Append(q, w) = 1 .. Len(q) + 1
      /\ \A i \in 1 .. Len(q) : Append(q, w)[i] = q[i]
      /\ Append(q, w)[Len(q) + 1] = w
  BY AppendFacts
<1>2. PICK p : p = Append(q, w)
  OBVIOUS
<1>3. ASSUME Has101(p) PROVE Has101(q) \/ w.kind = "101"
  <2>1. PICK i \in 1 .. Len(q) + 1 : p[i].kind = "101"
    BY <1>1, <1>2, <1>3 DEF Has101
  <2>2. CASE i = Len(q) + 1
    BY <1>1, <1>2, <2>1, <2>2
  <2>3. CASE i \in 1 .. Len(q)
    BY <1>1, <1>2, <2>1, <2>3 DEF Has101
  <2> QED
    BY <1>1, <2>2, <2>3
<1>4. ASSUME Has101(q) \/ w.kind = "101" PROVE Has101(p)
  <2>1. Len(q) + 1 \in DOMAIN p /\ \A i \in DOMAIN q : i \in DOMAIN p
    BY <1>1, <1>2
  <2> QED
    BY <1>1, <1>2, <1>4, <2>1 DEF Has101
<1> QED
  BY <1>2, <1>3, <1>4

\* A write that comes on the right side of the 101.
LEMMA PutFacts ==
  ASSUME IInv, NEW k \in WriteKinds, NEW n \in Nat, Put(k, n),
         k \in FrameWrites => Announced,
         Announced => k \in FrameWrites \cup {"syn"}
  PROVE  /\ wire' \in Seq(Written) /\ Framed'
         /\ Announced' <=> Announced \/ k = "101"
         /\ \A c \in WriteKinds : /\ Count(c) \in Nat
                                  /\ Count(c)' = Count(c) + (IF k = c THEN 1 ELSE 0)
<1>1. PICK w \in Written : w = Write(k, n) /\ w.kind = k
  <2>1. [kind |-> k, n |-> n] \in Written
    BY DEF Written
  <2> QED
    BY <2>1 DEF Write
<1>2. wire \in Seq(Written) /\ wire' = Append(wire, w)
  BY <1>1 DEF IInv, TypeOK, Written, Put
<1>3. wire' \in Seq(Written)
  BY <1>2, AppendFacts
<1>4. Framed'
  <2>1. WellFramed(wire) /\ (Has101(wire) <=> Announced)
    BY DEF IInv, Framed, Upgraded, WellFramed, Has101, Announced
  <2>2. WellFramed(Append(wire, w))
    BY <1>1, <1>2, <2>1, WellFramedAppend
  <2>3. WellFramed(wire')
    BY <1>2, <2>2
  <2> QED
    BY <2>3 DEF Framed, Upgraded, WellFramed
<1>5. Announced' <=> Announced \/ k = "101"
  <2>1. Has101(Append(wire, w)) <=> Has101(wire) \/ w.kind = "101"
    BY <1>2, Has101Append
  <2>2. Has101(wire') <=> Has101(wire) \/ k = "101"
    BY <1>1, <1>2, <2>1
  <2> QED
    BY <2>2 DEF Has101, Announced
<1>6. ASSUME NEW c \in WriteKinds
      PROVE  Count(c) \in Nat /\ Count(c)' = Count(c) + (IF k = c THEN 1 ELSE 0)
  <2>1. /\ CountIn(wire, c) \in Nat
        /\ CountIn(Append(wire, w), c) = CountIn(wire, c) + (IF w.kind = c THEN 1 ELSE 0)
    BY <1>2, CountAppend
  <2>2. CountIn(wire', c) = CountIn(wire, c) + (IF k = c THEN 1 ELSE 0)
    BY <1>1, <1>2, <2>1
  <2> QED
    BY <2>1, <2>2 DEF Count, CountIn
<1> QED
  BY <1>3, <1>4, <1>5, <1>6

\* Which side of the 101 the handler thread is on.
LEMMA ModeFacts ==
  ASSUME IInv
  PROVE  /\ pc \in {"line", "connect", "body"} => ~Announced
         /\ ~frameIO /\ pc # "upgrade" => ~Announced
         /\ pc \in {"pong", "pongdata", "cmddata"} => frameIO
         /\ frameIO => Announced /\ upgrade /\ pc # "upgrade"
         /\ pc = "online" /\ upgrade => frameIO
         /\ line.n \in Nat /\ poll.n \in Nat
<1>1. line.n \in Nat /\ poll.n \in Nat
  BY DEF IInv, TypeOK
<1> QED
  BY <1>1 DEF IInv, Writers, Cursor, HttpCursor, FrameCursor

\* Where the writers are, as a whole.
WritersOK == Framed /\ Writers /\ Halves

\* A step that writes nothing.
LEMMA NoWriteFacts ==
  ASSUME IInv, UNCHANGED wire
  PROVE  /\ Framed' /\ (Announced' <=> Announced)
         /\ Count("head")' = Count("head") /\ Count("data")' = Count("data")
         /\ Count("synhead")' = Count("synhead") /\ Count("syndata")' = Count("syndata")
  BY DEF IInv, Framed, Upgraded, Announced, Count

\* The counts are numbers.
LEMMA CountTypes ==
  ASSUME IInv
  PROVE  \A c \in WriteKinds : Count(c) \in Nat
<1>1. wire \in Seq(Written)
  BY DEF IInv, TypeOK, Written
<1>2. PICK w \in Written : w = [kind |-> "syn", n |-> 0]
  BY DEF Written, WriteKinds
<1> QED
  BY <1>1, <1>2, CountAppend DEF Count, CountIn

\* One write: what it changes in the counts.
LEMMA OneWrite ==
  ASSUME IInv, NEW k \in WriteKinds, NEW n \in Nat, Put(k, n),
         k \in FrameWrites => Announced,
         Announced => k \in FrameWrites \cup {"syn"}
  PROVE  /\ wire' \in Seq(Written) /\ Framed'
         /\ Announced' <=> Announced \/ k = "101"
         /\ Count("head")' = Count("head") + (IF k = "head" THEN 1 ELSE 0)
         /\ Count("data")' = Count("data") + (IF k = "data" THEN 1 ELSE 0)
         /\ Count("synhead")' = Count("synhead") + (IF k = "synhead" THEN 1 ELSE 0)
         /\ Count("syndata")' = Count("syndata") + (IF k = "syndata" THEN 1 ELSE 0)
<1>1. /\ "head" \in WriteKinds /\ "data" \in WriteKinds
      /\ "synhead" \in WriteKinds /\ "syndata" \in WriteKinds
  BY DEF WriteKinds
<1> QED
  BY <1>1, PutFacts

\* What is written is HTTP, then frames, and what has been begun is finished.
LEMMA WireStep ==
  ASSUME IInv, Step
  PROVE  wire' \in Seq(Written) /\ WritersOK'
<1>0. /\ \A c \in {"head", "data", "synhead", "syndata"} : Count(c) \in Nat
      /\ wire \in Seq(Written) /\ Writers /\ Halves
  BY CountTypes DEF IInv, TypeOK, Written, WriteKinds
<1>1. CASE FirstLine
  <2>1. /\ frameIO' = frameIO /\ evalq' = evalq /\ poll' = poll /\ ping' = ping
        /\ pc = "line" /\ pc' \in {"read", "dtor"}
    BY <1>1 DEF FirstLine, LineFrame, shellvars, pingvars
  <2>2. ASSUME Put("501", line.n) PROVE wire' \in Seq(Written) /\ WritersOK'
    <3>1. "501" \in WriteKinds /\ "501" \notin FrameWrites /\ ~Announced
      BY <1>0, <2>1, <2>2, ModeFacts DEF WriteKinds, FrameWrites, Writers
    <3>2. line.n \in Nat
      BY ModeFacts
    <3>3. /\ wire' \in Seq(Written) /\ Framed' /\ ~Announced'
          /\ Count("head")' = Count("head") + 0 /\ Count("data")' = Count("data") + 0
          /\ Count("synhead")' = Count("synhead") + 0 /\ Count("syndata")' = Count("syndata") + 0
      BY <2>2, <3>1, <3>2, OneWrite
    <3>4. Writers'
      BY <1>0, <2>1, <2>2, <3>1, <3>3 DEF Writers
    <3>5. Halves'
      BY <1>0, <2>1, <2>2, <3>1, <3>3 DEF Halves
    <3> QED
      BY <3>3, <3>4, <3>5 DEF WritersOK
  <2>3. ASSUME UNCHANGED wire PROVE wire' \in Seq(Written) /\ WritersOK'
    BY <1>0, <2>1, <2>3, NoWriteFacts, ModeFacts DEF WritersOK, Writers, Halves
  <2> QED
    BY <1>1, <2>2, <2>3 DEF FirstLine
<1>2. CASE OnConnection
  <2>1. /\ frameIO' = frameIO /\ evalq' = evalq /\ poll' = poll /\ ping' = ping
        /\ pc = "connect" /\ pc' \in {"dtor", "upgrade", "body"}
    BY <1>2 DEF OnConnection, shellvars, pingvars
  <2>2. ASSUME Put("page", line.n) PROVE wire' \in Seq(Written) /\ WritersOK'
    <3>1. "page" \in WriteKinds /\ "page" \notin FrameWrites /\ ~Announced
      BY <1>0, <2>1, <2>2, ModeFacts DEF WriteKinds, FrameWrites, Writers
    <3>2. line.n \in Nat
      BY ModeFacts
    <3>3. /\ wire' \in Seq(Written) /\ Framed' /\ ~Announced'
          /\ Count("head")' = Count("head") + 0 /\ Count("data")' = Count("data") + 0
          /\ Count("synhead")' = Count("synhead") + 0 /\ Count("syndata")' = Count("syndata") + 0
      BY <2>2, <3>1, <3>2, OneWrite
    <3>4. Writers'
      BY <1>0, <2>1, <2>2, <3>1, <3>3 DEF Writers
    <3>5. Halves'
      BY <1>0, <2>1, <2>2, <3>1, <3>3 DEF Halves
    <3> QED
      BY <3>3, <3>4, <3>5 DEF WritersOK
  <2>3. ASSUME UNCHANGED wire PROVE wire' \in Seq(Written) /\ WritersOK'
    BY <1>0, <2>1, <2>3, NoWriteFacts, ModeFacts DEF WritersOK, Writers, Halves
  <2> QED
    BY <1>2, <2>2, <2>3 DEF OnConnection, ServePage
<1>3. CASE SendUpgrade
  <2>1. /\ frameIO' = frameIO /\ evalq' = evalq /\ poll' = poll /\ ping' = ping
        /\ pc = "upgrade" /\ pc' = "upgrade" /\ ~Announced
    BY <1>3 DEF SendUpgrade, shellvars, pingvars, Announced
  <2>2. ASSUME Put("101", line.n) PROVE wire' \in Seq(Written) /\ WritersOK'
    <3>1. "101" \in WriteKinds /\ "101" \notin FrameWrites /\ ~Announced
      BY <1>0, <2>1, <2>2, ModeFacts DEF WriteKinds, FrameWrites, Writers
    <3>2. line.n \in Nat
      BY ModeFacts
    <3>3. /\ wire' \in Seq(Written) /\ Framed' /\ Announced'
          /\ Count("head")' = Count("head") + 0 /\ Count("data")' = Count("data") + 0
          /\ Count("synhead")' = Count("synhead") + 0 /\ Count("syndata")' = Count("syndata") + 0
      BY <2>2, <3>1, <3>2, OneWrite
    <3>4. Writers'
      BY <1>0, <2>1, <2>2, <3>1, <3>3 DEF Writers
    <3>5. Halves'
      BY <1>0, <2>1, <2>2, <3>1, <3>3 DEF Halves
    <3> QED
      BY <3>3, <3>4, <3>5 DEF WritersOK
  <2> QED
    BY <1>3, <2>2 DEF SendUpgrade
<1>4. CASE EvalBody
  <2>1. /\ frameIO' = frameIO /\ evalq' = evalq /\ poll' = poll /\ ping' = ping
        /\ pc = "online" /\ pc' = "read" /\ ~upgrade
    BY <1>4 DEF EvalBody, shellvars, pingvars
  <2>2. ASSUME Put("reply", line.n) PROVE wire' \in Seq(Written) /\ WritersOK'
    <3>1. "reply" \in WriteKinds /\ "reply" \notin FrameWrites /\ ~Announced
      BY <1>0, <2>1, <2>2, ModeFacts DEF WriteKinds, FrameWrites, Writers
    <3>2. line.n \in Nat
      BY ModeFacts
    <3>3. /\ wire' \in Seq(Written) /\ Framed' /\ ~Announced'
          /\ Count("head")' = Count("head") + 0 /\ Count("data")' = Count("data") + 0
          /\ Count("synhead")' = Count("synhead") + 0 /\ Count("syndata")' = Count("syndata") + 0
      BY <2>2, <3>1, <3>2, OneWrite
    <3>4. Writers'
      BY <1>0, <2>1, <2>2, <3>1, <3>3 DEF Writers
    <3>5. Halves'
      BY <1>0, <2>1, <2>2, <3>1, <3>3 DEF Halves
    <3> QED
      BY <3>3, <3>4, <3>5 DEF WritersOK
  <2>3. ASSUME UNCHANGED wire PROVE wire' \in Seq(Written) /\ WritersOK'
    BY <1>0, <2>1, <2>3, NoWriteFacts, ModeFacts DEF WritersOK, Writers, Halves
  <2> QED
    BY <1>4, <2>2, <2>3 DEF EvalBody
<1>5. CASE PongHeader
  <2>1. /\ frameIO' = frameIO /\ evalq' = evalq /\ poll' = poll /\ ping' = ping
        /\ pc = "pong" /\ pc' \in {"pongdata", "read"}
    BY <1>5 DEF PongHeader, FrameFrame, shellvars, pingvars
  <2>2. ASSUME Put("ponghead", line.n) PROVE wire' \in Seq(Written) /\ WritersOK'
    <3>1. "ponghead" \in WriteKinds /\ "ponghead" \in FrameWrites /\ Announced /\ frameIO
      BY <1>0, <2>1, <2>2, ModeFacts DEF WriteKinds, FrameWrites, Writers
    <3>2. line.n \in Nat
      BY ModeFacts
    <3>3. /\ wire' \in Seq(Written) /\ Framed' /\ Announced'
          /\ Count("head")' = Count("head") + 0 /\ Count("data")' = Count("data") + 0
          /\ Count("synhead")' = Count("synhead") + 0 /\ Count("syndata")' = Count("syndata") + 0
      BY <2>2, <3>1, <3>2, OneWrite
    <3>4. Writers'
      BY <1>0, <2>1, <2>2, <3>1, <3>3 DEF Writers
    <3>5. Halves'
      BY <1>0, <2>1, <2>2, <3>1, <3>3 DEF Halves
    <3> QED
      BY <3>3, <3>4, <3>5 DEF WritersOK
  <2> QED
    BY <1>5, <2>2 DEF PongHeader
<1>6. CASE PongData
  <2>1. /\ frameIO' = frameIO /\ evalq' = evalq /\ poll' = poll /\ ping' = ping
        /\ pc = "pongdata" /\ pc' = "read"
    BY <1>6 DEF PongData, FrameFrame, shellvars, pingvars
  <2>2. ASSUME Put("pongdata", line.n) PROVE wire' \in Seq(Written) /\ WritersOK'
    <3>1. "pongdata" \in WriteKinds /\ "pongdata" \in FrameWrites /\ Announced /\ frameIO
      BY <1>0, <2>1, <2>2, ModeFacts DEF WriteKinds, FrameWrites, Writers
    <3>2. line.n \in Nat
      BY ModeFacts
    <3>3. /\ wire' \in Seq(Written) /\ Framed' /\ Announced'
          /\ Count("head")' = Count("head") + 0 /\ Count("data")' = Count("data") + 0
          /\ Count("synhead")' = Count("synhead") + 0 /\ Count("syndata")' = Count("syndata") + 0
      BY <2>2, <3>1, <3>2, OneWrite
    <3>4. Writers'
      BY <1>0, <2>1, <2>2, <3>1, <3>3 DEF Writers
    <3>5. Halves'
      BY <1>0, <2>1, <2>2, <3>1, <3>3 DEF Halves
    <3> QED
      BY <3>3, <3>4, <3>5 DEF WritersOK
  <2> QED
    BY <1>6, <2>2 DEF PongData
<1>7. CASE SendHead
  <2>1. /\ pc' = pc /\ frameIO' = frameIO /\ evalq' = evalq /\ ping' = ping
        /\ poll # Idle /\ poll.at = "head" /\ poll'.at = "data"
    BY <1>7 DEF SendHead, PollFrame, pingvars, Idle, IInv, TypeOK
  <2>2. ASSUME Put("head", poll.n) PROVE wire' \in Seq(Written) /\ WritersOK'
    <3>1. "head" \in WriteKinds /\ "head" \in FrameWrites /\ Announced /\ frameIO
      BY <1>0, <2>1, <2>2, ModeFacts DEF WriteKinds, FrameWrites, Writers
    <3>2. poll.n \in Nat
      BY ModeFacts
    <3>3. /\ wire' \in Seq(Written) /\ Framed' /\ Announced'
          /\ Count("head")' = Count("head") + 1 /\ Count("data")' = Count("data") + 0
          /\ Count("synhead")' = Count("synhead") + 0 /\ Count("syndata")' = Count("syndata") + 0
      BY <2>2, <3>1, <3>2, OneWrite
    <3>4. Writers'
      BY <1>0, <2>1, <2>2, <3>1, <3>3 DEF Writers
    <3>5. Halves'
      BY <1>0, <2>1, <2>2, <3>1, <3>3 DEF Halves
    <3> QED
      BY <3>3, <3>4, <3>5 DEF WritersOK
  <2> QED
    BY <1>7, <2>2 DEF SendHead
<1>8. CASE SendData
  <2>1. /\ pc' = pc /\ frameIO' = frameIO /\ evalq' = evalq /\ ping' = ping
        /\ poll # Idle /\ poll.at = "data" /\ poll' = Idle /\ poll'.at = "idle"
    BY <1>8 DEF SendData, PollFrame, pingvars, Idle, IInv, TypeOK
  <2>2. ASSUME Put("data", poll.n) PROVE wire' \in Seq(Written) /\ WritersOK'
    <3>1. "data" \in WriteKinds /\ "data" \in FrameWrites /\ Announced /\ frameIO
      BY <1>0, <2>1, <2>2, ModeFacts DEF WriteKinds, FrameWrites, Writers
    <3>2. poll.n \in Nat
      BY ModeFacts
    <3>3. /\ wire' \in Seq(Written) /\ Framed' /\ Announced'
          /\ Count("head")' = Count("head") + 0 /\ Count("data")' = Count("data") + 1
          /\ Count("synhead")' = Count("synhead") + 0 /\ Count("syndata")' = Count("syndata") + 0
      BY <2>2, <3>1, <3>2, OneWrite
    <3>4. Writers'
      BY <1>0, <2>1, <2>2, <3>1, <3>3 DEF Writers
    <3>5. Halves'
      BY <1>0, <2>1, <2>2, <3>1, <3>3 DEF Halves
    <3> QED
      BY <3>3, <3>4, <3>5 DEF WritersOK
  <2> QED
    BY <1>8, <2>2 DEF SendData
<1>9. CASE HalfPingPong
  <2>1. /\ pc' = pc /\ frameIO' = frameIO /\ evalq' = evalq /\ poll' = poll
        /\ ping = "pong" /\ ping' = "idle"
    BY <1>9 DEF HalfPingPong, PingFrame, shellvars
  <2>2. ASSUME Put("pong", 0) PROVE wire' \in Seq(Written) /\ WritersOK'
    <3>1. "pong" \in WriteKinds /\ "pong" \in FrameWrites /\ Announced /\ frameIO
      BY <1>0, <2>1, <2>2, ModeFacts DEF WriteKinds, FrameWrites, Writers
    <3>2. 0 \in Nat
      BY ModeFacts
    <3>3. /\ wire' \in Seq(Written) /\ Framed' /\ Announced'
          /\ Count("head")' = Count("head") + 0 /\ Count("data")' = Count("data") + 0
          /\ Count("synhead")' = Count("synhead") + 0 /\ Count("syndata")' = Count("syndata") + 0
      BY <2>2, <3>1, <3>2, OneWrite
    <3>4. Writers'
      BY <1>0, <2>1, <2>2, <3>1, <3>3 DEF Writers
    <3>5. Halves'
      BY <1>0, <2>1, <2>2, <3>1, <3>3 DEF Halves
    <3> QED
      BY <3>3, <3>4, <3>5 DEF WritersOK
  <2> QED
    BY <1>9, <2>2 DEF HalfPingPong
<1>10. CASE HalfPingSynHead
  <2>1. /\ pc' = pc /\ frameIO' = frameIO /\ evalq' = evalq /\ poll' = poll
        /\ ping = "synhead" /\ ping' = "syndata"
    BY <1>10 DEF HalfPingSynHead, PingFrame, shellvars
  <2>2. ASSUME Put("synhead", 0) PROVE wire' \in Seq(Written) /\ WritersOK'
    <3>1. "synhead" \in WriteKinds /\ "synhead" \in FrameWrites /\ Announced /\ frameIO
      BY <1>0, <2>1, <2>2, ModeFacts DEF WriteKinds, FrameWrites, Writers
    <3>2. 0 \in Nat
      BY ModeFacts
    <3>3. /\ wire' \in Seq(Written) /\ Framed' /\ Announced'
          /\ Count("head")' = Count("head") + 0 /\ Count("data")' = Count("data") + 0
          /\ Count("synhead")' = Count("synhead") + 1 /\ Count("syndata")' = Count("syndata") + 0
      BY <2>2, <3>1, <3>2, OneWrite
    <3>4. Writers'
      BY <1>0, <2>1, <2>2, <3>1, <3>3 DEF Writers
    <3>5. Halves'
      BY <1>0, <2>1, <2>2, <3>1, <3>3 DEF Halves
    <3> QED
      BY <3>3, <3>4, <3>5 DEF WritersOK
  <2> QED
    BY <1>10, <2>2 DEF HalfPingSynHead
<1>14. CASE HalfPingRaw
  <2>1. /\ pc' = pc /\ frameIO' = frameIO /\ evalq' = evalq /\ poll' = poll
        /\ ping = "raw" /\ ping' = "idle"
    BY <1>14 DEF HalfPingRaw, PingFrame, shellvars
  <2>2. ASSUME Put("syn", 0) PROVE wire' \in Seq(Written) /\ WritersOK'
    <3>1. "syn" \in WriteKinds /\ "syn" \notin FrameWrites /\ "syn" \in FrameWrites \cup {"syn"}
      BY <1>0, <2>1, <2>2, ModeFacts DEF WriteKinds, FrameWrites, Writers
    <3>2. 0 \in Nat
      BY ModeFacts
    <3>3. /\ wire' \in Seq(Written) /\ Framed' /\ (Announced' <=> Announced)
          /\ Count("head")' = Count("head") + 0 /\ Count("data")' = Count("data") + 0
          /\ Count("synhead")' = Count("synhead") + 0 /\ Count("syndata")' = Count("syndata") + 0
      BY <2>2, <3>1, <3>2, OneWrite
    <3>4. Writers'
      BY <1>0, <2>1, <2>2, <3>1, <3>3 DEF Writers
    <3>5. Halves'
      BY <1>0, <2>1, <2>2, <3>1, <3>3 DEF Halves
    <3> QED
      BY <3>3, <3>4, <3>5 DEF WritersOK
  <2> QED
    BY <1>14, <2>2 DEF HalfPingRaw
<1>11. CASE HalfPingSynData
  <2>1. /\ pc' = pc /\ frameIO' = frameIO /\ evalq' = evalq /\ poll' = poll
        /\ ping = "syndata" /\ ping' = "idle"
    BY <1>11 DEF HalfPingSynData, PingFrame, shellvars
  <2>2. ASSUME Put("syndata", 0) PROVE wire' \in Seq(Written) /\ WritersOK'
    <3>1. "syndata" \in WriteKinds /\ "syndata" \in FrameWrites /\ Announced /\ frameIO
      BY <1>0, <2>1, <2>2, ModeFacts DEF WriteKinds, FrameWrites, Writers
    <3>2. 0 \in Nat
      BY ModeFacts
    <3>3. /\ wire' \in Seq(Written) /\ Framed' /\ Announced'
          /\ Count("head")' = Count("head") + 0 /\ Count("data")' = Count("data") + 0
          /\ Count("synhead")' = Count("synhead") + 0 /\ Count("syndata")' = Count("syndata") + 1
      BY <2>2, <3>1, <3>2, OneWrite
    <3>4. Writers'
      BY <1>0, <2>1, <2>2, <3>1, <3>3 DEF Writers
    <3>5. Halves'
      BY <1>0, <2>1, <2>2, <3>1, <3>3 DEF Halves
    <3> QED
      BY <3>3, <3>4, <3>5 DEF WritersOK
  <2> QED
    BY <1>11, <2>2 DEF HalfPingSynData
<1>12. CASE ExecuteRequest
  <2>1. /\ pc = "online" /\ pc' \in {"online", "cmddata"} /\ frameIO' = frameIO
        /\ evalq' = evalq /\ poll' = poll /\ ping' = ping
    BY <1>12 DEF ExecuteRequest, shellvars, pingvars
  <2>2. ASSUME Put("reply", line.n), ~frameIO PROVE wire' \in Seq(Written) /\ WritersOK'
    <3>1. "reply" \in WriteKinds /\ "reply" \notin FrameWrites /\ ~Announced
      BY <1>0, <2>1, <2>2, ModeFacts DEF WriteKinds, FrameWrites, Writers
    <3>2. line.n \in Nat
      BY ModeFacts
    <3>3. /\ wire' \in Seq(Written) /\ Framed' /\ ~Announced'
          /\ Count("head")' = Count("head") + 0 /\ Count("data")' = Count("data") + 0
          /\ Count("synhead")' = Count("synhead") + 0 /\ Count("syndata")' = Count("syndata") + 0
      BY <2>2, <3>1, <3>2, OneWrite
    <3>4. Writers'
      BY <1>0, <2>1, <2>2, <3>1, <3>3 DEF Writers
    <3>5. Halves'
      BY <1>0, <2>1, <2>2, <3>1, <3>3 DEF Halves
    <3> QED
      BY <3>3, <3>4, <3>5 DEF WritersOK
  <2>3. ASSUME Put("cmdhead", line.n), frameIO PROVE wire' \in Seq(Written) /\ WritersOK'
    <3>1. "cmdhead" \in WriteKinds /\ "cmdhead" \in FrameWrites /\ Announced /\ frameIO
      BY <1>0, <2>1, <2>3, ModeFacts DEF WriteKinds, FrameWrites, Writers
    <3>2. line.n \in Nat
      BY ModeFacts
    <3>3. /\ wire' \in Seq(Written) /\ Framed' /\ Announced'
          /\ Count("head")' = Count("head") + 0 /\ Count("data")' = Count("data") + 0
          /\ Count("synhead")' = Count("synhead") + 0 /\ Count("syndata")' = Count("syndata") + 0
      BY <2>3, <3>1, <3>2, OneWrite
    <3>4. Writers'
      BY <1>0, <2>1, <2>3, <3>1, <3>3 DEF Writers
    <3>5. Halves'
      BY <1>0, <2>1, <2>3, <3>1, <3>3 DEF Halves
    <3> QED
      BY <3>3, <3>4, <3>5 DEF WritersOK
  <2>4. ASSUME UNCHANGED wire PROVE wire' \in Seq(Written) /\ WritersOK'
    BY <1>0, <2>1, <2>4, NoWriteFacts, ModeFacts DEF WritersOK, Writers, Halves
  <2> QED
    BY <1>12, <2>2, <2>3, <2>4 DEF ExecuteRequest
<1>15. CASE CommandData
  <2>1. /\ pc = "cmddata" /\ pc' = "online" /\ frameIO' = frameIO
        /\ evalq' = evalq /\ poll' = poll /\ ping' = ping
    BY <1>15 DEF CommandData, shellvars, pingvars
  <2>2. ASSUME Put("cmddata", line.n) PROVE wire' \in Seq(Written) /\ WritersOK'
    <3>1. "cmddata" \in WriteKinds /\ "cmddata" \in FrameWrites /\ Announced /\ frameIO
      BY <1>0, <2>1, <2>2, ModeFacts DEF WriteKinds, FrameWrites, Writers
    <3>2. line.n \in Nat
      BY ModeFacts
    <3>3. /\ wire' \in Seq(Written) /\ Framed' /\ Announced'
          /\ Count("head")' = Count("head") + 0 /\ Count("data")' = Count("data") + 0
          /\ Count("synhead")' = Count("synhead") + 0 /\ Count("syndata")' = Count("syndata") + 0
      BY <2>2, <3>1, <3>2, OneWrite
    <3>4. Writers'
      BY <1>0, <2>1, <2>2, <3>1, <3>3 DEF Writers
    <3>5. Halves'
      BY <1>0, <2>1, <2>2, <3>1, <3>3 DEF Halves
    <3> QED
      BY <3>3, <3>4, <3>5 DEF WritersOK
  <2> QED
    BY <1>15, <2>2 DEF CommandData
<1>13. ASSUME UNCHANGED wire PROVE wire' \in Seq(Written) /\ WritersOK'
  <2>0. /\ Framed' /\ (Announced' <=> Announced)
        /\ Count("head")' = Count("head") /\ Count("data")' = Count("data")
        /\ Count("synhead")' = Count("synhead") /\ Count("syndata")' = Count("syndata")
    BY <1>13, NoWriteFacts
  <2>1. CASE Client
    <3>1. UNCHANGED <<pc, frameIO, evalq, poll, ping>>
      BY <2>1 DEF Client, SendRequest, SendFrame, Close, ServerFrame, shellvars, pingvars
    <3> QED
      BY <1>0, <1>13, <2>0, <3>1 DEF WritersOK, Writers, Halves
  <2>2. CASE ReadLine \/ ReadEOF
    <3>1. /\ pc = "read" /\ pc' \in {"line", "dtor"}
          /\ UNCHANGED <<frameIO, evalq, poll, ping>>
      BY <2>2 DEF ReadLine, ReadEOF, shellvars, pingvars
    <3> QED
      BY <1>0, <1>13, <2>0, <3>1, ModeFacts DEF WritersOK, Writers, Halves
  <2>3. CASE HeaderLine \/ EndOfHeader
    <3>1. /\ pc = "line" /\ pc' \in {"read", "connect"}
          /\ UNCHANGED <<frameIO, evalq, poll, ping>>
      BY <2>3 DEF HeaderLine, EndOfHeader, LineFrame, shellvars, pingvars
    <3> QED
      BY <1>0, <1>13, <2>0, <3>1, ModeFacts DEF WritersOK, Writers, Halves
  <2>4. CASE StartFrames
    <3>1. /\ Announced /\ frameIO' /\ pc' = "online"
          /\ UNCHANGED <<evalq, poll, ping>>
      BY <2>4 DEF StartFrames, Announced, shellvars, pingvars
    <3> QED
      BY <1>0, <1>13, <2>0, <3>1, ModeFacts DEF WritersOK, Writers, Halves
  <2>5. CASE ReadBody \/ BodyEOF
    <3>1. /\ pc = "body" /\ pc' \in {"online", "dtor"}
          /\ UNCHANGED <<frameIO, evalq, poll, ping>>
      BY <2>5 DEF ReadBody, BodyEOF, shellvars, pingvars
    <3> QED
      BY <1>0, <1>13, <2>0, <3>1, ModeFacts DEF WritersOK, Writers, Halves
  <2>6. CASE EvalLine
    <3>1. /\ pc = "online" /\ upgrade /\ pc' = "read"
          /\ UNCHANGED <<frameIO, poll, ping>>
      BY <2>6 DEF EvalLine, pingvars
    <3> QED
      BY <1>0, <1>13, <2>0, <3>1, ModeFacts DEF WritersOK, Writers, Halves
  <2>7. CASE ReadFrame
    <3>1. /\ pc = "read" /\ frameIO /\ pc' \in {"online", "pong", "read", "dtor"}
          /\ UNCHANGED <<frameIO, evalq, poll, ping>>
      BY <2>7 DEF ReadFrame, FrameFrame, shellvars, pingvars
    <3> QED
      BY <1>0, <1>13, <2>0, <3>1, ModeFacts DEF WritersOK, Writers, Halves
  <2>8. CASE Delete
    <3>1. /\ pc = "dtor" /\ pc' = "gone" /\ evalq = <<>> /\ poll = Idle /\ ping = "idle"
          /\ UNCHANGED <<frameIO, evalq, poll, ping>>
      BY <2>8 DEF Delete, shellvars, pingvars
    <3> QED
      BY <1>0, <1>13, <2>0, <3>1, ModeFacts DEF WritersOK, Writers, Halves
  <2>9. CASE Evaluate
    <3>1. /\ evalq # <<>> /\ poll = Idle /\ poll.at # "data" /\ poll'.at # "data"
          /\ UNCHANGED <<pc, frameIO, ping>>
      BY <2>9 DEF Evaluate, Idle, pingvars
    <3> QED
      BY <1>0, <1>13, <2>0, <3>1, ModeFacts DEF WritersOK, Writers, Halves
  <2>10. CASE HalfPing
    <3>1. /\ pc \in {"read", "pong", "pongdata"} /\ ping = "idle" /\ ping' = "mode"
          /\ UNCHANGED <<pc, frameIO, evalq, poll>>
      BY <2>10 DEF HalfPing, PingFrame, shellvars
    <3> QED
      BY <1>0, <1>13, <2>0, <3>1, ModeFacts DEF WritersOK, Writers, Halves
  <2>11. CASE HalfPingMode
    <3>1. /\ ping = "mode" /\ ping' = (IF frameIO THEN "pong" ELSE "syn")
          /\ UNCHANGED <<pc, frameIO, evalq, poll>>
      BY <2>11 DEF HalfPingMode, PingFrame, shellvars
    <3> QED
      BY <1>0, <1>13, <2>0, <3>1, ModeFacts DEF WritersOK, Writers, Halves
  <2>12. CASE HalfPingSyn
    <3>1. /\ ping = "syn" /\ ping' = (IF frameIO THEN "synhead" ELSE "raw")
          /\ UNCHANGED <<pc, frameIO, evalq, poll>>
      BY <2>12 DEF HalfPingSyn, PingFrame, shellvars
    <3> QED
      BY <1>0, <1>13, <2>0, <3>1, ModeFacts DEF WritersOK, Writers, Halves
  <2> QED
    BY <1>1, <1>2, <1>3, <1>4, <1>5, <1>6, <1>7, <1>8, <1>9, <1>10, <1>11, <1>12, <1>14,
       <1>15, <2>1, <2>2, <2>3, <2>4, <2>5, <2>6, <2>7, <2>8, <2>9, <2>10, <2>11, <2>12
    DEF Step, Handler, HandlerSteps, ShellThreads, ShellSends, Listener, HalfPingSteps
<1> QED
  BY <1>1, <1>2, <1>3, <1>4, <1>5, <1>6, <1>7, <1>8, <1>9, <1>10, <1>11, <1>12, <1>13,
     <1>14, <1>15, WhoChanges

-----------------------------------------------------------------------------
(* The stream and the handler's place in it. *)

\* Once the 101 has been sent the last request is one to upgrade.
LEMMA AnnouncedFacts ==
  ASSUME IInv, Announced
  PROVE  sent # <<>> /\ sent[Len(sent)].upgrade
<1>1. CASE frameIO
  BY <1>1 DEF IInv, Cursor, FrameCursor
<1>2. CASE ~frameIO
  <2>1. pc = "upgrade"
    BY <1>2 DEF IInv, Writers
  <2>2. line.n \in DOMAIN sent /\ sent[line.n].upgrade
    BY <1>2, <2>1 DEF IInv, Cursor, HttpCursor, Reading
  <2>3. line.n = Len(sent)
    BY <2>2 DEF IInv, UpgradeLast
  <2>4. TypeOK
    BY DEF IInv
  <2>5. sent # <<>>
    BY <2>2
  <2> QED
    BY <2>2, <2>3, <2>5
<1> QED
  BY <1>1, <1>2

\* How each step changes the stream.
LEMMA StreamMoves ==
  ASSUME IInv, Step
  PROVE  /\ SendRequest => \E r \in RequestType : SendsRequest(r)
         /\ SendFrame => \E f \in FrameKinds : SendsFrame(f)
         /\ Close => \E k \in Nat : Keeps(k)
         /\ ReadLine \/ ReadFrame => net # <<>> /\ Drops(1)
         /\ ReadBody => length \in Nat /\ Drops(length)
         /\ BodyEOF => Len(net) \in Nat /\ Drops(Len(net))
         /\ UNCHANGED streamvars => Drops(0)
<1>0. TypeOK /\ net \in Seq(Element) /\ Len(net) \in Nat /\ length \in Nat
  BY Types DEF IInv, TypeOK, Element
<1>1. SendRequest => \E r \in RequestType : SendsRequest(r)
  BY WebSessionAssumption DEF SendRequest, SendsRequest
<1>2. ASSUME SendFrame PROVE \E f \in FrameKinds : SendsFrame(f)
  <2>1. sent # <<>> /\ sent[Len(sent)].upgrade
    BY <1>2, AnnouncedFacts DEF SendFrame, Announced
  <2> QED
    BY <1>2, <2>1, WebSessionAssumption DEF SendFrame, SendsFrame
<1>3. ASSUME Close PROVE \E k \in Nat : Keeps(k)
  <2>1. PICK k \in 0 .. Len(net) : net' = SubSeq(net, 1, k)
    BY <1>3 DEF Close
  <2>2. k \in Nat /\ k <= Len(net)
    BY <1>0
  <2> QED
    BY <1>3, <2>1, <2>2 DEF Close, Keeps
<1>4. ASSUME ReadLine \/ ReadFrame PROVE net # <<>> /\ Drops(1)
  <2>1. net # <<>> /\ net' = Tail(net) /\ UNCHANGED <<sent, frames, closed>>
    BY <1>4 DEF ReadLine, ReadFrame, FrameFrame, envars
  <2>2. 1 <= Len(net) /\ net' = SubSeq(net, 1 + 1, Len(net))
    BY <1>0, <2>1, TailDrops
  <2> QED
    BY <2>1, <2>2 DEF Drops
<1>5. ASSUME ReadBody PROVE Drops(length)
  BY <1>0, <1>5 DEF ReadBody, Drops, envars
<1>6. ASSUME BodyEOF PROVE Drops(Len(net))
  <2>1. SubSeq(net, Len(net) + 1, Len(net)) = <<>>
    BY <1>0
  <2> QED
    BY <1>0, <1>6, <2>1 DEF BodyEOF, Drops, envars
<1>7. ASSUME UNCHANGED streamvars PROVE Drops(0)
  <2>1. SubSeq(net, 0 + 1, Len(net)) = net /\ 0 <= Len(net)
    BY <1>0
  <2> QED
    BY <1>7, <2>1 DEF streamvars, Drops
<1> QED
  BY <1>0, <1>1, <1>2, <1>3, <1>4, <1>5, <1>6, <1>7

\* What has been sent stays.
LEMMA SentKept ==
  ASSUME IInv, Step
  PROVE  /\ Len(sent) <= Len(sent') /\ Len(sent) \in Nat
         /\ \A i \in DOMAIN sent : i \in DOMAIN sent' /\ sent'[i] = sent[i]
         /\ Len(frames) <= Len(frames') /\ Len(frames) \in Nat
         /\ \A i \in DOMAIN frames : i \in DOMAIN frames' /\ frames'[i] = frames[i]
         /\ ~SendRequest => sent' = sent
         /\ ~SendFrame => frames' = frames
         /\ SendRequest => frames' = frames
<1>0. TypeOK /\ ClientTypes /\ UpgradeLast /\ Len(sent) \in Nat /\ Len(frames) \in Nat
  BY Types DEF IInv
<1>1. CASE SendRequest
  <2>1. PICK r \in RequestType : SendsRequest(r)
    BY <1>1, StreamMoves
  <2>2. frames' = frames
    BY <1>1 DEF SendRequest
  <2>3. /\ Len(sent') = Len(sent) + 1
        /\ \A i \in DOMAIN sent : i \in DOMAIN sent' /\ sent'[i] = sent[i]
    <3>1. PICK n \in Nat :
            /\ n = Len(sent) + 1 /\ DOMAIN sent = 1 .. n - 1 /\ DOMAIN sent' = 1 .. n
            /\ Len(sent') = n /\ \A i \in DOMAIN sent : sent'[i] = sent[i]
      BY <1>0, <2>1, SendRequestFacts
    <3> QED
      BY <3>1
  <2>4. ~SendFrame
    <3>1. Len(sent') # Len(sent)
      BY <1>0, <2>3
    <3> QED
      BY <3>1 DEF SendFrame
  <2> QED
    BY <1>0, <1>1, <2>2, <2>3, <2>4
<1>2. CASE SendFrame
  <2>1. PICK f \in FrameKinds : SendsFrame(f)
    BY <1>2, StreamMoves
  <2>2. sent' = sent
    BY <1>2 DEF SendFrame
  <2>3. /\ Len(frames') = Len(frames) + 1
        /\ \A i \in DOMAIN frames : i \in DOMAIN frames' /\ frames'[i] = frames[i]
    <3>1. PICK n \in Nat :
            /\ n = Len(frames) /\ DOMAIN frames = 1 .. n /\ DOMAIN frames' = 1 .. n + 1
            /\ Len(frames') = n + 1 /\ \A i \in 1 .. n : frames'[i] = frames[i]
      BY <1>0, <2>1, SendFrameFacts
    <3> QED
      BY <3>1
  <2>4. ~SendRequest
    <3>1. Len(frames') # Len(frames)
      BY <1>0, <2>3
    <3> QED
      BY <3>1 DEF SendRequest
  <2> QED
    BY <1>0, <1>2, <2>2, <2>3, <2>4
<1>3. CASE ~SendRequest /\ ~SendFrame
  <2>1. Close => sent' = sent /\ frames' = frames
    BY DEF Close
  <2>2. ReadLine \/ ReadFrame \/ ReadBody \/ BodyEOF \/ UNCHANGED streamvars =>
          sent' = sent /\ frames' = frames
    BY StreamMoves DEF Drops
  <2>3. sent' = sent /\ frames' = frames
    BY <1>3, <2>1, <2>2, WhoChanges DEF Client
  <2> QED
    BY <1>0, <1>3, <2>3
<1> QED
  BY <1>1, <1>2, <1>3

\* An element goes on belonging to what was sent.
LEMMA OwnedKept ==
  ASSUME IInv, Step, NEW e, Owned(e)
  PROVE  Owned(e)'
<1>1. e.kind \in HeaderKinds \cup {"empty", "byte"} =>
        e.n \in DOMAIN sent /\ e.n \in DOMAIN sent' /\ sent'[e.n] = sent[e.n]
  BY SentKept DEF Owned
<1>2. e.kind \in FrameKinds =>
        e.n \in DOMAIN frames /\ e.n \in DOMAIN frames' /\ frames'[e.n] = frames[e.n]
  BY SentKept DEF Owned
<1>3. e.kind \in {"length", "upgrade"} => e.kind \in HeaderKinds \cup {"empty", "byte"}
  BY DEF HeaderKinds
<1> QED
  BY <1>1, <1>2, <1>3 DEF Owned

\* A step of the client leaves what follows the last element read.
LEMMA ClientLinked ==
  ASSUME IInv, Step, Client, NEW e, Owned(e), Linked(e, 0)
  PROVE  Linked(e, 0)'
<1>0. ClientTypes /\ StreamTypes /\ UpgradeLast /\ Len(net) \in Nat /\ 0 <= Len(net)
  BY Types DEF IInv
<1>1. CASE SendRequest
  <2>1. PICK r \in RequestType : SendsRequest(r)
    BY <1>1, StreamMoves
  <2> QED
    BY <1>0, <2>1, LinkedRequest
<1>2. CASE SendFrame
  <2>1. PICK f \in FrameKinds : SendsFrame(f)
    BY <1>2, StreamMoves
  <2> QED
    BY <1>0, <2>1, LinkedFrame
<1>3. CASE Close
  <2>1. PICK k \in Nat : Keeps(k)
    BY <1>3, StreamMoves
  <2>2. 0 <= k
    OBVIOUS
  <2> QED
    BY <1>0, <2>1, <2>2, LinkedClose
<1> QED
  BY <1>1, <1>2, <1>3 DEF Client

\* After an element has been read, what follows it comes first.
LEMMA HeadLinked ==
  ASSUME IInv, Step, net # <<>>, Drops(1)
  PROVE  /\ net[1] \in Element /\ Owned(net[1]) /\ Head(net) = net[1]
         /\ \A e : e = net[1] => Owned(e)' /\ Linked(e, 0)'
<1>0. TypeOK /\ StreamTypes /\ net \in Seq(Element)
  BY Types DEF IInv, TypeOK, Element
<1>1. /\ net[1] \in Element /\ 1 \in DOMAIN net /\ Head(net) = net[1]
      /\ 1 <= Len(net)
  BY <1>0, TailDrops
<1>2. Owned(net[1]) /\ Linked(net[1], 1)
  BY <1>1 DEF IInv, Stream
<1>3. ASSUME NEW e, e = net[1] PROVE Owned(e)' /\ Linked(e, 0)'
  <2>1. Owned(e) /\ Linked(e, 1)
    BY <1>2, <1>3
  <2>2. Linked(e, 1 - 1)'
    BY <1>0, <1>1, <2>1, LinkedDrop
  <2>3. 1 - 1 = 0
    OBVIOUS
  <2> QED
    BY <2>1, <2>2, <2>3, OwnedKept
<1> QED
  BY <1>1, <1>2, <1>3

\* What the client sends stays in the order it is sent.
LEMMA StreamStep ==
  ASSUME IInv, Step
  PROVE  Stream'
<1>0. TypeOK /\ ClientTypes /\ StreamTypes /\ UpgradeLast /\ Stream /\ Len(net) \in Nat
      /\ net \in Seq(Element) /\ DOMAIN net = 1 .. Len(net)
  BY Types DEF IInv, TypeOK, Element
<1>1. Owned(line)'
  <2>1. CASE line' = line
    <3>1. PICK e : e = line
      OBVIOUS
    <3>2. Owned(e)'
      BY <1>0, <3>1, OwnedKept DEF Stream
    <3> QED
      BY <2>1, <3>1, <3>2 DEF Owned
  <2>2. CASE ReadLine \/ ReadFrame
    <3>1. line' = Head(net) /\ net # <<>> /\ Drops(1)
      BY <2>2, StreamMoves DEF ReadLine, ReadFrame
    <3>2. PICK e : e = net[1]
      OBVIOUS
    <3>3. Owned(e)' /\ line' = e
      BY <3>1, <3>2, HeadLinked
    <3> QED
      BY <3>3 DEF Owned
  <2>3. Handler => ReadLine \/ ReadFrame \/ line' = line
    <3>1. ReadEOF \/ OnConnection \/ SendUpgrade \/ StartFrames \/ ReadBody \/ BodyEOF =>
            line' = line
      BY DEF ReadEOF, OnConnection, SendUpgrade, StartFrames, ReadBody, BodyEOF
    <3>2. FirstLine \/ HeaderLine \/ EndOfHeader => line' = line
      BY DEF FirstLine, HeaderLine, EndOfHeader, LineFrame
    <3>3. ExecuteRequest \/ CommandData \/ EvalLine \/ EvalBody \/ PongHeader \/ PongData
            \/ Delete => line' = line
      BY DEF ExecuteRequest, CommandData, EvalLine, EvalBody, PongHeader, PongData, Delete
    <3> QED
      BY <3>1, <3>2, <3>3 DEF Handler, HandlerSteps
  <2>4. UNCHANGED handlervars => line' = line
    BY DEF handlervars
  <2> QED
    BY <2>1, <2>2, <2>3, <2>4, WhoChanges
<1>2. ASSUME NEW k \in Nat, Drops(k), NEW i \in DOMAIN net'
      PROVE  Owned(net[i])' /\ Linked(net[i], i)'
  <2>1. k \in 0 .. Len(net) /\ net' = SubSeq(net, k + 1, Len(net))
    BY <1>0, <1>2 DEF Drops
  <2>2. /\ Len(net') = Len(net) - k /\ DOMAIN net' = 1 .. Len(net')
        /\ \A j \in 1 .. Len(net') : net'[j] = net[j + k]
    <3> DEFINE P == SubSeq(net, k + 1, Len(net))
    <3>1. /\ Len(P) = Len(net) - k /\ DOMAIN P = 1 .. Len(P)
          /\ \A j \in 1 .. Len(P) : P[j] = net[j + k]
      BY <1>0, <2>1, DropFacts
    <3> QED
      BY <2>1, <3>1
  <2>3. i \in Nat /\ i + k \in DOMAIN net /\ net'[i] = net[i + k] /\ i + k - k = i
        /\ k <= i + k /\ i + k <= Len(net) /\ i + k \in Nat
    <3>1. i \in 1 .. Len(net) - k
      BY <2>2
    <3>2. i \in Nat /\ i + k \in 1 .. Len(net) /\ i + k - k = i /\ i + k \in Nat
      BY <1>0, <3>1
    <3>3. net'[i] = net[i + k]
      BY <2>2
    <3> QED
      BY <1>0, <3>2, <3>3
  <2>4. PICK e : e = net[i + k]
    OBVIOUS
  <2>5. Owned(e) /\ Linked(e, i + k)
    BY <1>0, <2>3, <2>4 DEF Stream
  <2>6. Owned(e)'
    BY <2>5, OwnedKept
  <2>7. Linked(e, i + k - k)'
    BY <1>0, <1>2, <2>3, <2>5, LinkedDrop
  <2>8. Linked(e, i)'
    BY <2>3, <2>7
  <2> QED
    BY <2>3, <2>4, <2>6, <2>8 DEF Owned, Linked, After
<1>3. CASE Close
  <2>1. PICK k \in Nat : Keeps(k)
    BY <1>3, StreamMoves
  <2>2. k \in 0 .. Len(net) /\ net' = SubSeq(net, 1, k)
    BY <1>0, <2>1 DEF Keeps
  <2>3. DOMAIN net' = 1 .. k /\ \A j \in 1 .. k : net'[j] = net[j]
    BY <1>0, <2>2, PrefixFacts
  <2>4. ASSUME NEW i \in DOMAIN net' PROVE Owned(net[i])' /\ Linked(net[i], i)'
    <3>1. i \in DOMAIN net /\ net'[i] = net[i] /\ i \in Nat /\ i <= k
      BY <1>0, <2>2, <2>3
    <3>2. PICK e : e = net[i]
      OBVIOUS
    <3>3. Owned(e) /\ Linked(e, i)
      BY <1>0, <3>1, <3>2 DEF Stream
    <3>4. Owned(e)' /\ Linked(e, i)'
      BY <1>0, <2>1, <3>1, <3>3, OwnedKept, LinkedClose
    <3> QED
      BY <3>1, <3>2, <3>4 DEF Owned, Linked, After
  <2> QED
    BY <1>1, <2>4 DEF Stream
<1>4. CASE SendRequest
  <2>1. PICK r \in RequestType : SendsRequest(r)
    BY <1>4, StreamMoves
  <2>2. PICK m \in Nat :
          /\ m = Len(net) /\ DOMAIN net' = 1 .. Len(net') /\ Len(net') \in Nat
          /\ \A j \in 1 .. m : net'[j] = net[j]
    <3>1. PICK h \in 2 .. 4, n \in Nat, m \in Nat :
            /\ m = Len(net) /\ DOMAIN net' = 1 .. Len(net') /\ net' \in Seq(Element)
            /\ \A j \in 1 .. m : net'[j] = net[j]
      BY <1>0, <2>1, SendRequestFacts
    <3>2. Len(net') \in Nat
      BY <3>1
    <3> QED
      BY <3>1, <3>2
  <2>3. ASSUME NEW i \in DOMAIN net' PROVE Owned(net[i])' /\ Linked(net[i], i)'
    <3>1. CASE i > Len(net)
      BY <1>0, <2>1, <3>1, LinkedLines
    <3>2. CASE i <= Len(net)
      <4>1. i \in DOMAIN net /\ net'[i] = net[i] /\ i \in Nat
        BY <1>0, <2>2, <3>2
      <4>2. PICK e : e = net[i]
        OBVIOUS
      <4>3. Owned(e) /\ Linked(e, i)
        BY <1>0, <4>1, <4>2 DEF Stream
      <4>4. Owned(e)' /\ Linked(e, i)'
        BY <1>0, <2>1, <3>2, <4>1, <4>3, OwnedKept, LinkedRequest
      <4> QED
        BY <4>1, <4>2, <4>4 DEF Owned, Linked, After
    <3> QED
      BY <1>0, <2>2, <3>1, <3>2
  <2> QED
    BY <1>1, <2>3 DEF Stream
<1>5. CASE SendFrame
  <2>1. PICK f \in FrameKinds : SendsFrame(f)
    BY <1>5, StreamMoves
  <2>2. PICK m \in Nat : /\ m = Len(net) /\ DOMAIN net' = 1 .. m + 1
                         /\ \A j \in 1 .. m : net'[j] = net[j]
    BY <1>0, <2>1, SendFrameFacts
  <2>3. ASSUME NEW i \in DOMAIN net' PROVE Owned(net[i])' /\ Linked(net[i], i)'
    <3>1. CASE i > Len(net)
      BY <1>0, <2>1, <3>1, LinkedLast
    <3>2. CASE i <= Len(net)
      <4>1. i \in DOMAIN net /\ net'[i] = net[i] /\ i \in Nat
        BY <1>0, <2>2, <3>2
      <4>2. PICK e : e = net[i]
        OBVIOUS
      <4>3. Owned(e) /\ Linked(e, i)
        BY <1>0, <4>1, <4>2 DEF Stream
      <4>4. Owned(e)' /\ Linked(e, i)'
        BY <1>0, <2>1, <3>2, <4>1, <4>3, OwnedKept, LinkedFrame
      <4> QED
        BY <4>1, <4>2, <4>4 DEF Owned, Linked, After
    <3> QED
      BY <1>0, <2>2, <3>1, <3>2
  <2> QED
    BY <1>1, <2>3 DEF Stream
<1>6. CASE ReadLine \/ ReadFrame \/ ReadBody \/ BodyEOF \/ UNCHANGED streamvars
  <2>1. PICK k \in Nat : Drops(k)
    BY <1>6, StreamMoves
  <2> QED
    BY <1>1, <1>2, <2>1 DEF Stream
<1> QED
  BY <1>3, <1>4, <1>5, <1>6, WhoChanges DEF Client

\* Frames only after a request to upgrade, and no request after it.
LEMMA UpgradeLastStep ==
  ASSUME IInv, Step
  PROVE  UpgradeLast'
<1>0. TypeOK /\ ClientTypes /\ UpgradeLast
  BY Types DEF IInv
<1>1. CASE SendRequest
  <2>1. PICK r \in RequestType : SendsRequest(r)
    BY <1>1, StreamMoves
  <2>2. PICK n \in Nat :
          /\ n = Len(sent) + 1 /\ DOMAIN sent = 1 .. n - 1 /\ DOMAIN sent' = 1 .. n
          /\ Len(sent') = n /\ \A i \in DOMAIN sent : sent'[i] = sent[i]
          /\ frames' = <<>>
    BY <1>0, <2>1, SendRequestFacts
  <2>3. \A i \in DOMAIN sent : ~sent[i].upgrade
    BY <2>1 DEF SendsRequest
  <2>4. \A i \in DOMAIN sent' : i \in DOMAIN sent \/ i = n
    BY <2>2
  <2> QED
    BY <2>2, <2>3, <2>4 DEF UpgradeLast
<1>2. CASE SendFrame
  <2>1. sent' = sent /\ sent # <<>> /\ sent[Len(sent)].upgrade
    BY <1>2, StreamMoves DEF SendsFrame
  <2> QED
    BY <1>0, <2>1 DEF UpgradeLast
<1>3. CASE ~SendRequest /\ ~SendFrame
  BY <1>0, <1>3, SentKept DEF UpgradeLast
<1> QED
  BY <1>1, <1>2, <1>3

\* How many of the first i frames are text.
LEMMA TextsFacts ==
  ASSUME TypeOK
  PROVE  /\ TextsTo(0) = 0
         /\ \A i \in Nat : TextsTo(i) \in Nat
         /\ \A i \in Nat : i + 1 \in DOMAIN frames =>
              TextsTo(i + 1) = TextsTo(i) + (IF frames[i + 1] = "text" THEN 1 ELSE 0)
<1>1. \A i \in Nat : /\ IsFiniteSet({j \in 1 .. i : frames[j] = "text"})
                     /\ TextsTo(i) \in Nat
  <2> TAKE i \in Nat
  <2>1. IsFiniteSet(1 .. i)
    BY FS_Interval
  <2>2. {j \in 1 .. i : frames[j] = "text"} \subseteq 1 .. i
    OBVIOUS
  <2>3. IsFiniteSet({j \in 1 .. i : frames[j] = "text"})
    BY <2>1, <2>2, FS_Subset
  <2> QED
    BY <2>3, FS_CardinalityType DEF TextsTo
<1>2. TextsTo(0) = 0
  <2>1. {j \in 1 .. 0 : frames[j] = "text"} = {}
    OBVIOUS
  <2> QED
    BY <2>1, FS_EmptySet DEF TextsTo
<1>3. ASSUME NEW i \in Nat
      PROVE  TextsTo(i + 1) = TextsTo(i) + (IF frames[i + 1] = "text" THEN 1 ELSE 0)
  <2>1. PICK A : A = {j \in 1 .. i : frames[j] = "text"}
    OBVIOUS
  <2>2. IsFiniteSet(A) /\ TextsTo(i) = Cardinality(A) /\ TextsTo(i) \in Nat
    BY <1>1, <2>1 DEF TextsTo
  <2>3. i + 1 \notin A
    BY <2>1
  <2>4. CASE frames[i + 1] = "text"
    <3>1. {j \in 1 .. i + 1 : frames[j] = "text"} = A \cup {i + 1}
      BY <2>1, <2>4
    <3>2. Cardinality(A \cup {i + 1}) = Cardinality(A) + 1
      BY <2>2, <2>3, FS_AddElement
    <3>3. TextsTo(i + 1) = Cardinality(A) + 1
      BY <3>1, <3>2 DEF TextsTo
    <3> QED
      BY <2>2, <2>4, <3>3
  <2>5. CASE frames[i + 1] # "text"
    <3>1. {j \in 1 .. i + 1 : frames[j] = "text"} = A
      BY <2>1, <2>5
    <3>2. TextsTo(i + 1) = Cardinality(A)
      BY <3>1 DEF TextsTo
    <3> QED
      BY <2>2, <2>5, <3>2
  <2> QED
    BY <2>4, <2>5
<1> QED
  BY <1>1, <1>2, <1>3

\* Frames that have been counted stay.
LEMMA TextsKept ==
  ASSUME IInv, Step, NEW i \in Nat, i <= Len(frames)
  PROVE  TextsTo(i)' = TextsTo(i)
<1>1. DOMAIN frames = 1 .. Len(frames) /\ Len(frames) \in Nat
  BY Types DEF IInv
<1>2. \A j \in 1 .. i : frames'[j] = frames[j]
  BY <1>1, SentKept
<1>3. {j \in 1 .. i : frames'[j] = "text"} = {j \in 1 .. i : frames[j] = "text"}
  BY <1>2
<1> QED
  BY <1>3 DEF TextsTo

\* The handler's place when the client sends or closes.
LEMMA ClientCursor ==
  ASSUME IInv, Step, Client
  PROVE  Cursor'
<1>0. /\ TypeOK /\ ClientTypes /\ UpgradeLast /\ Owned(line) /\ Len(net) \in Nat
      /\ net \in Seq(Element) /\ DOMAIN net = 1 .. Len(net)
      /\ Len(sent) \in Nat /\ DOMAIN sent = 1 .. Len(sent)
      /\ Len(delivered) \in Nat /\ line.n \in Nat
  BY Types DEF IInv, Stream, TypeOK, Element
<1>1. UNCHANGED <<pc, line, first, length, upgrade, frameIO, delivered>>
  BY DEF Client, SendRequest, SendFrame, Close, ServerFrame, parse
<1>2. /\ \A i \in DOMAIN sent : i \in DOMAIN sent' /\ sent'[i] = sent[i]
      /\ Len(sent) <= Len(sent')
  BY SentKept
<1>3. Linked(line, 0) => Linked(line, 0)'
  <2>1. PICK e : e = line
    OBVIOUS
  <2>2. Linked(e, 0) => Linked(e, 0)'
    BY <1>0, <2>1, ClientLinked
  <2> QED
    BY <1>1, <2>1, <2>2 DEF Linked, After
<1>4. Reading => Reading'
  BY <1>1, <1>2, <1>3 DEF Reading
<1>5. ASSUME Fresh, ~Announced PROVE Fresh'
  <2>1. CASE SendRequest
    <3>1. PICK r \in RequestType : SendsRequest(r)
      BY <2>1, StreamMoves
    <3>2. PICK h \in 2 .. 4, n \in Nat, m \in Nat :
            /\ n = Len(sent) + 1 /\ m = Len(net) /\ Len(net') = m + h + r.body
            /\ r.body \in Nat /\ ~closed /\ \A j \in 1 .. m : net'[j] = net[j]
            /\ HasLines(net', m, h, r, n)
      BY <1>0, <3>1, SendRequestFacts
    <3>3. net' # <<>>
      <4>1. Len(net') # 0
        BY <3>2
      <4> QED
        BY <4>1
    <3>4. CASE net = <<>>
      <4>1. m = 0 /\ n = Len(delivered) + 1
        BY <1>5, <3>2, <3>4 DEF Fresh
      <4>2. net'[0 + 1] = Line("first", n)
        BY <3>2, <4>1 DEF HasLines
      <4>3. net'[1] = Line("first", n)
        BY <4>2
      <4> QED
        BY <1>1, <3>3, <4>1, <4>3 DEF Fresh
    <3>5. CASE net # <<>>
      <4>1. 1 \in 1 .. m
        BY <1>0, <3>2, <3>5
      <4>2. net'[1] = net[1]
        BY <3>2, <4>1
      <4> QED
        BY <1>1, <1>5, <3>3, <3>5, <4>2 DEF Fresh
    <3> QED
      BY <3>4, <3>5
  <2>2. CASE Close
    <3>1. PICK k \in Nat : Keeps(k)
      BY <2>2, StreamMoves
    <3>2. k \in 0 .. Len(net) /\ net' = SubSeq(net, 1, k) /\ closed'
      BY <1>0, <3>1 DEF Keeps
    <3>3. net' \in Seq(Element) /\ Len(net') = k /\ \A j \in 1 .. k : net'[j] = net[j]
      BY <1>0, <3>2, PrefixFacts
    <3>4. ASSUME net' # <<>> PROVE net # <<>> /\ net'[1] = net[1]
      <4>1. k # 0
        BY <3>3, <3>4
      <4>2. 1 \in 1 .. k /\ Len(net) # 0
        BY <1>0, <3>2, <4>1
      <4> QED
        BY <3>3, <4>2
    <3> QED
      BY <1>1, <1>5, <3>2, <3>4 DEF Fresh
  <2>3. ~SendFrame
    BY <1>5 DEF SendFrame, Announced
  <2> QED
    BY <2>1, <2>2, <2>3 DEF Client
<1>6. CASE ~frameIO
  <2>1. HttpCursor /\ (pc # "upgrade" => ~Announced)
    BY <1>6, ModeFacts DEF IInv, Cursor
  <2>2. Len(delivered) <= Len(sent')
    <3>1. Len(sent') \in Nat
      BY StreamTypeStep
    <3> QED
      BY <1>0, <1>2, <2>1, <3>1 DEF HttpCursor
  <2>3. Reading => line.n \in DOMAIN sent /\ sent'[line.n] = sent[line.n]
    BY <1>2 DEF Reading
  <2>4. Reading => (LengthRead' <=> LengthRead)
    BY <1>1, <2>3 DEF LengthRead
  <2>5. LengthUnread' <=> LengthUnread
    BY <1>1 DEF LengthUnread
  <2>6. HttpCursor'
    BY <1>1, <1>4, <1>5, <2>1, <2>2, <2>3, <2>4, <2>5 DEF HttpCursor
  <2> QED
    BY <1>1, <1>6, <2>6 DEF Cursor
<1>7. CASE frameIO
  <2>1. FrameCursor
    BY <1>7 DEF IInv, Cursor
  <2>2. sent' = sent
    <3>1. ~SendRequest
      <4>1. Len(sent) \in DOMAIN sent /\ sent[Len(sent)].upgrade
        BY <1>0, <2>1 DEF FrameCursor
      <4> QED
        BY <4>1 DEF SendRequest
    <3> QED
      BY <3>1, SentKept
  <2>3. pc \notin {"dtor", "gone"} => FramesRead \in Nat /\ FramesRead <= Len(frames)
    <3>1. Len(frames) \in Nat /\ DOMAIN frames = 1 .. Len(frames)
      BY <1>0, Types
    <3> QED
      BY <1>0, <2>1, <3>1 DEF FrameCursor, FramesRead, Owned
  <2>4. FramesRead' = FramesRead
    BY <1>1 DEF FramesRead
  <2>5. pc \notin {"dtor", "gone"} => TextsTo(FramesRead)' = TextsTo(FramesRead)
    <3>1. PICK i : i = FramesRead
      OBVIOUS
    <3>2. pc \notin {"dtor", "gone"} => TextsTo(i)' = TextsTo(i)
      BY <2>3, <3>1, TextsKept
    <3> QED
      BY <2>4, <3>1, <3>2 DEF TextsTo
  <2>6. FrameCursor'
    BY <1>1, <1>3, <2>1, <2>2, <2>5 DEF FrameCursor
  <2> QED
    BY <1>1, <1>7, <2>6 DEF Cursor
<1> QED
  BY <1>6, <1>7

\* A step that moves neither the handler nor the stream.
LEMMA CursorKept ==
  ASSUME Cursor, UNCHANGED <<sent, frames, net, closed>>,
         UNCHANGED <<pc, line, first, length, upgrade, frameIO, delivered>>
  PROVE  Cursor'
<1>1. Linked(line, 0)' <=> Linked(line, 0)
  BY DEF Linked, After, BodyFollows
<1>2. (Reading' <=> Reading) /\ (Fresh' <=> Fresh)
  BY <1>1 DEF Reading, Fresh
<1>3. (LengthRead' <=> LengthRead) /\ (LengthUnread' <=> LengthUnread)
  BY DEF LengthRead, LengthUnread
<1>4. HttpCursor => HttpCursor'
  BY <1>2, <1>3 DEF HttpCursor
<1>5. TextsTo(FramesRead)' = TextsTo(FramesRead)
  BY DEF TextsTo, FramesRead
<1>6. FrameCursor => FrameCursor'
  BY <1>1, <1>5 DEF FrameCursor
<1> QED
  BY <1>4, <1>6 DEF Cursor

\* The rest of the stream, when the handler reads nothing.
LEMMA LinkedSame ==
  ASSUME UNCHANGED <<sent, frames, net, closed, line>>
  PROVE  Linked(line, 0)' <=> Linked(line, 0)
  BY DEF Linked, After, BodyFollows

\* The facts about the state that the steps of the handler start from.
LEMMA HandlerFacts ==
  ASSUME IInv
  PROVE  /\ TypeOK /\ StreamTypes /\ UpgradeLast /\ Owned(line) /\ line.n \in Nat
         /\ Len(net) \in Nat /\ DOMAIN net = 1 .. Len(net)
         /\ Len(sent) \in Nat /\ DOMAIN sent = 1 .. Len(sent)
         /\ \A i \in DOMAIN sent : sent[i].body \in Nat /\ sent[i].upgrade \in BOOLEAN
         /\ Len(delivered) \in Nat
         /\ pc \in {"line", "connect", "upgrade", "body"} => ~frameIO
         /\ ~frameIO => HttpCursor /\ Len(delivered) <= Len(sent)
         /\ frameIO => FrameCursor
<1>1. TypeOK /\ UpgradeLast /\ Owned(line)
  BY DEF IInv, Stream
<1>2. \A i \in DOMAIN sent : sent[i].body \in Nat /\ sent[i].upgrade \in BOOLEAN
  <2>1. \A i \in DOMAIN sent : sent[i] \in RequestType
    BY <1>1, Types
  <2> QED
    BY <2>1 DEF RequestType
<1>3. /\ ~frameIO => HttpCursor /\ Len(delivered) <= Len(sent)
      /\ frameIO => FrameCursor
  BY DEF IInv, Cursor, HttpCursor
<1>4. pc \in {"line", "connect", "upgrade", "body"} => ~frameIO
  BY <1>3 DEF FrameCursor
<1> QED
  BY <1>1, <1>2, <1>3, <1>4, Types

\* The end of the loop, wherever it is left.
LEMMA CursorAtEnd ==
  ASSUME IInv, pc' \in {"dtor", "gone"}, UNCHANGED <<sent, delivered, upgrade, frameIO>>
  PROVE  Cursor'
<1>1. CASE frameIO
  BY <1>1, HandlerFacts DEF Cursor, FrameCursor
<1>2. CASE ~frameIO
  <2>1. Len(delivered) <= Len(sent)
    BY <1>2, HandlerFacts
  <2> QED
    BY <1>2, <2>1 DEF Cursor, HttpCursor
<1> QED
  BY <1>1, <1>2

\* The handler goes on with the same line of the header.
LEMMA SameLine ==
  ASSUME UNCHANGED <<sent, frames, net, closed, line, delivered>>
  PROVE  (Reading' <=> Reading) /\ (Fresh' <=> Fresh)
  BY LinkedSame DEF Reading, Fresh

\* The next line of a header is one of the same request, or the first of the
\* next.
LEMMA ReadLineCursor ==
  ASSUME IInv, Step, ReadLine
  PROVE  Cursor'
<1>0. /\ HttpCursor /\ pc = "read" /\ ~frameIO /\ net # <<>> /\ Drops(1)
      /\ Len(delivered) <= Len(sent)
  BY HandlerFacts, StreamMoves DEF ReadLine
<1>1. /\ pc' = "line" /\ UNCHANGED <<sent, first, length, upgrade, frameIO, delivered>>
      /\ line' = Head(net)
  BY DEF ReadLine, envars, parse
<1>2. PICK h : h = net[1]
  OBVIOUS
<1>3. line' = h /\ Owned(h) /\ Linked(h, 0)'
  BY <1>0, <1>1, <1>2, HeadLinked
<1>4. Linked(line, 0)'
  BY <1>3 DEF Linked, After
<1>5. CASE ~first
  <2>1. Fresh /\ LengthUnread
    BY <1>0, <1>5 DEF HttpCursor
  <2>2. h.kind = "first" /\ h.n = Len(delivered) + 1
    BY <1>0, <1>2, <2>1 DEF Fresh, Line
  <2>3. h.n \in DOMAIN sent
    BY <1>3, <2>2 DEF Owned, HeaderKinds
  <2>4. Reading'
    BY <1>1, <1>3, <1>4, <2>2, <2>3 DEF Reading
  <2>5. LengthUnread'
    BY <1>1, <2>1 DEF LengthUnread
  <2>6. HttpCursor'
    BY <1>0, <1>1, <1>3, <1>5, <2>2, <2>4, <2>5 DEF HttpCursor
  <2> QED
    BY <1>0, <1>1, <2>6 DEF Cursor
<1>6. CASE first
  <2>1. /\ Reading /\ line.kind \in HeaderKinds
        /\ line.kind = "first" => LengthUnread
        /\ line.kind # "first" => LengthRead
        /\ upgrade <=> line.kind = "upgrade"
    BY <1>0, <1>6 DEF HttpCursor
  <2>2. h = After(line)
    <3>1. 0 < Len(net)
      BY <1>0, HandlerFacts DEF IInv, TypeOK
    <3>2. net[0 + 1] = After(line)
      BY <2>1, <3>1 DEF Reading, Linked
    <3> QED
      BY <1>2, <3>2
  <2>3. h.n = line.n /\ line.n \in DOMAIN sent /\ line.n = Len(delivered) + 1
    BY <2>1, <2>2 DEF After, Line, Reading
  <2>4. Reading'
    BY <1>1, <1>3, <1>4, <2>3 DEF Reading
  <2>5. sent[line.n].body \in Nat /\ sent[line.n].upgrade \in BOOLEAN
    BY <2>3, HandlerFacts
  <2>6. line.kind = "upgrade" => sent[line.n].upgrade
    BY HandlerFacts DEF Owned
  <2>7. /\ h.kind \in {"length", "upgrade", "empty"}
        /\ h.kind = "length" => LengthUnread
        /\ h.kind # "length" => LengthRead
        /\ upgrade <=> h.kind = "empty" /\ sent[line.n].upgrade
    <3>1. CASE line.kind = "first"
      <4>1. length = 0 /\ ~upgrade /\ LengthUnread
        BY <2>1, <3>1 DEF LengthUnread
      <4> QED
        BY <2>2, <2>5, <3>1, <4>1 DEF After, Line, LengthRead
    <3>2. CASE line.kind = "length"
      BY <2>1, <2>2, <2>5, <3>2 DEF After, Line
    <3>3. CASE line.kind = "upgrade"
      BY <2>1, <2>2, <2>5, <2>6, <3>3 DEF After, Line
    <3> QED
      BY <2>1, <3>1, <3>2, <3>3 DEF HeaderKinds
  <2>8. (LengthUnread' <=> LengthUnread) /\ (LengthRead' <=> LengthRead)
    BY <1>1, <1>3, <2>3 DEF LengthUnread, LengthRead
  <2>9. HttpCursor'
    BY <1>0, <1>1, <1>3, <1>6, <2>3, <2>4, <2>7, <2>8 DEF HttpCursor
  <2> QED
    BY <1>0, <1>1, <2>9 DEF Cursor
<1> QED
  BY <1>5, <1>6

\* HandshakeLine() and OnConnection(): what the header says is known when its
\* empty line has been read.
LEMMA HeaderCursor ==
  ASSUME IInv, Step, FirstLine \/ HeaderLine \/ EndOfHeader \/ OnConnection
  PROVE  Cursor'
<1>0. UNCHANGED <<sent, frames, net, closed, line, delivered, frameIO>>
  BY DEF FirstLine, HeaderLine, EndOfHeader, OnConnection, LineFrame, envars
<1>1. /\ HttpCursor /\ ~frameIO /\ pc \in {"line", "connect"}
      /\ Len(delivered) <= Len(sent)
  BY HandlerFacts DEF FirstLine, HeaderLine, EndOfHeader, OnConnection
<1>2. Reading /\ Reading' /\ line.n \in DOMAIN sent
  <2>1. Reading
    BY <1>1 DEF HttpCursor
  <2> QED
    BY <1>0, <2>1, SameLine DEF Reading
<1>3. sent[line.n].body \in Nat /\ sent[line.n].upgrade \in BOOLEAN /\ upgrade \in BOOLEAN
  BY <1>2, HandlerFacts DEF TypeOK
<1>4. CASE FirstLine
  <2>1. line.kind = "first" /\ length = 0 /\ ~upgrade
    BY <1>1, <1>4 DEF FirstLine, HttpCursor, LengthUnread
  <2>2. length' = length /\ upgrade' = upgrade /\ first' /\ pc' \in {"read", "dtor"}
    BY <1>4 DEF FirstLine
  <2>3. LengthUnread'
    BY <2>1, <2>2 DEF LengthUnread
  <2>4. HttpCursor'
    BY <1>0, <1>1, <1>2, <2>1, <2>2, <2>3 DEF HttpCursor, HeaderKinds
  <2> QED
    BY <1>0, <1>1, <2>4 DEF Cursor
<1>5. CASE HeaderLine
  <2>1. /\ line.kind \in {"length", "upgrade"} /\ ~upgrade
        /\ line.kind = "length" => length = 0
        /\ line.kind # "length" => LengthRead
    BY <1>1, <1>5 DEF HeaderLine, HttpCursor, LengthUnread
  <2>2. /\ length' = IF line.kind = "length" THEN sent[line.n].body ELSE length
        /\ upgrade' = (upgrade \/ line.kind = "upgrade")
        /\ first' = first /\ first /\ pc' = "read"
    BY <1>5 DEF HeaderLine
  <2>3. LengthRead'
    BY <1>0, <2>1, <2>2 DEF LengthRead
  <2>4. upgrade' <=> line.kind = "upgrade"
    BY <2>1, <2>2
  <2>5. HttpCursor'
    BY <1>0, <1>1, <1>2, <2>1, <2>2, <2>3, <2>4 DEF HttpCursor, HeaderKinds
  <2> QED
    BY <1>0, <1>1, <2>5 DEF Cursor
<1>6. CASE EndOfHeader
  <2>1. line.kind = "empty" /\ LengthRead /\ (upgrade <=> sent[line.n].upgrade)
    BY <1>1, <1>6 DEF EndOfHeader, HttpCursor
  <2>2. length' = length /\ upgrade' = upgrade /\ first' = first /\ pc' = "connect"
    BY <1>6 DEF EndOfHeader
  <2>3. LengthRead'
    BY <1>0, <2>1, <2>2 DEF LengthRead
  <2>4. upgrade' = sent'[line.n].upgrade
    BY <1>0, <1>3, <2>1, <2>2
  <2>5. HttpCursor'
    BY <1>0, <1>1, <1>2, <2>1, <2>2, <2>3, <2>4 DEF HttpCursor
  <2> QED
    BY <1>0, <1>1, <2>5 DEF Cursor
<1>7. CASE OnConnection
  <2>1. line.kind = "empty" /\ LengthRead /\ upgrade = sent[line.n].upgrade
    BY <1>1, <1>7 DEF OnConnection, HttpCursor
  <2>2. /\ length' = length /\ upgrade' = upgrade /\ first' = first
        /\ pc' \in {"dtor", "upgrade", "body"}
        /\ pc' = "upgrade" => upgrade
        /\ pc' = "body" => ~upgrade
    BY <1>7 DEF OnConnection, parse
  <2>3. LengthRead'
    BY <1>0, <2>1, <2>2 DEF LengthRead
  <2>4. HttpCursor'
    BY <1>0, <1>1, <1>2, <2>1, <2>2, <2>3 DEF HttpCursor
  <2> QED
    BY <1>0, <1>1, <2>4 DEF Cursor
<1> QED
  BY <1>4, <1>5, <1>6, <1>7

\* _do_frame_io is set: the request to upgrade is the last, no frame is read.
LEMMA StartFramesCursor ==
  ASSUME IInv, Step, StartFrames
  PROVE  Cursor'
<1>0. UNCHANGED <<sent, frames, net, closed, line, upgrade>> /\ frameIO' /\ pc' = "online"
  BY DEF StartFrames, envars, parse
<1>1. Reading /\ line.kind = "empty" /\ upgrade /\ sent[line.n].upgrade
  BY HandlerFacts DEF StartFrames, HttpCursor
<1>2. line.n = Len(sent) /\ line.n \in DOMAIN sent /\ line.n = Len(delivered) + 1
  BY <1>1, HandlerFacts DEF Reading, UpgradeLast
<1>3. Len(delivered') = Len(sent)
  <2>1. Len(delivered') = Len(delivered) + 1
    BY HandlerFacts DEF StartFrames, TypeOK
  <2> QED
    BY <1>2, <2>1
<1>4. Linked(line, 0)'
  BY <1>0, <1>1, LinkedSame DEF Reading
<1>5. FramesRead' = 0 /\ TextsTo(0)' = 0
  <2>1. TextsTo(0)' = TextsTo(0)
    BY <1>0 DEF TextsTo
  <2> QED
    BY <1>0, <1>1, <2>1, TextsFacts, HandlerFacts DEF FramesRead
<1>6. TextsTo(FramesRead)' = 0
  BY <1>5 DEF TextsTo
<1>7. Len(delivered)' = Len(sent)' + TextsTo(FramesRead)' /\ Len(sent') \in Nat
  BY <1>0, <1>3, <1>6, HandlerFacts
<1>8. sent # <<>>
  BY <1>2
<1>9. Len(sent') <= Len(delivered') /\ sent' # <<>> /\ sent'[Len(sent')].upgrade
  BY <1>0, <1>1, <1>2, <1>3, <1>8, HandlerFacts
<1>10. line'.kind = "empty" /\ line'.n = Len(sent') /\ upgrade'
  BY <1>0, <1>1, <1>2
<1>11. FrameCursor'
  BY <1>0, <1>4, <1>7, <1>9, <1>10 DEF FrameCursor
<1> QED
  BY <1>0, <1>11 DEF Cursor

\* After the body comes the next request.
LEMMA ReadBodyCursor ==
  ASSUME IInv, Step, ReadBody
  PROVE  Cursor'
<1>0. /\ UNCHANGED <<sent, frames, closed, upgrade, frameIO>> /\ pc' = "online"
      /\ ~frameIO /\ length \in Nat /\ length <= Len(net)
      /\ net' = SubSeq(net, length + 1, Len(net))
  BY HandlerFacts, StreamMoves DEF ReadBody, envars, parse, Drops
<1>1. /\ Reading /\ line.kind = "empty" /\ length = sent[line.n].body
      /\ ~upgrade /\ ~sent[line.n].upgrade
  BY HandlerFacts DEF ReadBody, HttpCursor, LengthRead
<1>2. line.n \in DOMAIN sent /\ line.n = Len(delivered) + 1 /\ line.n \in Nat
  BY <1>1, HandlerFacts DEF Reading
<1>3. Len(delivered') = line.n
  <2>1. Len(delivered') = Len(delivered) + 1
    BY HandlerFacts DEF ReadBody, TypeOK
  <2> QED
    BY <1>2, <2>1
<1>4. /\ length < Len(net) => net[length + 1] = Line("first", line.n + 1)
      /\ ~closed /\ length = Len(net) => line.n = Len(sent)
  <2>1. BodyFollows(0, line.n)
    BY <1>1 DEF Reading, Linked
  <2>2. 0 + sent[line.n].body = length
    BY <1>0, <1>1
  <2> QED
    BY <1>1, <2>1, <2>2 DEF BodyFollows
<1>5. /\ net' # <<>> => length < Len(net) /\ net'[1] = net[length + 1]
      /\ net' = <<>> => length = Len(net)
  <2> DEFINE P == SubSeq(net, length + 1, Len(net))
  <2>1. /\ P \in Seq(Element) /\ Len(P) = Len(net) - length /\ Len(net) \in Nat
        /\ \A i \in 1 .. Len(P) : P[i] = net[i + length]
    <3>1. net \in Seq(Element) /\ length \in 0 .. Len(net)
      BY <1>0, HandlerFacts DEF StreamTypes
    <3> QED
      BY <3>1, DropFacts
  <2>2. P # <<>> => Len(P) # 0 /\ Len(P) \in Nat
    BY <2>1
  <2>3. P # <<>> => 1 \in 1 .. Len(P) /\ length < Len(net) /\ 1 + length = length + 1
    BY <1>0, <2>1, <2>2
  <2>4. P = <<>> => length = Len(net)
    <3>1. \A p : p = <<>> => Len(p) = 0
      OBVIOUS
    <3>2. P = <<>> => Len(net) - length = 0
      BY <2>1, <3>1
    <3> QED
      BY <1>0, <2>1, <3>2
  <2>5. P # <<>> => length < Len(net) /\ P[1] = net[length + 1]
    BY <2>1, <2>3
  <2> QED
    BY <1>0, <2>4, <2>5
<1>6. Fresh'
  BY <1>0, <1>3, <1>4, <1>5 DEF Fresh
<1>7. Len(delivered') <= Len(sent')
  BY <1>0, <1>2, <1>3, HandlerFacts
<1>8. HttpCursor'
  BY <1>0, <1>1, <1>6, <1>7 DEF HttpCursor
<1> QED
  BY <1>0, <1>8 DEF Cursor

\* WebServer::OnLine() returns, and its flags are reset for the next request.
LEMMA OnLineCursor ==
  ASSUME IInv, Step, EvalLine \/ EvalBody
  PROVE  Cursor'
<1>0. UNCHANGED <<sent, frames, net, closed, line, upgrade, frameIO, delivered>> /\ pc' = "read"
  BY DEF EvalLine, EvalBody, envars, parse
<1>1. pc = "online"
  BY DEF EvalLine, EvalBody
<1>2. CASE frameIO
  <2>1. FrameCursor
    BY <1>2, HandlerFacts
  <2>2. (Linked(line, 0)' <=> Linked(line, 0)) /\ TextsTo(FramesRead)' = TextsTo(FramesRead)
    BY <1>0, LinkedSame DEF TextsTo, FramesRead
  <2>3. FrameCursor'
    BY <1>0, <1>1, <2>1, <2>2 DEF FrameCursor
  <2> QED
    BY <1>0, <1>2, <2>3 DEF Cursor
<1>3. CASE ~frameIO
  <2>1. Fresh /\ ~upgrade /\ Len(delivered) <= Len(sent)
    BY <1>1, <1>3, HandlerFacts DEF HttpCursor
  <2>2. ~first' /\ length' = 0
    BY <2>1 DEF EvalLine, EvalBody
  <2>3. Fresh' /\ LengthUnread'
    BY <1>0, <2>1, <2>2, SameLine DEF LengthUnread
  <2>4. HttpCursor'
    BY <1>0, <2>1, <2>2, <2>3 DEF HttpCursor
  <2> QED
    BY <1>0, <1>3, <2>4 DEF Cursor
<1> QED
  BY <1>2, <1>3

\* A frame is read, or a byte that is none.
LEMMA ReadFrameFacts ==
  ASSUME IInv, Step, ReadFrame, NEW h, h = net[1]
  PROVE  /\ h.kind \in FrameKinds => h.n = FramesRead + 1 /\ h.n \in DOMAIN frames
                                     /\ frames[h.n] = h.kind /\ FramesRead \in Nat
         /\ h.kind \notin FrameKinds => h.kind = "byte"
         /\ Len(delivered) = Len(sent) + TextsTo(FramesRead)
<1>0. /\ FrameCursor /\ pc = "read" /\ net # <<>>
      /\ line.kind \in FrameKinds \cup {"empty"} /\ Linked(line, 0)
      /\ line.kind = "empty" => line.n = Len(sent)
      /\ Len(delivered) = Len(sent) + TextsTo(FramesRead)
      /\ sent # <<>> /\ sent[Len(sent)].upgrade
  BY HandlerFacts DEF ReadFrame, FrameCursor
<1>1. Owned(h) /\ Drops(1)
  BY HeadLinked, StreamMoves
<1>2. 0 < Len(net) /\ DOMAIN net = 1 .. Len(net) /\ Len(net) \in Nat
  BY <1>0, HandlerFacts DEF StreamTypes
<1>3. CASE line.kind \in FrameKinds
  <2>1. net[0 + 1].kind \in FrameKinds /\ net[0 + 1].n = line.n + 1
    BY <1>0, <1>2, <1>3 DEF Linked
  <2>2. line.kind # "empty"
    BY <1>3 DEF FrameKinds
  <2>3. h.kind \in FrameKinds /\ h.n = FramesRead + 1 /\ FramesRead \in Nat
    BY <2>1, <2>2, HandlerFacts DEF FramesRead
  <2> QED
    BY <1>0, <1>1, <2>3 DEF Owned
<1>4. CASE line.kind = "empty"
  <2>1. BodyFollows(0, line.n) /\ sent[line.n].upgrade /\ FramesRead = 0
    BY <1>0, <1>4 DEF Linked, FramesRead
  <2>2. PICK b : b = sent[line.n].body
    OBVIOUS
  <2>3. b \in Nat /\ 0 + b = b
    <3>1. line.n \in DOMAIN sent
      BY <1>4, HandlerFacts DEF Owned
    <3> QED
      BY <2>2, <3>1, HandlerFacts
  <2>4. CASE b = 0
    <3>1. net[0 + 1].kind \in FrameKinds /\ net[0 + 1].n = 1
      <4>1. 0 + sent[line.n].body = 0
        BY <2>2, <2>4
      <4> QED
        BY <1>2, <2>1, <4>1 DEF BodyFollows
    <3>2. h.kind \in FrameKinds /\ h.n = FramesRead + 1 /\ FramesRead \in Nat
      BY <2>1, <3>1
    <3> QED
      BY <1>0, <1>1, <3>2 DEF Owned
  <2>5. CASE b # 0
    <3>1. 1 \in 0 + 1 .. 0 + b /\ 1 \in DOMAIN net
      BY <1>2, <2>3, <2>5
    <3>2. net[1] = Line("byte", line.n)
      BY <2>1, <2>2, <3>1 DEF BodyFollows
    <3>3. h.kind = "byte"
      BY <3>2 DEF Line
    <3>4. "byte" \notin FrameKinds
      BY DEF FrameKinds
    <3> QED
      BY <1>0, <3>3, <3>4
  <2> QED
    BY <2>4, <2>5
<1> QED
  BY <1>0, <1>3, <1>4

\* get_websocket_line() goes from one frame to the next.
LEMMA FramesCursor ==
  ASSUME IInv, Step, ReadFrame \/ PongHeader \/ PongData
  PROVE  Cursor'
<1>0. UNCHANGED <<sent, frames, closed, upgrade, frameIO>> /\ frameIO
  BY ModeFacts DEF ReadFrame, PongHeader, PongData, FrameFrame, envars, parse
<1>1. FrameCursor
  BY <1>0, HandlerFacts
<1>2. CASE PongHeader \/ PongData
  <2>1. /\ UNCHANGED <<net, line, delivered>> /\ pc \in {"pong", "pongdata"}
        /\ pc' \in {"read", "pongdata"}
    BY <1>2 DEF PongHeader, PongData
  <2>2. (Linked(line, 0)' <=> Linked(line, 0)) /\ TextsTo(FramesRead)' = TextsTo(FramesRead)
    BY <1>0, <2>1, LinkedSame DEF TextsTo, FramesRead
  <2>3. FrameCursor'
    BY <1>0, <1>1, <2>1, <2>2 DEF FrameCursor
  <2> QED
    BY <1>0, <2>3 DEF Cursor
<1>3. CASE ReadFrame
  <2>1. PICK h : h = net[1]
    OBVIOUS
  <2>2. /\ h.kind \in FrameKinds => h.n = FramesRead + 1 /\ h.n \in DOMAIN frames
                                    /\ frames[h.n] = h.kind /\ FramesRead \in Nat
        /\ h.kind \notin FrameKinds => h.kind = "byte"
        /\ Len(delivered) = Len(sent) + TextsTo(FramesRead)
    BY <1>3, <2>1, ReadFrameFacts
  <2>3. Drops(1) /\ net # <<>>
    BY <1>3, StreamMoves
  <2>4. line' = h /\ Linked(h, 0)' /\ h = Head(net)
    BY <1>3, <2>1, <2>3, HeadLinked DEF ReadFrame
  <2>5. Linked(line, 0)'
    BY <2>4 DEF Linked, After
  <2>6. /\ pc' \in {"online", "pong", "read", "dtor"}
        /\ h.kind = "byte" => pc' = "dtor"
        /\ delivered' = IF h.kind = "text" THEN Append(delivered, <<h>>) ELSE delivered
    BY <1>3, <2>4 DEF ReadFrame
  <2>7. Len(delivered') = Len(delivered) + (IF h.kind = "text" THEN 1 ELSE 0)
    <3>1. delivered \in Seq(Seq(Element)) /\ <<h>> \in Seq(Element)
      <4>1. h \in Element
        BY <2>1, <2>3, HeadLinked
      <4> QED
        BY <4>1, HandlerFacts DEF TypeOK, Element
    <3>2. Len(Append(delivered, <<h>>)) = Len(delivered) + 1 /\ Len(delivered) \in Nat
      BY <3>1, AppendFacts
    <3> QED
      BY <2>6, <3>2
  <2>8. Len(sent) <= Len(delivered')
    BY <1>1, <2>7, HandlerFacts DEF FrameCursor
  <2>9. CASE h.kind \in FrameKinds
    <3>1. h.kind # "empty"
      BY <2>9 DEF FrameKinds
    <3>2. FramesRead' = FramesRead + 1
      BY <2>2, <2>4, <2>9, <3>1 DEF FramesRead
    <3>3. TextsTo(FramesRead + 1) = TextsTo(FramesRead) + (IF h.kind = "text" THEN 1 ELSE 0)
          /\ TextsTo(FramesRead) \in Nat
      <4>1. PICK i \in Nat : i = FramesRead
        BY <2>2, <2>9
      <4>2. i + 1 \in DOMAIN frames /\ frames[i + 1] = h.kind
        BY <2>2, <2>9, <4>1
      <4>3. TextsTo(i + 1) = TextsTo(i) + (IF h.kind = "text" THEN 1 ELSE 0)
            /\ TextsTo(i) \in Nat
        BY <4>2, TextsFacts, HandlerFacts
      <4> QED
        BY <4>1, <4>3
    <3>4. TextsTo(FramesRead)' = TextsTo(FramesRead + 1)
      BY <1>0, <3>2 DEF TextsTo
    <3>5. Len(delivered') = Len(sent) + TextsTo(FramesRead)'
      <4>1. PICK a : a = TextsTo(FramesRead)'
        OBVIOUS
      <4>2. a = TextsTo(FramesRead) + (IF h.kind = "text" THEN 1 ELSE 0)
        BY <3>3, <3>4, <4>1
      <4>3. Len(delivered') = Len(sent) + a
        BY <2>2, <2>7, <3>3, <4>2, HandlerFacts
      <4> QED
        BY <4>1, <4>3
    <3>6. FrameCursor'
      BY <1>0, <1>1, <2>4, <2>5, <2>6, <2>8, <2>9, <3>1, <3>5 DEF FrameCursor
    <3> QED
      BY <1>0, <3>6 DEF Cursor
  <2>10. CASE h.kind \notin FrameKinds
    <3>1. pc' = "dtor"
      BY <2>2, <2>6, <2>10
    <3>2. FrameCursor'
      BY <1>0, <1>1, <2>8, <3>1 DEF FrameCursor
    <3> QED
      BY <1>0, <3>2 DEF Cursor
  <2> QED
    BY <2>9, <2>10
<1> QED
  BY <1>2, <1>3

\* A command is executed, before OnLine() goes on.
LEMMA CommandCursor ==
  ASSUME IInv, Step, ExecuteRequest \/ CommandData
  PROVE  Cursor'
<1>0. UNCHANGED <<sent, frames, net, closed, line, first, length, upgrade, frameIO, delivered>>
  BY DEF ExecuteRequest, CommandData, envars, parse
<1>1. CASE pc' = pc
  BY <1>0, <1>1, CursorKept DEF IInv
<1>2. CASE pc' # pc
  <2>1. frameIO /\ pc' \in {"online", "cmddata"} /\ pc \in {"online", "cmddata"}
    BY <1>2, ModeFacts DEF ExecuteRequest, CommandData
  <2>2. FrameCursor
    BY <2>1, HandlerFacts
  <2>3. (Linked(line, 0)' <=> Linked(line, 0)) /\ TextsTo(FramesRead)' = TextsTo(FramesRead)
    BY <1>0, LinkedSame DEF TextsTo, FramesRead
  <2>4. FrameCursor'
    BY <1>0, <2>1, <2>2, <2>3 DEF FrameCursor
  <2> QED
    BY <1>0, <2>1, <2>4 DEF Cursor
<1> QED
  BY <1>1, <1>2

\* Every step leaves the handler where the stream says it is.
LEMMA CursorStep ==
  ASSUME IInv, Step
  PROVE  Cursor'
<1>1. CASE Client
  BY <1>1, ClientCursor
<1>2. CASE ReadEOF \/ BodyEOF \/ Delete
  <2>1. pc' \in {"dtor", "gone"} /\ UNCHANGED <<sent, delivered, upgrade, frameIO>>
    BY <1>2 DEF ReadEOF, BodyEOF, Delete, envars, parse
  <2> QED
    BY <2>1, CursorAtEnd
<1>3. CASE SendUpgrade \/ ShellThreads \/ Listener
  <2>1. Cursor
    BY DEF IInv
  <2>2. /\ UNCHANGED <<sent, frames, net, closed>>
        /\ UNCHANGED <<pc, line, first, length, upgrade, frameIO, delivered>>
    <3>1. CASE SendUpgrade
      BY <3>1 DEF SendUpgrade, envars, parse
    <3>2. CASE ShellThreads
      BY <3>2 DEF ShellThreads, ShellSends, Evaluate, SendHead, SendData, PollFrame, envars, parse
    <3>3. CASE Listener
      BY <3>3 DEF Listener, HalfPing, HalfPingSteps, HalfPingMode, HalfPingPong,
         HalfPingSyn, HalfPingRaw, HalfPingSynHead, HalfPingSynData, PingFrame, envars,
         parse
    <3> QED
      BY <1>3, <3>1, <3>2, <3>3
  <2> QED
    BY <2>1, <2>2, CursorKept
<1> QED
  BY <1>1, <1>2, <1>3, ReadLineCursor, HeaderCursor, StartFramesCursor, ReadBodyCursor,
     CommandCursor, OnLineCursor, FramesCursor DEF Step, Handler, HandlerSteps

-----------------------------------------------------------------------------
(* What OnLine() is called with. *)

\* A call that was right stays right: the client does not take back what it
\* has sent, and sends no request after the frames have begun.
LEMMA ExpectedKept ==
  ASSUME IInv, Step, NEW k \in DOMAIN delivered, NEW lines, Expected(k, lines)
  PROVE  Expected(k, lines)'
<1>0. /\ Len(sent) \in Nat /\ DOMAIN sent = 1 .. Len(sent) /\ Len(delivered) \in Nat
      /\ k \in 1 .. Len(delivered)
  BY HandlerFacts, Types
<1>1. CASE k <= Len(sent)
  <2>1. k \in DOMAIN sent
    BY <1>0, <1>1
  <2>2. sent'[k] = sent[k] /\ k \in DOMAIN sent'
    BY <2>1, SentKept
  <2>3. Body(k)' = Body(k)
    BY <2>2 DEF Body
  <2>4. k <= Len(sent')
    <3>1. Len(sent) <= Len(sent') /\ Len(sent') \in Nat
      BY SentKept, StreamTypeStep
    <3> QED
      BY <1>0, <1>1, <3>1
  <2> QED
    BY <1>1, <2>3, <2>4 DEF Expected
<1>2. CASE ~(k <= Len(sent))
  <2>1. frameIO
    BY <1>0, <1>2, HandlerFacts
  <2>2. sent' = sent
    <3>1. Len(sent) \in DOMAIN sent /\ sent[Len(sent)].upgrade
      BY <1>0, <2>1, HandlerFacts DEF FrameCursor, TypeOK
    <3>2. ~SendRequest
      BY <3>1 DEF SendRequest
    <3> QED
      BY <3>2, SentKept
  <2>3. PICK i \in DOMAIN frames : /\ frames[i] = "text" /\ lines = Text(i)
                                   /\ Len(sent) + TextsTo(i) = k
    BY <1>2 DEF Expected
  <2>4. i \in DOMAIN frames' /\ frames'[i] = "text"
    BY <2>3, SentKept
  <2>5. TextsTo(i)' = TextsTo(i)
    <3>1. i \in Nat /\ i <= Len(frames)
      BY Types, HandlerFacts
    <3> QED
      BY <3>1, TextsKept
  <2>6. Text(i)' = Text(i)
    BY DEF Text
  <2> QED
    BY <1>2, <2>2, <2>3, <2>4, <2>5, <2>6 DEF Expected
<1> QED
  BY <1>1, <1>2

\* The next call is the next one expected.
LEMMA ExpectedNext ==
  ASSUME IInv, Step, delivered' # delivered
  PROVE  \E k \in Nat, lines \in Seq(Element) :
           /\ k = Len(delivered) + 1 /\ delivered' = Append(delivered, lines)
           /\ Expected(k, lines)'
<1>0. /\ Len(sent) \in Nat /\ DOMAIN sent = 1 .. Len(sent) /\ Len(delivered) \in Nat
      /\ net \in Seq(Element) /\ Len(net) \in Nat /\ line \in Element
  BY HandlerFacts DEF StreamTypes, TypeOK, Element
<1>1. CASE StartFrames
  <2>1. Reading /\ line.kind = "empty" /\ sent[line.n].upgrade
    BY <1>1, HandlerFacts DEF StartFrames, HttpCursor
  <2>2. line.n = Len(delivered) + 1 /\ line.n \in DOMAIN sent
    BY <2>1 DEF Reading
  <2>3. line = Line("empty", line.n)
    BY <1>0, <2>1 DEF Element, Line
  <2>4. <<line>> = Body(line.n)
    BY <2>1, <2>3 DEF Body
  <2>5. sent' = sent /\ delivered' = Append(delivered, <<line>>)
    BY <1>1 DEF StartFrames, envars
  <2>6. PICK n : n = line.n
    OBVIOUS
  <2>7. Body(n)' = Body(n) /\ n <= Len(sent')
    BY <1>0, <2>2, <2>5, <2>6 DEF Body
  <2>8. PICK l \in Seq(Element) : l = <<line>>
    <3>1. <<line>> \in Seq(Element)
      BY <1>0
    <3> QED
      BY <3>1
  <2>9. Expected(n, l)'
    BY <2>4, <2>6, <2>7, <2>8 DEF Expected
  <2>10. delivered' = Append(delivered, l) /\ n = Len(delivered) + 1 /\ n \in Nat
    BY <1>0, <2>2, <2>5, <2>6, <2>8
  <2> QED
    BY <2>9, <2>10
<1>2. CASE ReadBody
  <2>1. /\ Reading /\ line.kind = "empty" /\ length = sent[line.n].body
        /\ ~sent[line.n].upgrade
    BY <1>2, HandlerFacts DEF ReadBody, HttpCursor, LengthRead
  <2>2. line.n = Len(delivered) + 1 /\ line.n \in DOMAIN sent
    BY <2>1 DEF Reading
  <2>3. length \in 0 .. Len(net) /\ length \in Nat
    BY <1>0, <1>2, HandlerFacts DEF ReadBody, TypeOK
  <2>4. PICK l : l = SubSeq(net, 1, length)
    OBVIOUS
  <2>5. /\ l \in Seq(Element) /\ Len(l) = length /\ DOMAIN l = 1 .. length
        /\ DOMAIN net = 1 .. Len(net) /\ \A i \in 1 .. length : l[i] = net[i]
    BY <1>0, <2>3, <2>4, PrefixFacts
  <2>6. \A i \in 1 .. length : net[i] = Line("byte", line.n)
    <3>1. BodyFollows(0, line.n)
      BY <2>1 DEF Reading, Linked
    <3>2. \A i \in 0 + 1 .. 0 + length : i \in DOMAIN net => net[i] = Line("byte", line.n)
      BY <2>1, <3>1 DEF BodyFollows
    <3>3. \A i \in 1 .. length : i \in 0 + 1 .. 0 + length /\ i \in DOMAIN net
      BY <1>0, <2>3, <2>5
    <3> QED
      BY <3>2, <3>3
  <2>7. l = [j \in 1 .. length |-> Line("byte", line.n)]
    BY <2>5, <2>6
  <2>8. l = Body(line.n)
    BY <2>1, <2>7 DEF Body
  <2>9. sent' = sent /\ delivered' = Append(delivered, l)
    BY <1>2, <2>4 DEF ReadBody, envars
  <2>10. PICK n : n = line.n
    OBVIOUS
  <2>11. Body(n)' = Body(n) /\ n <= Len(sent')
    BY <1>0, <2>2, <2>9, <2>10 DEF Body
  <2>12. Expected(n, l)'
    BY <2>8, <2>10, <2>11 DEF Expected
  <2> QED
    BY <1>0, <2>2, <2>5, <2>9, <2>10, <2>12
<1>3. CASE ReadFrame
  <2>1. PICK h : h = net[1]
    OBVIOUS
  <2>2. /\ h.kind \in FrameKinds => h.n = FramesRead + 1 /\ h.n \in DOMAIN frames
                                    /\ frames[h.n] = h.kind /\ FramesRead \in Nat
        /\ Len(delivered) = Len(sent) + TextsTo(FramesRead)
    BY <1>3, <2>1, ReadFrameFacts
  <2>3. h = Head(net) /\ h \in Element
    BY <1>3, <2>1, HeadLinked, StreamMoves
  <2>4. h.kind = "text" /\ delivered' = Append(delivered, <<h>>)
    BY <1>3, <2>3 DEF ReadFrame
  <2>5. h.kind \in FrameKinds
    BY <2>4 DEF FrameKinds
  <2>6. PICK i \in Nat : i = FramesRead
    BY <2>2, <2>5
  <2>7. h.n = i + 1 /\ i + 1 \in DOMAIN frames /\ frames[i + 1] = "text"
    BY <2>2, <2>4, <2>5, <2>6
  <2>8. TextsTo(i + 1) = TextsTo(i) + 1 /\ TextsTo(i) \in Nat
    BY <2>7, TextsFacts, HandlerFacts
  <2>9. PICK k : k = Len(delivered) + 1
    OBVIOUS
  <2>10. Len(sent) + TextsTo(i + 1) = k /\ ~(k <= Len(sent))
    BY <1>0, <2>2, <2>6, <2>8, <2>9
  <2>11. sent' = sent /\ frames' = frames
    BY <1>3 DEF ReadFrame, FrameFrame, envars
  <2>12. PICK l \in Seq(Element) : l = <<h>>
    <3>1. <<h>> \in Seq(Element)
      BY <2>3
    <3> QED
      BY <3>1
  <2>13. l = Text(i + 1)
    <3>1. h = Line("text", i + 1)
      BY <2>3, <2>4, <2>7 DEF Element, Line
    <3> QED
      BY <2>12, <3>1 DEF Text
  <2>14. Expected(k, l)'
    <3>1. TextsTo(i + 1)' = TextsTo(i + 1) /\ Text(i + 1)' = Text(i + 1)
      BY <2>11 DEF TextsTo, Text
    <3> QED
      BY <2>7, <2>10, <2>11, <2>13, <3>1 DEF Expected
  <2>15. delivered' = Append(delivered, l) /\ k \in Nat
    BY <1>0, <2>4, <2>9, <2>12
  <2> QED
    BY <2>9, <2>14, <2>15
<1> QED
  BY <1>1, <1>2, <1>3, WhoChanges

\* So every call is right.
LEMMA DeliveredStep ==
  ASSUME IInv, Step
  PROVE  DeliveredExact'
<1>0. delivered \in Seq(Seq(Element)) /\ DeliveredExact
  BY DEF IInv, TypeOK, Element
<1>1. CASE delivered' = delivered
  <2>1. ASSUME NEW k \in DOMAIN delivered PROVE Expected(k, delivered[k])'
    <3>1. PICK l : l = delivered[k]
      OBVIOUS
    <3>2. Expected(k, l)
      BY <1>0, <3>1 DEF DeliveredExact
    <3>3. Expected(k, l)'
      BY <3>2, ExpectedKept
    <3> QED
      BY <1>1, <3>1, <3>3 DEF Expected
  <2> QED
    BY <1>1, <2>1 DEF DeliveredExact
<1>2. CASE delivered' # delivered
  <2>1. PICK n \in Nat, lines \in Seq(Element) :
          /\ n = Len(delivered) + 1 /\ delivered' = Append(delivered, lines)
          /\ Expected(n, lines)'
    BY <1>2, ExpectedNext
  <2>2. /\ DOMAIN delivered = 1 .. n - 1 /\ DOMAIN delivered' = 1 .. n
        /\ \A i \in 1 .. n - 1 : delivered'[i] = delivered[i]
        /\ delivered'[n] = lines
    <3>1. /\ DOMAIN delivered = 1 .. Len(delivered) /\ Len(delivered) \in Nat
          /\ DOMAIN delivered' = 1 .. Len(delivered) + 1
          /\ \A i \in 1 .. Len(delivered) : delivered'[i] = delivered[i]
          /\ delivered'[Len(delivered) + 1] = lines
      BY <1>0, <2>1, AppendFacts
    <3>2. n - 1 = Len(delivered)
      BY <2>1, <3>1
    <3> QED
      BY <2>1, <3>1, <3>2
  <2>3. ASSUME NEW k \in DOMAIN delivered' PROVE Expected(k, delivered[k])'
    <3>1. CASE k = n
      BY <2>1, <2>2, <3>1 DEF Expected
    <3>2. CASE k # n
      <4>1. k \in DOMAIN delivered /\ delivered'[k] = delivered[k]
        BY <2>2, <3>2
      <4>2. PICK l : l = delivered[k]
        OBVIOUS
      <4>3. Expected(k, l)'
        BY <1>0, <4>1, <4>2, ExpectedKept DEF DeliveredExact
      <4> QED
        BY <4>1, <4>2, <4>3 DEF Expected
    <3> QED
      BY <3>1, <3>2
  <2> QED
    BY <2>3 DEF DeliveredExact
<1> QED
  BY <1>1, <1>2

\* The shells that have been opened.
LEMMA ShellsStep ==
  ASSUME IInv, Step
  PROVE  Shells'
<1>0. /\ Shells /\ shell \in Nat /\ Len(sent) \in Nat /\ Len(delivered) \in Nat
      /\ delivered \in Seq(Seq(Element))
  BY HandlerFacts, WebSessionAssumption DEF IInv, TypeOK, Element
<1>1. Len(sent) <= Len(sent') /\ Len(sent') \in Nat
  BY SentKept, StreamTypeStep
<1>2. Len(delivered) <= Len(delivered') /\ Len(delivered') \in Nat
  <2>1. CASE delivered' = delivered
    BY <1>0, <2>1
  <2>2. CASE delivered' # delivered
    <3>1. PICK lines \in Seq(Element) : delivered' = Append(delivered, lines)
      BY <2>2, ExpectedNext
    <3>2. Len(delivered') = Len(delivered) + 1
      BY <1>0, <3>1, AppendFacts
    <3> QED
      BY <1>0, <3>2
  <2> QED
    BY <2>1, <2>2
<1>3. CASE ExecuteRequest
  <2>1. /\ shell < Len(sent) /\ shell < Len(delivered) /\ request' = "none"
        /\ shell' = shell \/ shell' = shell + 1
    BY <1>0, <1>3 DEF ExecuteRequest, Shells
  <2>2. shell' <= Len(sent') /\ shell' <= Len(delivered')
    BY <1>0, <1>1, <1>2, <2>1
  <2> QED
    BY <2>1, <2>2 DEF Shells
<1>4. ASSUME ~ExecuteRequest PROVE shell' = shell
  BY <1>4, WhoChanges DEF OnConnection, CommandData
<1>5. ASSUME ~ExecuteRequest PROVE shell' <= Len(sent') /\ shell' <= Len(delivered')
  BY <1>0, <1>1, <1>2, <1>4, <1>5 DEF Shells
<1>6. CASE OnConnection
  <2>1. request' = request \/ pc' \in {"upgrade", "body"}
    BY <1>6 DEF OnConnection
  <2>2. pc = "connect" /\ pc' \in {"dtor", "upgrade", "body"}
    BY <1>6 DEF OnConnection
  <2>3. request = "none"
    BY <1>0, <2>2 DEF Shells
  <2>4. ~ExecuteRequest
    BY <2>2 DEF ExecuteRequest
  <2> QED
    BY <1>5, <2>1, <2>2, <2>3, <2>4 DEF Shells
<1>7. CASE StartFrames \/ ReadBody
  <2>1. /\ pc \in {"upgrade", "body"} /\ pc' = "online" /\ request' = request
        /\ \E l : delivered' = Append(delivered, l)
    BY <1>7 DEF StartFrames, ReadBody
  <2>2. ~frameIO /\ ~ExecuteRequest
    BY <2>1, HandlerFacts DEF ExecuteRequest
  <2>3. Len(delivered) + 1 <= Len(sent)
    <3>1. Reading
      BY <2>1, <2>2, HandlerFacts DEF HttpCursor
    <3> QED
      BY <3>1, HandlerFacts DEF Reading
  <2>4. Len(delivered') = Len(delivered) + 1
    BY <1>0, <1>7 DEF StartFrames, ReadBody
  <2>5. shell < Len(sent') /\ shell < Len(delivered')
    BY <1>0, <1>1, <2>3, <2>4 DEF Shells
  <2> QED
    BY <1>4, <1>5, <2>1, <2>2, <2>5 DEF Shells
<1>8. ASSUME ~ExecuteRequest, ~OnConnection, ~StartFrames, ~ReadBody
      PROVE  /\ request' = request
             /\ request # "none" /\ pc' = "online" => pc = "online"
             /\ request # "none" => pc' \in {"upgrade", "body", "online", "dtor", "gone"}
  <2>1. request' = request
    BY <1>8, WhoChanges DEF CommandData
  <2>2. request # "none" => pc \in {"upgrade", "body", "online", "dtor", "gone"}
    BY <1>0 DEF Shells
  <2>3. CASE Handler
    <3>1. ReadLine \/ FirstLine \/ HeaderLine \/ EndOfHeader \/ ReadFrame \/ PongHeader \/ PongData
            => pc \in {"read", "line", "pong", "pongdata"}
      BY DEF ReadLine, FirstLine, HeaderLine, EndOfHeader, ReadFrame, PongHeader, PongData
    <3>2. ReadEOF \/ BodyEOF \/ Delete => pc' \in {"dtor", "gone"}
      BY DEF ReadEOF, BodyEOF, Delete
    <3>3. EvalLine \/ EvalBody => request = "none"
      BY DEF EvalLine, EvalBody
    <3>4. (SendUpgrade => pc' = pc) /\ (CommandData => pc = "cmddata")
      BY DEF SendUpgrade, CommandData
    <3> QED
      BY <1>8, <2>1, <2>2, <2>3, <3>1, <3>2, <3>3, <3>4 DEF Handler, HandlerSteps
  <2>4. CASE UNCHANGED handlervars
    BY <2>1, <2>2, <2>4 DEF handlervars
  <2> QED
    BY <2>3, <2>4, WhoChanges
<1>9. CASE ~ExecuteRequest /\ ~OnConnection /\ ~StartFrames /\ ~ReadBody
  <2>1. request # "none" /\ pc = "online" => shell < Len(sent') /\ shell < Len(delivered')
    BY <1>0, <1>1, <1>2 DEF Shells
  <2> QED
    BY <1>4, <1>5, <1>8, <1>9, <2>1 DEF Shells
<1> QED
  BY <1>3, <1>6, <1>7, <1>9

-----------------------------------------------------------------------------
(* The halves of frames, and the SYN byte after the 101. *)

\* A step that writes nothing, and after which no other payload is due.
Quiet ==
  /\ UNCHANGED wire
  /\ poll'.at = "data" => poll' = poll
  /\ pc' \in {"pongdata", "cmddata"} => UNCHANGED <<pc, line>>
  /\ ping' = "syndata" => ping = "syndata"

\* A write of the handler, of the poll thread, and of half_ping(): a payload is
\* written when it is due, and due when its header has been written.
HandlerKinds == {"501", "page", "reply", "101", "cmdhead", "cmddata", "ponghead", "pongdata"}
HandlerPut(k) ==
  /\ Put(k, line.n) /\ UNCHANGED <<line, poll, ping>>
  /\ k \in {"pongdata", "cmddata"} => pc = k
  /\ (pc' = "pongdata" => k = "ponghead") /\ (pc' = "cmddata" => k = "cmdhead")

PollKinds == {"head", "data"}
PollPut(k) ==
  /\ Put(k, poll.n) /\ UNCHANGED <<pc, line, ping>>
  /\ k = "data" => poll.at = "data"
  /\ poll'.at = "data" => k = "head" /\ poll'.n = poll.n

PingKinds == {"syn", "pong", "synhead", "syndata"}
PingPut(k) ==
  /\ Put(k, 0) /\ UNCHANGED <<pc, line, poll>>
  /\ k = "syndata" => ping = "syndata"
  /\ ping' = "syndata" => k = "synhead"
  /\ k = "syn" => ping = "raw" /\ ping' = "idle"

\* Every step is one of these.
LEMMA WhoWrites ==
  ASSUME IInv, Step
  PROVE  \/ Quiet
         \/ \E k \in HandlerKinds : HandlerPut(k)
         \/ \E k \in PollKinds : PollPut(k)
         \/ \E k \in PingKinds : PingPut(k)
<1>1. CASE Client
  BY <1>1 DEF Client, SendRequest, SendFrame, Close, ServerFrame, Quiet, shellvars, pingvars
<1>2. CASE ReadLine \/ ReadEOF \/ HeaderLine \/ EndOfHeader \/ StartFrames \/ ReadBody
  BY <1>2 DEF ReadLine, ReadEOF, HeaderLine, EndOfHeader, LineFrame, StartFrames, ReadBody,
     Quiet, shellvars, pingvars
<1>3. CASE BodyEOF \/ EvalLine \/ Delete
  BY <1>3 DEF BodyEOF, EvalLine, Delete, Quiet, shellvars, pingvars
<1>4. CASE ReadFrame
  <2>1. pc' \in {"online", "pong", "read", "dtor"}
    BY <1>4 DEF ReadFrame
  <2> QED
    BY <1>4, <2>1 DEF ReadFrame, FrameFrame, Quiet, shellvars, pingvars
<1>5. CASE FirstLine
  <2>1. pc' \in {"read", "dtor"} /\ UNCHANGED <<line, poll, ping>>
    BY <1>5 DEF FirstLine, LineFrame, shellvars, pingvars
  <2>2. UNCHANGED wire \/ Put("501", line.n)
    BY <1>5 DEF FirstLine
  <2> QED
    BY <2>1, <2>2 DEF Quiet, HandlerPut, HandlerKinds
<1>6. CASE OnConnection
  <2>1. pc' \in {"dtor", "upgrade", "body"} /\ UNCHANGED <<line, poll, ping>>
    BY <1>6 DEF OnConnection, shellvars, pingvars
  <2>2. UNCHANGED wire \/ Put("page", line.n)
    BY <1>6 DEF OnConnection, ServePage
  <2> QED
    BY <2>1, <2>2 DEF Quiet, HandlerPut, HandlerKinds
<1>7. CASE SendUpgrade
  <2>1. pc' = "upgrade" /\ UNCHANGED <<line, poll, ping>> /\ Put("101", line.n)
    BY <1>7 DEF SendUpgrade, shellvars, pingvars
  <2> QED
    BY <2>1 DEF HandlerPut, HandlerKinds
<1>8. CASE ExecuteRequest
  <2>1. UNCHANGED <<line, poll, ping>> /\ pc = "online"
    BY <1>8 DEF ExecuteRequest, shellvars, pingvars
  <2>2. \/ pc' = "online" /\ UNCHANGED wire
        \/ pc' = "online" /\ Put("reply", line.n)
        \/ pc' = "cmddata" /\ Put("cmdhead", line.n)
    BY <1>8, <2>1 DEF ExecuteRequest
  <2> QED
    BY <2>1, <2>2 DEF Quiet, HandlerPut, HandlerKinds
<1>9. CASE CommandData
  <2>1. UNCHANGED <<line, poll, ping>> /\ pc = "cmddata" /\ pc' = "online"
        /\ Put("cmddata", line.n)
    BY <1>9 DEF CommandData, shellvars, pingvars
  <2> QED
    BY <2>1 DEF HandlerPut, HandlerKinds
<1>10. CASE EvalBody
  <2>1. pc' = "read" /\ UNCHANGED <<line, poll, ping>>
    BY <1>10 DEF EvalBody, shellvars, pingvars
  <2>2. UNCHANGED wire \/ Put("reply", line.n)
    BY <1>10 DEF EvalBody
  <2> QED
    BY <2>1, <2>2 DEF Quiet, HandlerPut, HandlerKinds
<1>11. CASE PongHeader
  <2>1. pc' \in {"pongdata", "read"} /\ UNCHANGED <<line, poll, ping>> /\ Put("ponghead", line.n)
    BY <1>11 DEF PongHeader, FrameFrame, shellvars, pingvars
  <2> QED
    BY <2>1 DEF HandlerPut, HandlerKinds
<1>12. CASE PongData
  <2>1. pc = "pongdata" /\ pc' = "read" /\ UNCHANGED <<line, poll, ping>> /\ Put("pongdata", line.n)
    BY <1>12 DEF PongData, FrameFrame, shellvars, pingvars
  <2> QED
    BY <2>1 DEF HandlerPut, HandlerKinds
<1>13. CASE ShellThreads
  <2>0. poll.at \in {"idle", "head", "data"} /\ poll \in [at: {"idle", "head", "data"}, n: Nat]
    BY DEF IInv, TypeOK
  <2>1. CASE Evaluate
    BY <2>1 DEF Evaluate, Quiet, pingvars
  <2>2. CASE SendHead
    <3>1. poll'.n = poll.n
      BY <2>0, <2>2 DEF SendHead
    <3> QED
      BY <2>2, <3>1 DEF SendHead, PollFrame, PollPut, PollKinds, pingvars
  <2>3. CASE SendData
    BY <2>3 DEF SendData, PollFrame, PollPut, PollKinds, pingvars, Idle
  <2> QED
    BY <1>13, <2>1, <2>2, <2>3 DEF ShellThreads, ShellSends
<1>14. CASE Listener
  <2>1. CASE HalfPing \/ HalfPingMode \/ HalfPingSyn
    BY <2>1 DEF HalfPing, HalfPingMode, HalfPingSyn, PingFrame, Quiet, shellvars
  <2>2. CASE HalfPingPong
    BY <2>2 DEF HalfPingPong, PingFrame, PingPut, PingKinds, shellvars
  <2>3. CASE HalfPingRaw
    BY <2>3 DEF HalfPingRaw, PingFrame, PingPut, PingKinds, shellvars
  <2>4. CASE HalfPingSynHead
    BY <2>4 DEF HalfPingSynHead, PingFrame, PingPut, PingKinds, shellvars
  <2>5. CASE HalfPingSynData
    BY <2>5 DEF HalfPingSynData, PingFrame, PingPut, PingKinds, shellvars
  <2> QED
    BY <1>14, <2>1, <2>2, <2>3, <2>4, <2>5 DEF Listener, HalfPingSteps
<1> QED
  BY <1>1, <1>2, <1>3, <1>4, <1>5, <1>6, <1>7, <1>8, <1>9, <1>10, <1>11, <1>12, <1>13, <1>14
  DEF Step, Handler, HandlerSteps

\* HalvesInOrder, of any sequence of writes.
InOrder(q) ==
  \A i \in DOMAIN q : q[i].kind \in Payloads =>
    \E j \in 1 .. i - 1 :
      /\ q[j] = Write(HeaderOf(q[i].kind), q[i].n)
      /\ \A k \in j + 1 .. i - 1 : Thread(q[k].kind) # Thread(q[i].kind)

\* A frame stays open while other threads write, and is opened by its header.
LEMMA OpenAppend ==
  ASSUME NEW q \in Seq(Written), NEW w \in Written, NEW d, NEW n,
         \/ Open(q, d, n) /\ Thread(w.kind) # Thread(d)
         \/ w = Write(HeaderOf(d), n)
  PROVE  Open(Append(q, w), d, n)
<1> DEFINE p == Append(q, w)
<1>1. /\ p \in Seq(Written) /\ Len(q) \in Nat /\ Len(p) = Len(q) + 1
      /\ DOMAIN q = 1 .. Len(q) /\ DOMAIN p = 1 .. Len(q) + 1
      /\ \A i \in 1 .. Len(q) : p[i] = q[i]
      /\ p[Len(q) + 1] = w
  BY AppendFacts
<1> HIDE DEF p
<1>2. CASE w = Write(HeaderOf(d), n)
  <2>1. Len(q) + 1 \in DOMAIN p /\ p[Len(q) + 1] = Write(HeaderOf(d), n)
        /\ Len(q) + 1 + 1 .. Len(p) = {}
    BY <1>1, <1>2
  <2>2. Open(p, d, n)
    BY <2>1 DEF Open
  <2> QED
    BY <2>2 DEF p
<1>3. CASE Open(q, d, n) /\ Thread(w.kind) # Thread(d)
  <2>1. PICK j \in DOMAIN q : /\ q[j] = Write(HeaderOf(d), n)
                              /\ \A k \in j + 1 .. Len(q) : Thread(q[k].kind) # Thread(d)
    BY <1>3 DEF Open
  <2>2. j \in DOMAIN p /\ p[j] = Write(HeaderOf(d), n)
    BY <1>1, <2>1
  <2>3. ASSUME NEW k \in j + 1 .. Len(p) PROVE Thread(p[k].kind) # Thread(d)
    <3>1. CASE k = Len(q) + 1
      BY <1>1, <1>3, <3>1
    <3>2. CASE k # Len(q) + 1
      <4>1. k \in j + 1 .. Len(q) /\ p[k] = q[k]
        BY <1>1, <2>1, <3>2
      <4> QED
        BY <2>1, <4>1
    <3> QED
      BY <3>1, <3>2
  <2>4. Open(p, d, n)
    BY <2>2, <2>3 DEF Open
  <2> QED
    BY <2>4 DEF p
<1> QED
  BY <1>2, <1>3

\* The payload of an open frame is in order.
LEMMA InOrderAppend ==
  ASSUME NEW q \in Seq(Written), NEW w \in Written, InOrder(q),
         w.kind \in Payloads => Open(q, w.kind, w.n)
  PROVE  InOrder(Append(q, w))
<1> DEFINE p == Append(q, w)
<1>1. /\ p \in Seq(Written) /\ Len(q) \in Nat /\ Len(p) = Len(q) + 1
      /\ DOMAIN q = 1 .. Len(q) /\ DOMAIN p = 1 .. Len(q) + 1
      /\ \A i \in 1 .. Len(q) : p[i] = q[i]
      /\ p[Len(q) + 1] = w
  BY AppendFacts
<1> HIDE DEF p
<1>2. ASSUME NEW i \in DOMAIN p, p[i].kind \in Payloads
      PROVE  \E j \in 1 .. i - 1 :
               /\ p[j] = Write(HeaderOf(p[i].kind), p[i].n)
               /\ \A k \in j + 1 .. i - 1 : Thread(p[k].kind) # Thread(p[i].kind)
  <2>1. CASE i = Len(q) + 1
    <3>1. PICK j \in DOMAIN q : /\ q[j] = Write(HeaderOf(w.kind), w.n)
                                /\ \A k \in j + 1 .. Len(q) : Thread(q[k].kind) # Thread(w.kind)
      BY <1>1, <1>2, <2>1 DEF Open
    <3>2. j \in 1 .. i - 1 /\ p[j] = q[j] /\ p[i] = w /\ i - 1 = Len(q)
      BY <1>1, <2>1, <3>1
    <3>3. \A k \in j + 1 .. Len(q) : p[k] = q[k]
      BY <1>1, <3>1
    <3> QED
      BY <3>1, <3>2, <3>3
  <2>2. CASE i # Len(q) + 1
    <3>1. i \in DOMAIN q /\ p[i] = q[i]
      BY <1>1, <2>2
    <3>2. PICK j \in 1 .. i - 1 :
            /\ q[j] = Write(HeaderOf(q[i].kind), q[i].n)
            /\ \A k \in j + 1 .. i - 1 : Thread(q[k].kind) # Thread(q[i].kind)
      BY <1>2, <3>1 DEF InOrder
    <3>3. p[j] = q[j] /\ \A k \in j + 1 .. i - 1 : p[k] = q[k]
      BY <1>1, <3>1, <3>2
    <3> QED
      BY <3>1, <3>2, <3>3
  <2> QED
    BY <2>1, <2>2
<1>3. InOrder(p)
  BY <1>2 DEF InOrder
<1> QED
  BY <1>3 DEF p

\* One write, of a payload only when it is due: the frames of the other threads
\* stay open, and the header of a frame opens it.
LEMMA OrderedPut ==
  ASSUME IInv, NEW k \in WriteKinds, NEW n \in Nat, Put(k, n),
         k \in Payloads => Open(wire, k, n)
  PROVE  /\ HalvesInOrder'
         /\ \A d, m : \/ Open(wire, d, m) /\ Thread(k) # Thread(d)
                      \/ k = HeaderOf(d) /\ m = n
                      => Open(wire', d, m)
<1>1. PICK w \in Written : w = Write(k, n) /\ w.kind = k /\ w.n = n
  <2>1. [kind |-> k, n |-> n] \in Written
    BY DEF Written
  <2> QED
    BY <2>1 DEF Write
<1>2. wire \in Seq(Written) /\ wire' = Append(wire, w)
  BY <1>1 DEF IInv, TypeOK, Written, Put
<1>3. InOrder(wire)
  BY DEF IInv, HalvesInOrder, InOrder
<1>4. InOrder(wire')
  BY <1>1, <1>2, <1>3, InOrderAppend
<1>5. HalvesInOrder'
  BY <1>4 DEF HalvesInOrder, InOrder
<1>6. ASSUME NEW d, NEW m, Open(wire, d, m) /\ Thread(k) # Thread(d)
      PROVE  Open(wire', d, m)
  BY <1>1, <1>2, <1>6, OpenAppend
<1>7. ASSUME NEW d, k = HeaderOf(d) PROVE Open(wire', d, n)
  BY <1>1, <1>2, <1>7, OpenAppend
<1> QED
  BY <1>5, <1>6, <1>7

\* Who writes which payload.
LEMMA ThreadFacts ==
  /\ Thread("data") = "poll" /\ HeaderOf("data") = "head"
  /\ Thread("pongdata") = "handler" /\ HeaderOf("pongdata") = "ponghead"
  /\ Thread("cmddata") = "handler" /\ HeaderOf("cmddata") = "cmdhead"
  /\ Thread("syndata") = "listener" /\ HeaderOf("syndata") = "synhead"
  /\ \A k \in HandlerKinds : Thread(k) = "handler" /\ k \in WriteKinds
  /\ \A k \in PollKinds : Thread(k) = "poll" /\ k \in WriteKinds
  /\ \A k \in PingKinds : Thread(k) = "listener" /\ k \in WriteKinds
<1>1. /\ \A k \in HandlerKinds : Thread(k) = "handler" /\ k \in WriteKinds
      /\ \A k \in PollKinds : Thread(k) = "poll" /\ k \in WriteKinds
      /\ \A k \in PingKinds : Thread(k) = "listener" /\ k \in WriteKinds
  BY DEF HandlerKinds, PollKinds, PingKinds, Thread, WriteKinds
<1> QED
  BY <1>1 DEF Thread, HeaderOf

\* Payloads come after their headers.
LEMMA OpenedStep ==
  ASSUME IInv, Step
  PROVE  HalvesInOrder' /\ Opened'
<1>0. HalvesInOrder /\ Opened
  BY DEF IInv
<1>1. CASE Quiet
  <2>1. HalvesInOrder'
    BY <1>0, <1>1 DEF Quiet, HalvesInOrder
  <2>2. Opened'
    BY <1>0, <1>1 DEF Quiet, Opened
  <2> QED
    BY <2>1, <2>2
<1>2. ASSUME NEW k \in HandlerKinds, HandlerPut(k) PROVE HalvesInOrder' /\ Opened'
  <2>1. k \in WriteKinds /\ Thread(k) = "handler" /\ line.n \in Nat
    BY <1>2, ThreadFacts, ModeFacts
  <2>2. k \in Payloads => Open(wire, k, line.n)
    BY <1>0, <1>2 DEF Payloads, HandlerKinds, HandlerPut, Opened
  <2>3. /\ HalvesInOrder'
        /\ \A d, m : \/ Open(wire, d, m) /\ Thread(k) # Thread(d)
                     \/ k = HeaderOf(d) /\ m = line.n
                     => Open(wire', d, m)
    BY <1>2, <2>1, <2>2, OrderedPut DEF HandlerPut
  <2>4. Opened'
    BY <1>0, <1>2, <2>1, <2>3, ThreadFacts DEF Opened, HandlerPut
  <2> QED
    BY <2>3, <2>4
<1>3. ASSUME NEW k \in PollKinds, PollPut(k) PROVE HalvesInOrder' /\ Opened'
  <2>1. k \in WriteKinds /\ Thread(k) = "poll" /\ poll.n \in Nat
    BY <1>3, ThreadFacts, ModeFacts
  <2>2. k \in Payloads => Open(wire, k, poll.n)
    BY <1>0, <1>3 DEF Payloads, PollKinds, PollPut, Opened
  <2>3. /\ HalvesInOrder'
        /\ \A d, m : \/ Open(wire, d, m) /\ Thread(k) # Thread(d)
                     \/ k = HeaderOf(d) /\ m = poll.n
                     => Open(wire', d, m)
    BY <1>3, <2>1, <2>2, OrderedPut DEF PollPut
  <2>4. Opened'
    BY <1>0, <1>3, <2>1, <2>3, ThreadFacts DEF Opened, PollPut
  <2> QED
    BY <2>3, <2>4
<1>4. ASSUME NEW k \in PingKinds, PingPut(k) PROVE HalvesInOrder' /\ Opened'
  <2>1. k \in WriteKinds /\ Thread(k) = "listener"
    BY <1>4, ThreadFacts
  <2>2. k \in Payloads => Open(wire, k, 0)
    BY <1>0, <1>4 DEF Payloads, PingKinds, PingPut, Opened
  <2>3. /\ HalvesInOrder'
        /\ \A d, m : \/ Open(wire, d, m) /\ Thread(k) # Thread(d)
                     \/ k = HeaderOf(d) /\ m = 0
                     => Open(wire', d, m)
    BY <1>4, <2>1, <2>2, OrderedPut DEF PingPut
  <2>4. Opened'
    BY <1>0, <1>4, <2>1, <2>3, ThreadFacts DEF Opened, PingPut
  <2> QED
    BY <2>3, <2>4
<1> QED
  BY <1>1, <1>2, <1>3, <1>4, WhoWrites

\* What a write makes late: itself, if it is a SYN byte after the 101.
LEMMA LateAppend ==
  ASSUME NEW q \in Seq(Written), NEW w \in Written, NEW i \in DOMAIN Append(q, w),
         Late(Append(q, w), i)
  PROVE  \/ i \in DOMAIN q /\ Late(q, i)
         \/ i = Len(q) + 1 /\ w.kind = "syn" /\ Has101(q)
<1> DEFINE p == Append(q, w)
<1>1. /\ Len(q) \in Nat /\ DOMAIN q = 1 .. Len(q) /\ DOMAIN p = 1 .. Len(q) + 1
      /\ \A j \in 1 .. Len(q) : p[j] = q[j]
      /\ p[Len(q) + 1] = w
  BY AppendFacts
<1>2. p[i].kind = "syn" /\ \E j \in 1 .. i - 1 : p[j].kind = "101"
  BY DEF Late
<1> HIDE DEF p
<1>3. PICK j \in 1 .. i - 1 : p[j].kind = "101"
  BY <1>2
<1>4. i \in 1 .. Len(q) + 1 /\ j \in 1 .. Len(q) /\ q[j].kind = "101"
  BY <1>1, <1>3 DEF p
<1>5. CASE i = Len(q) + 1
  BY <1>1, <1>2, <1>4, <1>5 DEF Has101
<1>6. CASE i # Len(q) + 1
  <2>1. i \in DOMAIN q /\ p[i] = q[i]
    BY <1>1, <1>4, <1>6
  <2> QED
    BY <1>2, <1>3, <1>4, <2>1 DEF Late
<1> QED
  BY <1>5, <1>6

\* half_ping() tests _do_frame_io, and nobody takes that back.
LEMMA PingMoves ==
  ASSUME IInv, Step
  PROVE  /\ frameIO => frameIO'
         /\ ping' = "mode" => ping = "mode" \/ pc \in {"read", "pong", "pongdata"}
         /\ ping' = "syn" => ping = "syn" \/ (ping = "mode" /\ ~frameIO)
         /\ ping' = "raw" => ping \in {"raw", "syn"}
<1>1. frameIO => frameIO'
  <2>1. Handler => StartFrames \/ frameIO' = frameIO
    <3>1. ReadLine \/ ReadEOF \/ FirstLine \/ HeaderLine \/ EndOfHeader \/ OnConnection
            => frameIO' = frameIO
      BY DEF ReadLine, ReadEOF, FirstLine, HeaderLine, EndOfHeader, OnConnection, LineFrame
    <3>2. SendUpgrade \/ ReadBody \/ BodyEOF \/ ExecuteRequest \/ CommandData \/ EvalLine
            \/ EvalBody => frameIO' = frameIO
      BY DEF SendUpgrade, ReadBody, BodyEOF, ExecuteRequest, CommandData, EvalLine, EvalBody
    <3>3. ReadFrame \/ PongHeader \/ PongData \/ Delete => frameIO' = frameIO
      BY DEF ReadFrame, PongHeader, PongData, Delete, FrameFrame
    <3> QED
      BY <3>1, <3>2, <3>3 DEF Handler, HandlerSteps
  <2> QED
    BY <2>1, WhoChanges DEF StartFrames, handlervars
<1>2. CASE UNCHANGED pingvars
  BY <1>1, <1>2 DEF pingvars
<1>3. CASE Listener
  BY <1>1, <1>3 DEF Listener, HalfPingSteps, HalfPing, HalfPingMode, HalfPingPong, HalfPingSyn,
     HalfPingRaw, HalfPingSynHead, HalfPingSynData
<1> QED
  BY <1>2, <1>3, WhoChanges

\* At most one SYN byte is written after the 101.
LEMMA SynStep ==
  ASSUME IInv, Step
  PROVE  OneLate' /\ SynDone'
<1>0. /\ OneLate /\ SynDone /\ wire \in Seq(Written)
      /\ Len(wire) \in Nat /\ DOMAIN wire = 1 .. Len(wire)
  BY DEF IInv, TypeOK, Written
<1>1. ASSUME \E i \in DOMAIN wire : Late(wire, i)
      PROVE  ping' \notin {"syn", "raw"} /\ (ping' = "mode" => frameIO')
  <2>1. ping \notin {"syn", "raw"} /\ (ping = "mode" => frameIO)
    BY <1>0, <1>1 DEF SynDone
  <2>2. Announced
    <3>1. PICK i \in DOMAIN wire : Late(wire, i)
      BY <1>1
    <3>2. PICK j \in 1 .. i - 1 : wire[j].kind = "101"
      BY <3>1 DEF Late
    <3>3. j \in DOMAIN wire
      BY <1>0, <3>1, <3>2
    <3> QED
      BY <3>2, <3>3 DEF Announced
  <2>3. pc \in {"read", "pong", "pongdata"} => frameIO
    BY <2>2, ModeFacts
  <2> QED
    BY <2>1, <2>3, PingMoves
<1>2. CASE UNCHANGED wire
  <2>1. OneLate'
    BY <1>0, <1>2 DEF OneLate
  <2>2. SynDone'
    BY <1>1, <1>2 DEF SynDone
  <2> QED
    BY <2>1, <2>2
<1>3. ASSUME NEW k \in WriteKinds, NEW n \in Nat, Put(k, n),
             k = "syn" => ping = "raw" /\ ping' = "idle"
      PROVE  OneLate' /\ SynDone'
  <2>1. PICK w \in Written : w = Write(k, n) /\ w.kind = k
    <3>1. [kind |-> k, n |-> n] \in Written
      BY DEF Written
    <3> QED
      BY <3>1 DEF Write
  <2>2. wire' = Append(wire, w)
    BY <1>3, <2>1 DEF Put
  <2>3. \A i \in DOMAIN wire' : Late(wire', i) =>
          \/ i \in DOMAIN wire /\ Late(wire, i)
          \/ i = Len(wire) + 1 /\ k = "syn"
    BY <1>0, <2>1, <2>2, LateAppend
  <2>4. CASE k = "syn"
    <3>1. ~\E i \in DOMAIN wire : Late(wire, i)
      BY <1>0, <1>3, <2>4 DEF SynDone
    <3>2. OneLate'
      BY <2>3, <3>1 DEF OneLate
    <3>3. SynDone'
      BY <1>3, <2>4 DEF SynDone
    <3> QED
      BY <3>2, <3>3
  <2>5. CASE k # "syn"
    <3>1. OneLate'
      BY <1>0, <2>3, <2>5 DEF OneLate
    <3>2. SynDone'
      BY <1>1, <2>3, <2>5 DEF SynDone
    <3> QED
      BY <3>1, <3>2
  <2> QED
    BY <2>4, <2>5
<1>4. ASSUME NEW k \in HandlerKinds, HandlerPut(k) PROVE OneLate' /\ SynDone'
  <2>1. k \in WriteKinds /\ k # "syn" /\ line.n \in Nat
    BY <1>4, ThreadFacts, ModeFacts DEF HandlerKinds
  <2> QED
    BY <1>3, <1>4, <2>1 DEF HandlerPut
<1>5. ASSUME NEW k \in PollKinds, PollPut(k) PROVE OneLate' /\ SynDone'
  <2>1. k \in WriteKinds /\ k # "syn" /\ poll.n \in Nat
    BY <1>5, ThreadFacts, ModeFacts DEF PollKinds
  <2> QED
    BY <1>3, <1>5, <2>1 DEF PollPut
<1>6. ASSUME NEW k \in PingKinds, PingPut(k) PROVE OneLate' /\ SynDone'
  <2>1. k \in WriteKinds
    BY <1>6, ThreadFacts
  <2> QED
    BY <1>3, <1>6, <2>1 DEF PingPut
<1> QED
  BY <1>2, <1>4, <1>5, <1>6, WhoWrites DEF Quiet

-----------------------------------------------------------------------------
(* The invariant. *)

\* The invariant holds when the connection has been accepted.
LEMMA InitInv ==
  ASSUME Init
  PROVE  IInv
<1>1. TypeOK
  <2>1. NoLine \in [kind: LineKinds, n: Nat] /\ Idle \in [at: {"idle", "head", "data"}, n: Nat]
    BY DEF NoLine, Line, LineKinds, Idle
  <2>2. /\ sent \in Seq(Requests) /\ Len(sent) <= MaxRequests
        /\ frames \in Seq(Frames) /\ Len(frames) <= MaxFrames
        /\ net \in Seq([kind: LineKinds, n: Nat]) /\ evalq \in Seq(Nat)
    BY WebSessionAssumption DEF Init
  <2>3. /\ delivered \in Seq(Seq([kind: LineKinds, n: Nat]))
        /\ wire \in Seq([kind: WriteKinds, n: Nat])
    BY DEF Init
  <2>4. shell \in 0 .. MaxRequests /\ pings \in 0 .. MaxHalfPings /\ length \in Nat
    BY WebSessionAssumption DEF Init
  <2> QED
    BY <2>1, <2>2, <2>3, <2>4, Zenon DEF Init, TypeOK, HandlerPCs, PingPCs
<1>2. /\ sent = <<>> /\ frames = <<>> /\ net = <<>> /\ delivered = <<>> /\ wire = <<>>
      /\ line.kind = "none"
  BY DEF Init, NoLine, Line
<1>3. UpgradeLast
  BY <1>2 DEF UpgradeLast
<1>4. Stream
  BY <1>2 DEF Stream, Owned, HeaderKinds, FrameKinds
<1>5. Cursor
  <2>1. Len(sent) = Len(delivered) /\ Len(delivered) <= Len(sent)
    BY <1>2
  <2> QED
    BY <1>2, <2>1 DEF Init, Cursor, HttpCursor, Fresh, LengthUnread
<1>6. DeliveredExact /\ Framed
  BY <1>2 DEF DeliveredExact, Framed
<1>7. Shells
  BY <1>2 DEF Init, Shells
<1>8. Writers
  BY <1>2 DEF Init, Writers, Announced
<1>9. Halves
  <2>1. \A k : {i \in DOMAIN wire : wire[i].kind = k} = {}
    BY <1>2
  <2>2. \A k : Count(k) = 0
    BY <2>1, FS_EmptySet DEF Count
  <2> QED
    BY <2>2 DEF Init, Halves, Idle
<1>10. HalvesInOrder /\ OneLate /\ SynDone
  BY <1>2 DEF HalvesInOrder, OneLate, SynDone
<1>11. Opened
  BY DEF Init, Opened, Idle
<1> QED
  BY <1>1, <1>3, <1>4, <1>5, <1>6, <1>7, <1>8, <1>9, <1>10, <1>11 DEF IInv

\* Every step of the client, the handler, the shell and half_ping() keeps it.
LEMMA NextInv ==
  ASSUME IInv, [Next]_vars
  PROVE  IInv'
<1>1. CASE Step
  <2>1. TypeOK'
    <3>1. HandlerTypes' /\ HandlerFlags'
      BY <1>1, HandlerTypeStep, HandlerFlagStep
    <3>2. /\ sent' \in Seq(Requests) /\ Len(sent') <= MaxRequests
          /\ frames' \in Seq(Frames) /\ Len(frames') <= MaxFrames
          /\ net' \in Seq([kind: LineKinds, n: Nat]) /\ closed' \in BOOLEAN
      BY <1>1, StreamTypeStep, Zenon DEF Element
    <3>3. delivered' \in Seq(Seq([kind: LineKinds, n: Nat]))
      BY <1>1, DeliveredTypeStep, Zenon DEF Element
    <3>4. wire' \in Seq([kind: WriteKinds, n: Nat])
      BY <1>1, WireStep, Zenon DEF Written
    <3> QED
      BY <1>1, <3>1, <3>2, <3>3, <3>4, RequestTypeStep, ShellTypeStep, Zenon
      DEF TypeOK, HandlerTypes, HandlerFlags, Element
  <2>2. Shells' /\ Cursor' /\ DeliveredExact'
    BY <1>1, ShellsStep, CursorStep, DeliveredStep
  <2>3. Framed' /\ Writers' /\ Halves'
    BY <1>1, WireStep DEF WritersOK
  <2>4. HalvesInOrder' /\ Opened' /\ OneLate' /\ SynDone'
    BY <1>1, OpenedStep, SynStep
  <2> QED
    BY <1>1, <2>1, <2>2, <2>3, <2>4, StreamStep, UpgradeLastStep DEF IInv
<1>2. CASE UNCHANGED vars
  <2>1. UNCHANGED streamvars /\ UNCHANGED handlervars
    BY <1>2 DEF vars, envars, parse, streamvars, handlervars
  <2>2. UNCHANGED <<request, shell, evalq, poll, ping, pings, delivered, wire, crashed>>
    BY <1>2 DEF vars, shellvars, pingvars
  <2>3. TypeOK'
    <3>1. TypeOK
      BY DEF IInv
    <3>2. HandlerTypes' /\ HandlerFlags'
      BY <2>1, <3>1 DEF TypeOK, HandlerTypes, HandlerFlags, Element, handlervars
    <3>3. /\ sent' \in Seq(Requests) /\ Len(sent') <= MaxRequests
          /\ frames' \in Seq(Frames) /\ Len(frames') <= MaxFrames
          /\ net' \in Seq([kind: LineKinds, n: Nat]) /\ closed' \in BOOLEAN
      BY <2>1, <3>1 DEF TypeOK, streamvars
    <3>4. /\ request' \in {"none", "shell", "command"} /\ shell' \in 0 .. MaxRequests
          /\ evalq' \in Seq(Nat) /\ poll' \in [at: {"idle", "head", "data"}, n: Nat]
          /\ ping' \in PingPCs
          /\ pings' \in 0 .. MaxHalfPings
          /\ delivered' \in Seq(Seq([kind: LineKinds, n: Nat]))
          /\ wire' \in Seq([kind: WriteKinds, n: Nat])
      BY <2>2, <3>1 DEF TypeOK
    <3>5. crashed' \in BOOLEAN
      BY <2>2, <3>1, Zenon DEF TypeOK
    <3> QED
      BY <3>2, <3>3, <3>4, <3>5, Zenon DEF TypeOK, HandlerTypes, HandlerFlags, Element
  <2>4. UpgradeLast' /\ Stream'
    BY <2>1 DEF IInv, UpgradeLast, Stream, Owned, Linked, After, BodyFollows, streamvars,
       handlervars
  <2>5. Cursor'
    BY <2>1, <2>2, CursorKept DEF IInv, streamvars, handlervars
  <2>6. DeliveredExact' /\ Framed'
    <3>1. \A k, l : Expected(k, l)' <=> Expected(k, l)
      BY <2>1 DEF Expected, Body, Text, TextsTo, streamvars
    <3>2. DeliveredExact'
      BY <2>2, <3>1 DEF IInv, DeliveredExact
    <3>3. Framed'
      BY <2>2 DEF IInv, Framed, Upgraded
    <3> QED
      BY <3>2, <3>3
  <2>7. Shells' /\ Writers'
    BY <2>1, <2>2 DEF IInv, Shells, Writers, Announced, streamvars, handlervars
  <2>8. Halves'
    BY <2>1, <2>2 DEF IInv, Halves, Count, handlervars
  <2>9. HalvesInOrder' /\ Opened'
    BY <2>1, <2>2 DEF IInv, HalvesInOrder, Opened, handlervars
  <2>10. OneLate' /\ SynDone'
    BY <2>1, <2>2 DEF IInv, OneLate, SynDone, handlervars
  <2> QED
    BY <2>3, <2>4, <2>5, <2>6, <2>7, <2>8, <2>9, <2>10 DEF IInv
<1> QED
  BY <1>1, <1>2 DEF Next, Step

\* The inductive invariant holds in every reachable state.
LEMMA Invariant == Spec => []IInv
  BY InitInv, NextInv, PTL DEF Spec

\* What the handler, the shell's poll thread and half_ping() write to one
\* socket: no frame before the 101, and after it frames and at most one stray
\* SYN byte, however often half_ping() runs.  The payload of a frame follows
\* its header with nothing of the same thread between the two, though Send()
\* lets another thread's write come there, and no frame of the poll thread or
\* of half_ping() is left without its payload when the socket is deleted
\* (WebSocket.cc:158-192, SocketManager.cc:235-257).
THEOREM WireIsWellFormed == Spec => []WireWellFormed
<1>1. IInv => WireWellFormed
  <2> SUFFICES ASSUME IInv PROVE WireWellFormed
    OBVIOUS
  <2>1. WholeAtClose
    <3>1. \A c \in {"head", "data", "synhead", "syndata"} : Count(c) \in Nat
      BY CountTypes DEF WriteKinds
    <3>2. pc = "gone" => poll.at # "data" /\ ping # "syndata"
      BY DEF IInv, Halves, Idle
    <3> QED
      BY <3>1, <3>2 DEF IInv, Halves, WholeAtClose
  <2>2. FramesAfterUpgrade
    BY DEF IInv, Framed, OneLate, Late, Upgraded, FramesAfterUpgrade
  <2> QED
    BY <2>1, <2>2 DEF IInv, WireWellFormed
<1> QED
  BY <1>1, Invariant, PTL

\* OnLine() is called with the bodies of the requests and then with the text
\* frames that the client sent, each once, whole and in order, for any number
\* of requests on a kept-alive connection and any lengths of their bodies
\* (ServerSocket.cc:369-372, get_http_body(), get_websocket_line()).
THEOREM OnLineGetsWhatWasSent == Spec => []DeliveredExact
<1>1. IInv => DeliveredExact
  BY DEF IInv
<1> QED
  BY <1>1, Invariant, PTL
=============================================================================
