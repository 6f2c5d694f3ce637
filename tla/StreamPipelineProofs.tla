------------------------ MODULE StreamPipelineProofs ------------------------
(***************************************************************************)
(* Proofs about StreamPipeline, for any set of calls and stages and any    *)
(* capacity of the channels.                                               *)
(*                                                                         *)
(* The packets under way to a stage are seen as one lane: what its Run     *)
(* goroutine holds, its recvCh, what receivePackets holds, the stream.     *)
(* Every step of a goroutine moves the packets of a call along the lane,   *)
(* or moves packets of others; the demux entry and the context decide      *)
(* whether the far end of the lane still feeds the caller.                 *)
(***************************************************************************)
EXTENDS StreamPipeline, TLAPS

Steps   == {"load", "accept"}
States  == {"idle", "sending", "waiting", "refused", "done", "failed"}
Readers == {Idle, Exited} \cup [at : {"dispatch"}, packet : Packet]
Workers == {Idle, Exited} \cup [at : Steps, packet : Packet]

TypeInv ==
  /\ pc \in [Calls -> States]
  /\ cancelled \in [Calls -> BOOLEAN]
  /\ got \in [Calls -> Seq(Packet)]
  /\ ch \in [Calls -> Seq(Packet)]
  /\ demux \subseteq Calls
  /\ sendCh \in Seq(Calls)
  /\ asked \subseteq Calls
  /\ answered \in [Calls -> Nat]
  /\ wire \in Seq(Packet)
  /\ reader \in Readers
  /\ recvCh \in [Stages -> Seq(Packet)]
  /\ worker \in [Stages -> Workers]
  /\ pipeCtx \in BOOLEAN

\* An answer carries the stage of its call, and lies only in that stage's queue.
Addressed(p) == p.id \in Calls => p.dest = StageOf[p.id]

RouteInv ==
  /\ \A k \in 1 .. Len(wire) : Addressed(wire[k])
  /\ Addressed(Slot(reader))
  /\ \A s \in Stages : \A k \in 1 .. Len(recvCh[s]) : Addressed(recvCh[s][k]) /\ recvCh[s][k].dest = s
  /\ \A s \in Stages : worker[s].at \in Steps => Addressed(worker[s].packet) /\ worker[s].packet.dest = s

\* A request is queued once, after the call has been admitted, and answered after that.
AskInv ==
  /\ \A c \in Calls : pc[c] \in {"idle", "sending", "refused"} => c \notin asked
  /\ \A k \in 1 .. Len(sendCh) : pc[sendCh[k]] \in {"waiting", "failed"} /\ sendCh[k] \notin asked
  /\ \A k, m \in 1 .. Len(sendCh) : sendCh[k] = sendCh[m] => k = m
  /\ \A c \in Calls : c \notin asked => answered[c] = 0

\* A call whose context and pipeline live has its Demultiplexer in the map.
DemuxInv ==
  /\ \A c \in Calls : pc[c] = "idle" => c \notin demux
  /\ \A c \in Calls : pc[c] \in {"sending", "waiting"} /\ ~cancelled[c] /\ ~pipeCtx => c \in demux

\* How many packets have come through to call c.
Through(c) == Len(got[c]) + Len(ch[c])

\* What has come through to the caller is numbered from one.
Numbered(c) ==
  /\ \A k \in 1 .. Len(got[c]) : got[c][k].n = k /\ got[c][k].id = c
  /\ \A k \in 1 .. Len(ch[c]) : ch[c][k].n = Len(got[c]) + k /\ ch[c][k].id = c
  /\ Through(c) <= answered[c]

\* A packet a stage is about to hand over is the next one of its call.
NextOne(s) ==
  worker[s].at = "accept" =>
    LET p == worker[s].packet
    IN  p.id \in Calls /\ StageOf[p.id] = s /\ p.n = Through(p.id) + 1 /\ p.n <= answered[p.id]

ThroughInv == (\A c \in Calls : Numbered(c)) /\ (\A s \in Stages : NextOne(s))

\* The packets of c in q are those numbered t+1 .. a, in order.
Exactly(q, c, t, a) ==
  /\ \A i \in 1 .. Len(q) : q[i].id = c => q[i].n \in (t + 1) .. a
  /\ \A m \in (t + 1) .. a : \E i \in 1 .. Len(q) : q[i].id = c /\ q[i].n = m
  /\ \A i, j \in 1 .. Len(q) : q[i].id = c /\ q[j].id = c /\ i < j => q[i].n < q[j].n

\* The lane feeds call c, or will once c registers.
Fed(c) == pc[c] = "idle" \/ (c \in demux /\ ~cancelled[c])

LaneInv == \A c \in Calls : Fed(c) => Exactly(Lane(StageOf[c]), c, Through(c), answered[c])

IInv == TypeInv /\ RouteInv /\ AskInv /\ DemuxInv /\ ThroughInv /\ LaneInv

-----------------------------------------------------------------------------
(***************************************************************************)
(* Packets that move along a lane.                                         *)
(***************************************************************************)

LEMMA Concatenated ==
  ASSUME NEW g \in Seq(Packet), NEW h \in Seq(Packet)
  PROVE  /\ g \o h \in Seq(Packet) /\ Len(g \o h) = Len(g) + Len(h)
         /\ \A i \in 1 .. Len(g) : (g \o h)[i] = g[i]
         /\ \A i \in 1 .. Len(h) : (g \o h)[Len(g) + i] = h[i]
OBVIOUS

LEMMA LeqTrans == \A m, k, l \in Nat : m <= k /\ k <= l => m <= l
OBVIOUS

LEMMA RangeNat == \A n \in Nat : \A i \in 1 .. n : i \in Nat
OBVIOUS

LEMMA EmptyRange == \A k \in 1 .. Len(<<>>) : FALSE
OBVIOUS

\* A lane: what the stage holds, its queue, what the reader holds, the stream.
Chain(a, r, b, w) == <<a>> \o r \o <<b>> \o w

ChainIs(q, a, r, b, w) ==
  /\ q \in Seq(Packet) /\ Len(q) = Len(r) + Len(w) + 2
  /\ q[1] = a /\ q[Len(r) + 2] = b
  /\ \A i \in 2 .. (Len(r) + 1) : q[i] = r[i - 1]
  /\ \A i \in (Len(r) + 3) .. (Len(r) + Len(w) + 2) : q[i] = w[i - Len(r) - 2]

LEMMA ChainAt ==
  ASSUME NEW a \in Packet, NEW r \in Seq(Packet), NEW b \in Packet, NEW w \in Seq(Packet)
  PROVE  ChainIs(Chain(a, r, b, w), a, r, b, w)
<1> DEFINE q1 == <<a>> \o r
<1> DEFINE q2 == q1 \o <<b>>
<1> DEFINE q == q2 \o w
<1>1. /\ q1 \in Seq(Packet) /\ Len(q1) = Len(r) + 1 /\ q1[1] = a
      /\ \A i \in 2 .. (Len(r) + 1) : q1[i] = r[i - 1]
  OBVIOUS
<1> HIDE DEF q1
<1>2. /\ q2 \in Seq(Packet) /\ Len(q2) = Len(r) + 2 /\ q2[Len(r) + 2] = b
      /\ \A i \in 1 .. (Len(r) + 1) : q2[i] = q1[i]
  BY <1>1
<1> HIDE DEF q2
<1>3. /\ q \in Seq(Packet) /\ Len(q) = Len(r) + Len(w) + 2
      /\ \A i \in 1 .. (Len(r) + 2) : q[i] = q2[i]
      /\ \A i \in (Len(r) + 3) .. (Len(r) + Len(w) + 2) : q[i] = w[i - Len(r) - 2]
  <2>1. /\ q \in Seq(Packet) /\ Len(q) = Len(q2) + Len(w)
        /\ \A i \in 1 .. Len(q2) : q[i] = q2[i]
        /\ \A i \in (Len(q2) + 1) .. (Len(q2) + Len(w)) : q[i] = w[i - Len(q2)]
    <3>1. /\ q \in Seq(Packet) /\ Len(q) = Len(q2) + Len(w)
          /\ \A i \in 1 .. Len(q2) : q[i] = q2[i]
          /\ \A i \in 1 .. Len(w) : q[Len(q2) + i] = w[i]
      BY <1>2, Concatenated, Zenon
    <3> HIDE DEF q
    <3>2. Len(q2) \in Nat /\ Len(w) \in Nat
      BY <1>2
    <3>3. \A i \in (Len(q2) + 1) .. (Len(q2) + Len(w)) : i - Len(q2) \in 1 .. Len(w) /\ Len(q2) + (i - Len(q2)) = i
      BY <3>2
    <3>4. ASSUME NEW i \in (Len(q2) + 1) .. (Len(q2) + Len(w)) PROVE q[i] = w[i - Len(q2)]
      <4>1. q[Len(q2) + (i - Len(q2))] = w[i - Len(q2)] /\ Len(q2) + (i - Len(q2)) = i
        BY <3>1, <3>3, Zenon
      <4> QED
        BY <4>1, Zenon
    <3> QED
      BY <3>1, <3>4, Zenon
  <2> HIDE DEF q
  <2>2. Len(r) \in Nat /\ Len(w) \in Nat /\ Len(q2) = Len(r) + 2
    BY <1>2
  <2>3. \A i \in (Len(r) + 3) .. (Len(r) + Len(w) + 2) :
          i \in (Len(q2) + 1) .. (Len(q2) + Len(w)) /\ i - Len(q2) = i - Len(r) - 2
    BY <2>2
  <2> QED
    BY <2>1, <2>2, <2>3
<1>4. q = Chain(a, r, b, w)
  BY DEF q, q2, q1, Chain
<1> HIDE DEF q
<1>5. q[1] = a /\ q[Len(r) + 2] = b /\ \A i \in 2 .. (Len(r) + 1) : q[i] = r[i - 1]
  <2>1. Len(r) \in Nat
    OBVIOUS
  <2>2. q[1] = q2[1] /\ q2[1] = q1[1] /\ q[Len(r) + 2] = q2[Len(r) + 2]
    BY <1>2, <1>3, <2>1
  <2>3. \A i \in 2 .. (Len(r) + 1) : q[i] = q2[i] /\ q2[i] = q1[i]
    BY <1>2, <1>3, <2>1
  <2> QED
    BY <1>1, <1>2, <2>2, <2>3
<1> QED
  BY <1>3, <1>4, <1>5 DEF ChainIs

\* Packets of others are put in, taken out or exchanged.
LEMMA ExactSame ==
  ASSUME NEW q \in Seq(Packet), NEW r \in Seq(Packet), NEW c, NEW t \in Nat, NEW a \in Nat,
         Exactly(q, c, t, a), Len(r) = Len(q),
         \A i \in 1 .. Len(q) : r[i] = q[i] \/ (q[i].id # c /\ r[i].id # c)
  PROVE  Exactly(r, c, t, a)
BY Zenon DEF Exactly

LEMMA ExactLess ==
  ASSUME NEW q \in Seq(Packet), NEW r \in Seq(Packet), NEW c, NEW t \in Nat, NEW a \in Nat,
         Exactly(q, c, t, a), NEW k \in 1 .. Len(q), q[k].id # c, Len(r) = Len(q) - 1,
         \A i \in 1 .. Len(r) : r[i] = IF i < k THEN q[i] ELSE q[i + 1]
  PROVE  Exactly(r, c, t, a)
<1>1. Len(q) \in Nat /\ Len(r) \in Nat
  OBVIOUS
<1>2. \A i \in 1 .. Len(r) : r[i].id = c => r[i].n \in (t + 1) .. a
  <2>1. \A i \in 1 .. Len(r) : i \in 1 .. Len(q) /\ i + 1 \in 1 .. Len(q)
    BY <1>1
  <2>2. \A i \in 1 .. Len(q) : q[i].id = c => q[i].n \in (t + 1) .. a
    BY Zenon DEF Exactly
  <2>3. \A i \in 1 .. Len(r) : r[i] = q[i] \/ r[i] = q[i + 1]
    BY Zenon
  <2> QED
    BY <2>1, <2>2, <2>3, Zenon
<1>3. ASSUME NEW m \in (t + 1) .. a
      PROVE  \E i \in 1 .. Len(r) : r[i].id = c /\ r[i].n = m
  <2>1. PICK i \in 1 .. Len(q) : q[i].id = c /\ q[i].n = m
    BY <1>3 DEF Exactly
  <2>2. CASE i < k
    <3>1. i \in 1 .. Len(r) /\ r[i] = q[i]
      BY <1>1, <2>2
    <3> QED
      BY <2>1, <3>1
  <2>3. CASE i > k
    <3>1. i - 1 \in 1 .. Len(r) /\ r[i - 1] = q[i]
      BY <1>1, <2>3
    <3> QED
      BY <2>1, <3>1
  <2>4. i # k
    BY <2>1, Zenon
  <2>5. \A x, y \in 1 .. Len(q) : x # y => x < y \/ x > y
    BY <1>1
  <2> QED
    BY <2>2, <2>3, <2>4, <2>5, Zenon
<1>4. ASSUME NEW i \in 1 .. Len(r), NEW j \in 1 .. Len(r), r[i].id = c, r[j].id = c, i < j
      PROVE  r[i].n < r[j].n
  <2>0. \A x \in 1 .. Len(r) : x \in 1 .. Len(q) /\ x + 1 \in 1 .. Len(q)
    BY <1>1
  <2>1. PICK x \in 1 .. Len(q) : r[i] = q[x] /\ x = IF i < k THEN i ELSE i + 1
    BY <2>0
  <2>2. PICK y \in 1 .. Len(q) : r[j] = q[y] /\ y = IF j < k THEN j ELSE j + 1
    BY <2>0, Zenon
  <2>3. x < y
    BY <1>4, <2>1, <2>2
  <2> QED
    BY <1>4, <2>1, <2>2, <2>3 DEF Exactly
<1> QED
  BY <1>2, <1>3, <1>4 DEF Exactly

LEMMA ExactMore ==
  ASSUME NEW q \in Seq(Packet), NEW r \in Seq(Packet), NEW c, NEW t \in Nat, NEW a \in Nat,
         Exactly(q, c, t, a), NEW k \in 1 .. Len(r), r[k].id # c, Len(r) = Len(q) + 1,
         \A i \in 1 .. Len(q) : q[i] = IF i < k THEN r[i] ELSE r[i + 1]
  PROVE  Exactly(r, c, t, a)
<1>1. Len(q) \in Nat /\ Len(r) \in Nat
  OBVIOUS
<1>2. ASSUME NEW i \in 1 .. Len(r), r[i].id = c
      PROVE  \E x \in 1 .. Len(q) : q[x] = r[i] /\ x = IF i < k THEN i ELSE i - 1
  <2>1. CASE i < k
    <3>1. i \in 1 .. Len(q) /\ q[i] = r[i]
      BY <1>1, <2>1
    <3> QED
      BY <2>1, <3>1
  <2>2. CASE i > k
    <3>1. i - 1 \in 1 .. Len(q) /\ q[i - 1] = r[i]
      BY <1>1, <2>2
    <3> QED
      BY <2>2, <3>1
  <2> QED
    BY <1>2, <2>1, <2>2
<1>3. \A i \in 1 .. Len(r) : r[i].id = c => r[i].n \in (t + 1) .. a
  BY <1>2 DEF Exactly
<1>4. ASSUME NEW m \in (t + 1) .. a
      PROVE  \E i \in 1 .. Len(r) : r[i].id = c /\ r[i].n = m
  <2>1. PICK i \in 1 .. Len(q) : q[i].id = c /\ q[i].n = m
    BY <1>4 DEF Exactly
  <2>2. i \in 1 .. Len(r) /\ i + 1 \in 1 .. Len(r)
    BY <1>1
  <2> QED
    BY <2>1, <2>2
<1>5. ASSUME NEW i \in 1 .. Len(r), NEW j \in 1 .. Len(r), r[i].id = c, r[j].id = c, i < j
      PROVE  r[i].n < r[j].n
  <2>1. PICK x \in 1 .. Len(q) : q[x] = r[i] /\ x = IF i < k THEN i ELSE i - 1
    BY <1>2, <1>5
  <2>2. PICK y \in 1 .. Len(q) : q[y] = r[j] /\ y = IF j < k THEN j ELSE j - 1
    BY <1>2, <1>5
  <2>3. i # k /\ j # k
    BY <1>5
  <2>4. x < y
    BY <1>5, <2>1, <2>2, <2>3
  <2>5. q[x].id = c /\ q[y].id = c
    BY <1>5, <2>1, <2>2
  <2>6. q[x].n < q[y].n
    BY <2>4, <2>5 DEF Exactly
  <2> QED
    BY <2>1, <2>2, <2>6
<1> QED
  BY <1>3, <1>4, <1>5 DEF Exactly

\* One more packet of the call at the far end.
LEMMA ExactSent ==
  ASSUME NEW q \in Seq(Packet), NEW r \in Seq(Packet), NEW c, NEW t \in Nat, NEW a \in Nat, t <= a,
         Exactly(q, c, t, a), Len(r) = Len(q) + 1, \A i \in 1 .. Len(q) : r[i] = q[i],
         r[Len(r)].id = c, r[Len(r)].n = a + 1
  PROVE  Exactly(r, c, t, a + 1)
<1>1. Len(q) \in Nat /\ Len(r) \in Nat /\ Len(r) \in 1 .. Len(r)
  OBVIOUS
<1>2. \A i \in 1 .. Len(r) : i = Len(r) \/ i \in 1 .. Len(q)
  BY <1>1
<1>3. ASSUME NEW i \in 1 .. Len(r), r[i].id = c PROVE r[i].n \in (t + 1) .. (a + 1)
  <2>1. CASE i = Len(r)
    BY <2>1
  <2>2. CASE i \in 1 .. Len(q)
    <3>1. q[i].n \in (t + 1) .. a
      BY <1>3, <2>2 DEF Exactly
    <3> QED
      BY <2>2, <3>1
  <2> QED
    BY <1>2, <2>1, <2>2
<1>4. ASSUME NEW m \in (t + 1) .. (a + 1)
      PROVE  \E i \in 1 .. Len(r) : r[i].id = c /\ r[i].n = m
  <2>1. CASE m = a + 1
    BY <1>1, <2>1
  <2>2. CASE m # a + 1
    <3>1. PICK i \in 1 .. Len(q) : q[i].id = c /\ q[i].n = m
      BY <1>4, <2>2, SMTT(20) DEF Exactly
    <3> QED
      BY <1>1, <3>1
  <2> QED
    BY <2>1, <2>2
<1>5. ASSUME NEW i \in 1 .. Len(r), NEW j \in 1 .. Len(r), r[i].id = c, r[j].id = c, i < j
      PROVE  r[i].n < r[j].n
  <2>1. i \in 1 .. Len(q) /\ r[i] = q[i] /\ q[i].n \in (t + 1) .. a
    BY <1>1, <1>5 DEF Exactly
  <2>2. CASE j = Len(r)
    BY <2>1, <2>2
  <2>3. CASE j \in 1 .. Len(q)
    BY <1>5, <2>1, <2>3, Zenon DEF Exactly
  <2> QED
    BY <1>2, <2>2, <2>3
<1> QED
  BY <1>3, <1>4, <1>5, Zenon DEF Exactly

\* The nearest packet of the call is the next one, and leaves the rest exact.
LEMMA ExactNext ==
  ASSUME NEW q \in Seq(Packet), NEW c, NEW t \in Nat, NEW a \in Nat,
         Exactly(q, c, t, a), q # <<>>, q[1].id = c
  PROVE  q[1].n = t + 1 /\ t + 1 <= a
<1>1. 1 \in 1 .. Len(q)
  OBVIOUS
<1>2. q[1].n \in (t + 1) .. a
  BY <1>1 DEF Exactly
<1>3. t + 1 \in (t + 1) .. a
  BY <1>2
<1>4. PICK i \in 1 .. Len(q) : q[i].id = c /\ q[i].n = t + 1
  BY <1>3 DEF Exactly
<1>5. i = 1 \/ q[1].n < q[i].n
  BY <1>1, <1>4 DEF Exactly
<1> QED
  BY <1>2, <1>3, <1>4, <1>5

LEMMA ExactTaken ==
  ASSUME NEW q \in Seq(Packet), NEW r \in Seq(Packet), NEW c, NEW t \in Nat, NEW a \in Nat,
         Exactly(q, c, t, a), q # <<>>, q[1].id = c, r[1].id # c, Len(r) = Len(q),
         \A i \in 2 .. Len(q) : r[i] = q[i]
  PROVE  Exactly(r, c, t + 1, a)
<1>1. q[1].n = t + 1 /\ 1 \in 1 .. Len(q) /\ \A i \in 1 .. Len(r) : i = 1 \/ i \in 2 .. Len(q)
  BY ExactNext
<1>2. ASSUME NEW i \in 1 .. Len(r), r[i].id = c PROVE r[i].n \in (t + 2) .. a
  <2>1. i \in 2 .. Len(q) /\ r[i] = q[i] /\ 1 < i /\ i \in 1 .. Len(q)
    BY <1>1, <1>2
  <2>2. q[1].n < q[i].n /\ q[i].n \in (t + 1) .. a
    BY <1>1, <1>2, <2>1 DEF Exactly
  <2> QED
    BY <1>1, <2>1, <2>2
<1>3. ASSUME NEW m \in (t + 2) .. a
      PROVE  \E i \in 1 .. Len(r) : r[i].id = c /\ r[i].n = m
  <2>1. m \in (t + 1) .. a /\ m # t + 1
    BY <1>3
  <2>2. PICK i \in 1 .. Len(q) : q[i].id = c /\ q[i].n = m
    BY <2>1 DEF Exactly
  <2>3. i # 1
    BY <1>1, <2>1, <2>2
  <2>4. i \in 2 .. Len(q)
    BY <2>3
  <2> QED
    BY <2>2, <2>4
<1>4. ASSUME NEW i \in 1 .. Len(r), NEW j \in 1 .. Len(r), r[i].id = c, r[j].id = c, i < j
      PROVE  r[i].n < r[j].n
  <2>1. i \in 2 .. Len(q) /\ j \in 2 .. Len(q)
    BY <1>1, <1>4
  <2>2. i \in 1 .. Len(q) /\ j \in 1 .. Len(q) /\ r[i] = q[i] /\ r[j] = q[j]
    BY <2>1
  <2> QED
    BY <1>4, <2>2 DEF Exactly
<1>5. (t + 1) + 1 = t + 2
  OBVIOUS
<1> QED
  BY <1>2, <1>3, <1>4, <1>5 DEF Exactly

\* receivePackets takes the next packet off the stream.
LEMMA ChainFetch ==
  ASSUME NEW a \in Packet, NEW r \in Seq(Packet), NEW b \in Packet, NEW w \in Seq(Packet), w # <<>>,
         NEW c, NEW t \in Nat, NEW n \in Nat, b.id # c, Exactly(Chain(a, r, b, w), c, t, n)
  PROVE  Exactly(Chain(a, r, Head(w), Tail(w)), c, t, n)
<1> DEFINE q == Chain(a, r, b, w)
<1> DEFINE v == Chain(a, r, Head(w), Tail(w))
<1> DEFINE k == Len(r) + 2
<1>1. /\ Len(r) \in Nat /\ Len(w) \in Nat \ {0} /\ Head(w) \in Packet /\ Tail(w) \in Seq(Packet) /\ Head(w) = w[1]
      /\ Len(Tail(w)) = Len(w) - 1 /\ \A i \in 1 .. (Len(w) - 1) : Tail(w)[i] = w[i + 1]
  OBVIOUS
<1>2. ChainIs(q, a, r, b, w)
  BY ChainAt
<1>3. ChainIs(v, a, r, Head(w), Tail(w))
  BY <1>1, ChainAt, Zenon
<1> HIDE DEF q, v
<1>0. q \in Seq(Packet) /\ v \in Seq(Packet) /\ Exactly(q, c, t, n)
  BY <1>2, <1>3 DEF ChainIs, q
<1> USE DEF ChainIs
<1>4. Len(v) = Len(q) - 1 /\ k \in 1 .. Len(q)
  BY <1>1, <1>2, <1>3
<1>5. ASSUME NEW i \in 1 .. Len(v) PROVE v[i] = IF i < k THEN q[i] ELSE q[i + 1]
  <2>1. CASE i < k
    <3>1. i = 1 \/ i \in 2 .. (Len(r) + 1)
      BY <1>1, <2>1
    <3> QED
      BY <1>2, <1>3, <2>1, <3>1
  <2>2. CASE i = k
    <3>1. k + 1 \in (Len(r) + 3) .. (Len(r) + Len(w) + 2) /\ k + 1 - Len(r) - 2 = 1
      BY <1>1
    <3>2. v[k] = w[1]
      BY <1>1, <1>3, Zenon
    <3>3. q[k + 1] = w[1]
      <4>1. \A j \in (Len(r) + 3) .. (Len(r) + Len(w) + 2) : \A m : m = j - Len(r) - 2 => q[j] = w[m]
        BY <1>2
      <4>2. k + 1 \in (Len(r) + 3) .. (Len(r) + Len(w) + 2) /\ 1 = (k + 1) - Len(r) - 2
        BY <1>1
      <4> HIDE DEF k
      <4> QED
        BY <4>1, <4>2, Zenon
    <3>4. ~(i < k)
      BY <1>1, <2>2
    <3> QED
      BY <2>2, <3>2, <3>3, <3>4, Zenon
  <2>3. CASE i > k
    <3> DEFINE m == i - Len(r) - 2
    <3>1. /\ i \in (Len(r) + 3) .. (Len(r) + Len(Tail(w)) + 2) /\ m \in 1 .. (Len(w) - 1)
          /\ i + 1 \in (Len(r) + 3) .. (Len(r) + Len(w) + 2) /\ (i + 1) - Len(r) - 2 = m + 1
      BY <1>1, <1>3, <2>3
    <3>2. v[i] = Tail(w)[m] /\ q[i + 1] = w[m + 1]
      BY <1>2, <1>3, <3>1, SMTT(20)
    <3> QED
      BY <1>1, <2>3, <3>1, <3>2, SMTT(20)
  <2> QED
    BY <2>1, <2>2, <2>3
<1>7. q[k].id # c
  BY <1>2
<1> HIDE DEF k, ChainIs
<1>6. Exactly(v, c, t, n)
  BY <1>0, <1>4, <1>5, <1>7, ExactLess, Zenon
<1> QED
  BY <1>6 DEF v

\* dispatch puts the packet into the stage's queue and holds the blank d.
LEMMA ChainQueue ==
  ASSUME NEW a \in Packet, NEW r \in Seq(Packet), NEW b \in Packet, NEW w \in Seq(Packet), NEW d \in Packet,
         NEW c, NEW t \in Nat, NEW n \in Nat, d.id # c, Exactly(Chain(a, r, b, w), c, t, n)
  PROVE  Exactly(Chain(a, Append(r, b), d, w), c, t, n)
<1> DEFINE q == Chain(a, r, b, w)
<1> DEFINE r2 == Append(r, b)
<1> DEFINE v == Chain(a, r2, d, w)
<1> DEFINE k == Len(r) + 3
<1>1. /\ Len(r) \in Nat /\ Len(w) \in Nat /\ r2 \in Seq(Packet) /\ Len(r2) = Len(r) + 1
      /\ r2[Len(r) + 1] = b /\ \A i \in 1 .. Len(r) : r2[i] = r[i]
  OBVIOUS
<1> HIDE DEF r2
<1>2. ChainIs(q, a, r, b, w)
  BY ChainAt
<1>3. ChainIs(v, a, r2, d, w)
  BY <1>1, ChainAt
<1> HIDE DEF q, v
<1>0. q \in Seq(Packet) /\ v \in Seq(Packet) /\ Exactly(q, c, t, n)
  BY <1>2, <1>3 DEF ChainIs, q
<1> USE DEF ChainIs
<1>4. Len(v) = Len(q) + 1 /\ k \in 1 .. Len(v) /\ v[k] = d
  BY <1>1, <1>2, <1>3
<1>5. ASSUME NEW i \in 1 .. Len(q) PROVE q[i] = IF i < k THEN v[i] ELSE v[i + 1]
  <2>1. CASE i = 1
    BY <1>1, <1>2, <1>3, <2>1
  <2>2. CASE i \in 2 .. (Len(r) + 1)
    <3>1. i - 1 \in 1 .. Len(r) /\ i \in 2 .. (Len(r2) + 1) /\ i < k
      BY <1>1, <2>2
    <3> QED
      BY <1>1, <1>2, <1>3, <2>2, <3>1, Zenon
  <2>3. CASE i = Len(r) + 2
    <3>1. i \in 2 .. (Len(r2) + 1) /\ i - 1 = Len(r) + 1 /\ i < k
      BY <1>1, <2>3
    <3> QED
      BY <1>1, <1>2, <1>3, <2>3, <3>1, Zenon
  <2>4. CASE i > Len(r) + 2
    <3>1. /\ i \in (Len(r) + 3) .. (Len(r) + Len(w) + 2)
          /\ i + 1 \in (Len(r2) + 3) .. (Len(r2) + Len(w) + 2)
          /\ (i + 1) - Len(r2) - 2 = i - Len(r) - 2 /\ ~(i < k)
      BY <1>1, <1>2, <2>4
    <3> QED
      BY <1>2, <1>3, <3>1, Zenon
  <2>5. i = 1 \/ i \in 2 .. (Len(r) + 1) \/ i = Len(r) + 2 \/ i > Len(r) + 2
    <3>1. PICK l \in Nat, j \in Nat : l = Len(r) /\ j = i /\ j # 0
      BY <1>1
    <3>2. j = 1 \/ j \in 2 .. (l + 1) \/ j = l + 2 \/ j > l + 2
      BY <3>1
    <3> QED
      BY <3>1, <3>2, Zenon
  <2> QED
    BY <2>1, <2>2, <2>3, <2>4, <2>5, Zenon
<1> HIDE DEF k, ChainIs
<1>6. Exactly(v, c, t, n)
  BY <1>0, <1>4, <1>5, ExactMore, Zenon
<1> QED
  BY <1>6 DEF v, r2

\* The stage takes the next packet from its queue.
LEMMA ChainTake ==
  ASSUME NEW a \in Packet, NEW r \in Seq(Packet), NEW b \in Packet, NEW w \in Seq(Packet), r # <<>>,
         NEW c, NEW t \in Nat, NEW n \in Nat, a.id # c, Exactly(Chain(a, r, b, w), c, t, n)
  PROVE  Exactly(Chain(Head(r), Tail(r), b, w), c, t, n)
<1> DEFINE q == Chain(a, r, b, w)
<1> DEFINE r2 == Tail(r)
<1> DEFINE v == Chain(Head(r), r2, b, w)
<1>1. /\ Len(r) \in Nat \ {0} /\ Len(w) \in Nat /\ r2 \in Seq(Packet) /\ Len(r2) = Len(r) - 1
      /\ Head(r) = r[1] /\ Head(r) \in Packet /\ \A i \in 1 .. (Len(r) - 1) : r2[i] = r[i + 1]
  OBVIOUS
<1> HIDE DEF r2
<1>2. ChainIs(q, a, r, b, w)
  BY ChainAt
<1>3. ChainIs(v, Head(r), r2, b, w)
  BY <1>1, ChainAt
<1> HIDE DEF q, v
<1>0. q \in Seq(Packet) /\ v \in Seq(Packet) /\ Exactly(q, c, t, n)
  BY <1>2, <1>3 DEF ChainIs, q
<1> USE DEF ChainIs
<1>4. Len(v) = Len(q) - 1 /\ 1 \in 1 .. Len(q)
  BY <1>1, <1>2, <1>3
<1>5. ASSUME NEW i \in 1 .. Len(v) PROVE v[i] = q[i + 1]
  <2>1. CASE i = 1
    <3>1. 2 \in 2 .. (Len(r) + 1)
      BY <1>1
    <3> QED
      BY <1>1, <1>2, <1>3, <2>1, <3>1
  <2>2. CASE i \in 2 .. (Len(r2) + 1)
    <3>1. i - 1 \in 1 .. (Len(r) - 1) /\ i + 1 \in 2 .. (Len(r) + 1) /\ (i + 1) - 1 = (i - 1) + 1
      BY <1>1, <2>2
    <3>2. v[i] = r2[i - 1] /\ q[i + 1] = r[(i - 1) + 1]
      BY <1>2, <1>3, <2>2, <3>1, Zenon
    <3> QED
      BY <1>1, <3>1, <3>2
  <2>3. CASE i = Len(r2) + 2
    <3>1. i + 1 = Len(r) + 2
      BY <1>1, <2>3
    <3> QED
      BY <1>2, <1>3, <2>3, <3>1, SMTT(20)
  <2>4. CASE i > Len(r2) + 2
    <3>1. /\ i \in (Len(r2) + 3) .. (Len(r2) + Len(w) + 2)
          /\ i + 1 \in (Len(r) + 3) .. (Len(r) + Len(w) + 2)
          /\ (i + 1) - Len(r) - 2 = i - Len(r2) - 2
      BY <1>1, <1>3, <2>4
    <3> QED
      BY <1>2, <1>3, <3>1, Zenon
  <2>5. i = 1 \/ i \in 2 .. (Len(r2) + 1) \/ i = Len(r2) + 2 \/ i > Len(r2) + 2
    BY <1>1
  <2> QED
    BY <2>1, <2>2, <2>3, <2>4, <2>5
<1>7. q[1].id # c
  BY <1>2
<1> HIDE DEF ChainIs
<1>6. Exactly(v, c, t, n)
  <2>1. \A i \in 1 .. Len(v) : v[i] = IF i < 1 THEN q[i] ELSE q[i + 1]
    BY <1>5
  <2> QED
    BY <1>0, <1>4, <1>7, <2>1, ExactLess, Zenon
<1> QED
  BY <1>6 DEF v, r2

\* What the stage or the reader holds is exchanged for something else, none of it of c.
LEMMA ChainOther ==
  ASSUME NEW a \in Packet, NEW r \in Seq(Packet), NEW b \in Packet, NEW w \in Seq(Packet),
         NEW a2 \in Packet, NEW b2 \in Packet, NEW c, NEW t \in Nat, NEW n \in Nat,
         a2 = a \/ (a.id # c /\ a2.id # c), b2 = b \/ (b.id # c /\ b2.id # c),
         Exactly(Chain(a, r, b, w), c, t, n)
  PROVE  Exactly(Chain(a2, r, b2, w), c, t, n)
<1> DEFINE q == Chain(a, r, b, w)
<1> DEFINE v == Chain(a2, r, b2, w)
<1>1. ChainIs(q, a, r, b, w) /\ ChainIs(v, a2, r, b2, w)
  BY ChainAt
<1> HIDE DEF q, v
<1>2. q \in Seq(Packet) /\ v \in Seq(Packet) /\ Len(v) = Len(q) /\ Exactly(q, c, t, n)
  BY <1>1 DEF ChainIs, q
<1>3. Len(r) \in Nat /\ Len(w) \in Nat /\ Len(q) = Len(r) + Len(w) + 2
  BY <1>1 DEF ChainIs
<1>4. ASSUME NEW i \in 1 .. Len(q) PROVE v[i] = q[i] \/ (q[i].id # c /\ v[i].id # c)
  <2>1. \/ i = 1 \/ i \in 2 .. (Len(r) + 1) \/ i = Len(r) + 2
        \/ i \in (Len(r) + 3) .. (Len(r) + Len(w) + 2)
    BY <1>3
  <2> QED
    BY <1>1, <2>1 DEF ChainIs
<1>5. Exactly(v, c, t, n)
  BY <1>2, <1>4, ExactSame
<1> QED
  BY <1>5 DEF v

\* The stage hands the next packet of c over and holds the blank d.
LEMMA ChainAccept ==
  ASSUME NEW a \in Packet, NEW r \in Seq(Packet), NEW b \in Packet, NEW w \in Seq(Packet),
         NEW d \in Packet, NEW c, NEW t \in Nat, NEW n \in Nat, a.id = c, d.id # c,
         Exactly(Chain(a, r, b, w), c, t, n)
  PROVE  Exactly(Chain(d, r, b, w), c, t + 1, n)
<1> DEFINE q == Chain(a, r, b, w)
<1> DEFINE v == Chain(d, r, b, w)
<1>1. ChainIs(q, a, r, b, w) /\ ChainIs(v, d, r, b, w)
  BY ChainAt
<1> HIDE DEF q, v
<1>2. q \in Seq(Packet) /\ v \in Seq(Packet) /\ Len(v) = Len(q) /\ Exactly(q, c, t, n)
  BY <1>1 DEF ChainIs, q
<1>3. Len(r) \in Nat /\ Len(w) \in Nat /\ Len(q) = Len(r) + Len(w) + 2
  BY <1>1 DEF ChainIs
<1>4. ASSUME NEW i \in 2 .. Len(q) PROVE v[i] = q[i]
  <2>1. \/ i \in 2 .. (Len(r) + 1) \/ i = Len(r) + 2
        \/ i \in (Len(r) + 3) .. (Len(r) + Len(w) + 2)
    BY <1>3
  <2> QED
    BY <1>1, <2>1 DEF ChainIs
<1>5. q # <<>> /\ q[1].id = c /\ v[1].id # c
  BY <1>1, <1>2, <1>3 DEF ChainIs
<1>6. Exactly(v, c, t + 1, n)
  BY <1>2, <1>4, <1>5, ExactTaken
<1> QED
  BY <1>6 DEF v

\* The packet the stage holds for c is the next one.
LEMMA ChainFirst ==
  ASSUME NEW a \in Packet, NEW r \in Seq(Packet), NEW b \in Packet, NEW w \in Seq(Packet),
         NEW c, NEW t \in Nat, NEW n \in Nat, a.id = c, Exactly(Chain(a, r, b, w), c, t, n)
  PROVE  a.n = t + 1 /\ t + 1 <= n
<1> DEFINE q == Chain(a, r, b, w)
<1>1. ChainIs(q, a, r, b, w)
  BY ChainAt
<1> HIDE DEF q
<1>2. q \in Seq(Packet) /\ q[1] = a /\ q # <<>>
  <2>1. Len(q) = Len(r) + Len(w) + 2 /\ Len(r) \in Nat /\ Len(w) \in Nat
    BY <1>1 DEF ChainIs
  <2> QED
    BY <1>1, <2>1 DEF ChainIs
<1> QED
  BY <1>2, ExactNext DEF q

\* The host puts a packet on the stream: one of c, or one of another call.
LEMMA ChainSend ==
  ASSUME NEW a \in Packet, NEW r \in Seq(Packet), NEW b \in Packet, NEW w \in Seq(Packet),
         NEW p \in Packet, NEW c, NEW t \in Nat, NEW n \in Nat, t <= n,
         Exactly(Chain(a, r, b, w), c, t, n)
  PROVE  /\ p.id # c => Exactly(Chain(a, r, b, Append(w, p)), c, t, n)
         /\ p.id = c /\ p.n = n + 1 => Exactly(Chain(a, r, b, Append(w, p)), c, t, n + 1)
<1> DEFINE q == Chain(a, r, b, w)
<1> DEFINE w2 == Append(w, p)
<1> DEFINE v == Chain(a, r, b, w2)
<1>1. /\ Len(r) \in Nat /\ Len(w) \in Nat /\ w2 \in Seq(Packet) /\ Len(w2) = Len(w) + 1
      /\ w2[Len(w) + 1] = p /\ \A i \in 1 .. Len(w) : w2[i] = w[i]
  OBVIOUS
<1> HIDE DEF w2
<1>2. ChainIs(q, a, r, b, w) /\ ChainIs(v, a, r, b, w2)
  BY <1>1, ChainAt
<1> HIDE DEF q, v
<1>3. /\ q \in Seq(Packet) /\ v \in Seq(Packet) /\ Exactly(q, c, t, n)
      /\ Len(q) = Len(r) + Len(w) + 2 /\ Len(v) = Len(q) + 1
  BY <1>1, <1>2 DEF ChainIs, q
<1>4. ASSUME NEW i \in 1 .. Len(q) PROVE v[i] = q[i]
  <2>1. CASE i = 1 \/ i \in 2 .. (Len(r) + 1) \/ i = Len(r) + 2
    BY <1>2, <2>1, SMTT(20) DEF ChainIs
  <2>2. CASE i \in (Len(r) + 3) .. (Len(r) + Len(w) + 2)
    <3>1. i - Len(r) - 2 \in 1 .. Len(w) /\ i \in (Len(r) + 3) .. (Len(r) + Len(w2) + 2)
      BY <1>1, <2>2
    <3> QED
      BY <1>1, <1>2, <2>2, <3>1, Zenon DEF ChainIs
  <2>3. \/ i = 1 \/ i \in 2 .. (Len(r) + 1) \/ i = Len(r) + 2
        \/ i \in (Len(r) + 3) .. (Len(r) + Len(w) + 2)
    BY <1>1, <1>3
  <2> QED
    BY <2>1, <2>2, <2>3
<1>5. v[Len(v)] = p
  <2>1. Len(v) \in (Len(r) + 3) .. (Len(r) + Len(w2) + 2) /\ Len(v) - Len(r) - 2 = Len(w) + 1
    BY <1>1, <1>3
  <2> QED
    BY <1>1, <1>2, <2>1, Zenon DEF ChainIs
<1>6. ASSUME p.id # c PROVE Exactly(v, c, t, n)
  <2>1. Len(v) \in 1 .. Len(v) /\ \A i \in 1 .. Len(q) : i < Len(v)
    BY <1>1, <1>3
  <2>2. \A i \in 1 .. Len(q) : q[i] = IF i < Len(v) THEN v[i] ELSE v[i + 1]
    BY <1>4, <2>1
  <2> QED
    BY <1>3, <1>5, <1>6, <2>1, <2>2, ExactMore, Zenon
<1>7. ASSUME p.id = c, p.n = n + 1 PROVE Exactly(v, c, t, n + 1)
  BY <1>3, <1>4, <1>5, <1>7, ExactSent, Zenon
<1> QED
  BY <1>6, <1>7 DEF v, w2

-----------------------------------------------------------------------------
(***************************************************************************)
(* The steps of callers, sender and contexts: packets stay where they are. *)
(***************************************************************************)

LEMMA SlotPacket ==
  /\ Blank \in Packet /\ Blank.id = NoCall
  /\ Slot(Idle) = Blank /\ Slot(Exited) = Blank
  /\ \A g \in Readers : Slot(g) \in Packet /\ (g.at = "dispatch" => Slot(g) = g.packet)
  /\ \A g \in Workers : Slot(g) \in Packet /\ (g.at \in Steps => Slot(g) = g.packet)
<1>1. Blank \in Packet /\ Blank.id = NoCall
  BY DEF Blank, Packet
<1>2. Slot(Idle) = Blank /\ Slot(Exited) = Blank
  BY DEF Slot, Idle, Exited
<1>3. \A g \in [at : {"dispatch"}, packet : Packet] : Slot(g) = g.packet /\ g.packet \in Packet
  BY DEF Slot
<1>4. \A g \in [at : Steps, packet : Packet] : Slot(g) = g.packet /\ g.packet \in Packet
  BY DEF Slot, Steps
<1>5. Idle.at = "select" /\ Exited.at = "exited"
  BY DEF Idle, Exited
<1> QED
  BY <1>1, <1>2, <1>3, <1>4, <1>5 DEF Readers, Workers, Steps

LEMMA LaneIs ==
  ASSUME NEW s
  PROVE  /\ Lane(s) = Chain(Slot(worker[s]), recvCh[s], Slot(reader), wire)
         /\ Lane(s)' = Chain(Slot(worker'[s]), recvCh'[s], Slot(reader'), wire')
BY DEF Lane, Chain, Slot, Blank

\* The numbers Exactly is about are natural numbers.
LEMMA ThroughNat ==
  ASSUME TypeInv, NEW c \in Calls
  PROVE  Through(c) \in Nat /\ answered[c] \in Nat /\ StageOf[c] \in Stages
<1>1. got[c] \in Seq(Packet) /\ ch[c] \in Seq(Packet)
  BY DEF TypeInv
<1>2. Len(got[c]) \in Nat /\ Len(ch[c]) \in Nat
  BY <1>1
<1> QED
  BY <1>2, ConstantsOK DEF TypeInv, Through

Flow == <<got, ch, answered, wire, reader, recvCh, worker>>

LEMMA FlowSame ==
  ASSUME RouteInv, ThroughInv, LaneInv, UNCHANGED Flow, \A c \in Calls : Fed(c)' => Fed(c)
  PROVE  RouteInv' /\ ThroughInv' /\ LaneInv'
<1>1. /\ got' = got /\ ch' = ch /\ answered' = answered /\ wire' = wire /\ reader' = reader
      /\ recvCh' = recvCh /\ worker' = worker
  BY DEF Flow
<1>2. RouteInv'
  BY <1>1 DEF RouteInv, Addressed, Slot, Blank
<1>3. ThroughInv'
  BY <1>1, Zenon DEF ThroughInv, Numbered, NextOne, Through
<1>4. \A s : Lane(s)' = Lane(s)
  BY <1>1 DEF Lane, Slot, Blank
<1>5. \A c : Through(c)' = Through(c)
  BY <1>1 DEF Through
<1>6. LaneInv'
  BY <1>1, <1>4, <1>5 DEF LaneInv
<1> QED
  BY <1>2, <1>3, <1>6

LEMMA RegisterStep ==
  ASSUME IInv, NEW c \in Calls, Register(c)
  PROVE  IInv'
<1>0. TypeInv /\ RouteInv /\ AskInv /\ DemuxInv /\ ThroughInv /\ LaneInv
  BY DEF IInv
<1>1. /\ pc[c] = "idle" /\ pc' = [pc EXCEPT ![c] = "sending"]
      /\ cancelled' = [cancelled EXCEPT ![c] = cancelled[c] \/ (buildCtx /\ c \notin Detached)]
      /\ demux' = demux \cup {c}
      /\ UNCHANGED <<sendCh, asked, pipeCtx>> /\ UNCHANGED Flow
  BY DEF Register, Registered, sendVars, hostVars, streamVars, recvVars, ctxVars, Flow
<1>2. /\ pc'[c] = "sending" /\ \A d \in Calls : d # c => pc'[d] = pc[d] /\ cancelled'[d] = cancelled[d]
  BY <1>0, <1>1 DEF TypeInv
<1>3. cancelled'[c] = FALSE => ~cancelled[c]
  BY <1>0, <1>1, Zenon DEF TypeInv
<1>4. TypeInv'
  <2>1. cancelled' \in [Calls -> BOOLEAN]
    BY <1>0, <1>1, Zenon DEF TypeInv
  <2>2. pc' \in [Calls -> States]
    BY <1>0, <1>1 DEF TypeInv, States
  <2> QED
    BY <1>0, <1>1, <2>1, <2>2 DEF TypeInv, Flow
<1>5. AskInv'
  <2>1. \A k \in 1 .. Len(sendCh) : sendCh[k] \in Calls
    BY <1>0 DEF TypeInv
  <2> QED
    BY <1>0, <1>1, <1>2, <2>1 DEF AskInv, Flow
<1>6. DemuxInv'
  BY <1>0, <1>1, <1>2 DEF DemuxInv
<1>7. \A d \in Calls : Fed(d)' => Fed(d)
  BY <1>1, <1>2 DEF Fed
<1> QED
  BY <1>0, <1>1, <1>4, <1>5, <1>6, <1>7, FlowSame DEF IInv

LEMMA SendQueuedStep ==
  ASSUME IInv, NEW c \in Calls, SendQueued(c)
  PROVE  IInv'
<1>0. TypeInv /\ RouteInv /\ AskInv /\ DemuxInv /\ ThroughInv /\ LaneInv
  BY DEF IInv
<1>1. /\ pc[c] = "sending" /\ pc' = [pc EXCEPT ![c] = "waiting"] /\ sendCh' = Append(sendCh, c)
      /\ UNCHANGED <<cancelled, demux, asked, pipeCtx>> /\ UNCHANGED Flow
  BY DEF SendQueued, demuxVars, hostVars, streamVars, recvVars, ctxVars, Flow
<1>2. /\ pc'[c] = "waiting" /\ \A d \in Calls : d # c => pc'[d] = pc[d]
  BY <1>0, <1>1 DEF TypeInv
<1>3. /\ sendCh \in Seq(Calls) /\ Len(sendCh) \in Nat /\ sendCh' \in Seq(Calls)
      /\ Len(sendCh') = Len(sendCh) + 1 /\ sendCh'[Len(sendCh) + 1] = c
      /\ \A k \in 1 .. Len(sendCh) : sendCh'[k] = sendCh[k] /\ sendCh[k] \in Calls
  BY <1>0, <1>1 DEF TypeInv
<1>4. TypeInv'
  BY <1>0, <1>1, <1>3 DEF TypeInv, States, Flow
<1>5. AskInv'
  <2>1. \A k \in 1 .. Len(sendCh') : k \in 1 .. Len(sendCh) \/ k = Len(sendCh) + 1
    BY <1>3
  <2>2. \A k \in 1 .. Len(sendCh) : sendCh[k] # c
    BY <1>0, <1>1 DEF AskInv
  <2>3. c \notin asked
    BY <1>0, <1>1 DEF AskInv
  <2>4. \A k \in 1 .. Len(sendCh') : pc'[sendCh'[k]] \in {"waiting", "failed"} /\ sendCh'[k] \notin asked
    BY <1>0, <1>2, <1>3, <2>1, <2>2, <2>3 DEF AskInv
  <2>5. ASSUME NEW k \in 1 .. Len(sendCh'), NEW m \in 1 .. Len(sendCh'), sendCh'[k] = sendCh'[m]
        PROVE  k = m
    <3>1. CASE k \in 1 .. Len(sendCh) /\ m \in 1 .. Len(sendCh)
      BY <1>0, <1>3, <2>5, <3>1 DEF AskInv
    <3>2. CASE k = Len(sendCh) + 1 \/ m = Len(sendCh) + 1
      BY <1>3, <2>1, <2>2, <2>5, <3>2
    <3> QED
      BY <2>1, <3>1, <3>2
  <2> QED
    BY <1>0, <1>1, <1>2, <2>4, <2>5, Zenon DEF AskInv, Flow
<1>6. DemuxInv'
  BY <1>0, <1>1, <1>2 DEF DemuxInv
<1>7. \A d \in Calls : Fed(d)' => Fed(d)
  BY <1>1, <1>2 DEF Fed
<1> QED
  BY <1>0, <1>1, <1>4, <1>5, <1>6, <1>7, FlowSame DEF IInv

\* Send times out, or Recv sees its context done.
LEMMA LeaveStep ==
  ASSUME IInv, NEW c \in Calls, SendTimeout(c) \/ RecvCtxDone(c)
  PROVE  IInv'
<1>0. TypeInv /\ RouteInv /\ AskInv /\ DemuxInv /\ ThroughInv /\ LaneInv
  BY DEF IInv
<1>1. /\ demux' \subseteq demux /\ \A d \in Calls : d # c => (d \in demux' <=> d \in demux)
      /\ UNCHANGED <<cancelled, sendCh, asked, pipeCtx>> /\ UNCHANGED Flow
  BY DEF SendTimeout, RecvCtxDone, sendVars, hostVars, streamVars, recvVars, ctxVars, Flow
<1>2. \/ pc[c] = "sending" /\ pc' = [pc EXCEPT ![c] = "refused"]
      \/ pc[c] = "waiting" /\ pc' = [pc EXCEPT ![c] = "failed"]
  BY Zenon DEF SendTimeout, RecvCtxDone
<1>3. /\ pc[c] \in {"sending", "waiting"} /\ \A d \in Calls : d # c => pc'[d] = pc[d]
      /\ pc'[c] \in {"refused", "failed"} /\ (pc[c] = "sending" => pc'[c] = "refused")
      /\ (pc[c] = "waiting" => pc'[c] = "failed")
  BY <1>0, <1>2 DEF TypeInv
<1>4. TypeInv'
  <2>1. pc' \in [Calls -> States]
    BY <1>0, <1>2, Zenon DEF TypeInv, States
  <2> QED
    BY <1>0, <1>1, <2>1 DEF TypeInv, Flow
<1>5. AskInv'
  <2>1. \A k \in 1 .. Len(sendCh) : sendCh[k] \in Calls
    BY <1>0 DEF TypeInv
  <2>2. \A d \in Calls : pc'[d] \in {"idle", "sending", "refused"} => d \notin asked
    BY <1>0, <1>3 DEF AskInv
  <2>3. \A k \in 1 .. Len(sendCh) : pc'[sendCh[k]] \in {"waiting", "failed"}
    BY <1>0, <1>3, <2>1 DEF AskInv
  <2> QED
    BY <1>0, <1>1, <2>2, <2>3 DEF AskInv, Flow
<1>6. DemuxInv'
  BY <1>0, <1>1, <1>3 DEF DemuxInv
<1>7. \A d \in Calls : Fed(d)' => Fed(d)
  BY <1>1, <1>3 DEF Fed
<1> QED
  BY <1>0, <1>1, <1>4, <1>5, <1>6, <1>7, FlowSame DEF IInv

\* A context ends: of one call, or with the build.
LEMMA CancelStep ==
  ASSUME IInv, BuildEnds \/ \E c \in Calls : CancelOnReturn(c) \/ CancelCall(c)
  PROVE  IInv'
<1>0. TypeInv /\ RouteInv /\ AskInv /\ DemuxInv /\ ThroughInv /\ LaneInv
  BY DEF IInv
<1>1. UNCHANGED <<pc, demux, sendCh, asked>> /\ UNCHANGED Flow
  BY DEF BuildEnds, CancelOnReturn, CancelCall, demuxVars, sendVars, hostVars, streamVars, recvVars, Flow
<1>2. /\ pipeCtx' \in BOOLEAN /\ (pipeCtx => pipeCtx') /\ cancelled' \in [Calls -> BOOLEAN]
      /\ \A d \in Calls : cancelled[d] => cancelled'[d]
  <2>1. CASE BuildEnds
    BY <1>0, <2>1, Zenon DEF TypeInv, BuildEnds
  <2>2. ASSUME NEW c \in Calls, CancelOnReturn(c) \/ CancelCall(c)
        PROVE  /\ pipeCtx' \in BOOLEAN /\ (pipeCtx => pipeCtx') /\ cancelled' \in [Calls -> BOOLEAN]
               /\ \A d \in Calls : cancelled[d] => cancelled'[d]
    <3>1. pipeCtx' = pipeCtx /\ cancelled' = [cancelled EXCEPT ![c] = TRUE]
      BY <2>2 DEF CancelOnReturn, CancelCall, ctxVars
    <3> QED
      BY <1>0, <3>1, Zenon DEF TypeInv
  <2> QED
    BY <2>1, <2>2
<1>3. TypeInv'
  BY <1>0, <1>1, <1>2 DEF TypeInv, Flow
<1>4. AskInv'
  BY <1>0, <1>1 DEF AskInv, Flow
<1>5. DemuxInv'
  BY <1>0, <1>1, <1>2 DEF DemuxInv
<1>6. \A d \in Calls : Fed(d)' => Fed(d)
  BY <1>1, <1>2 DEF Fed
<1> QED
  BY <1>0, <1>1, <1>3, <1>4, <1>5, <1>6, FlowSame DEF IInv

\* sendPackets takes a request off sendCh, and puts it on the stream or fails.
LEMMA SenderStep ==
  ASSUME IInv, SendPacket \/ SendError
  PROVE  IInv'
<1>0. TypeInv /\ RouteInv /\ AskInv /\ DemuxInv /\ ThroughInv /\ LaneInv
  BY DEF IInv
<1>1. /\ UNCHANGED <<pc, cancelled, demux>> /\ UNCHANGED Flow
      /\ sendCh # <<>> /\ sendCh' = Tail(sendCh)
      /\ asked' = asked \/ asked' = asked \cup {Head(sendCh)}
      /\ pipeCtx' = pipeCtx \/ pipeCtx' = TRUE
  BY DEF SendPacket, SendError, callVars, demuxVars, hostVars, streamVars, recvVars, ctxVars, Flow
<1>2. /\ sendCh \in Seq(Calls) /\ Len(sendCh) \in Nat \ {0} /\ sendCh' \in Seq(Calls)
      /\ Len(sendCh') = Len(sendCh) - 1 /\ Head(sendCh) = sendCh[1] /\ sendCh[1] \in Calls
      /\ \A k \in 1 .. Len(sendCh') : k + 1 \in 1 .. Len(sendCh) /\ sendCh'[k] = sendCh[k + 1]
  BY <1>0, <1>1 DEF TypeInv
<1>3. asked' \subseteq asked \cup {sendCh[1]} /\ asked \subseteq asked'
  BY <1>1, <1>2
<1>4. TypeInv'
  BY <1>0, <1>1, <1>2, <1>3, Zenon DEF TypeInv, Flow
<1>5. AskInv'
  <2>1. pc[sendCh[1]] \in {"waiting", "failed"}
    BY <1>0, <1>2 DEF AskInv
  <2>2. \A c \in Calls : pc[c] \in {"idle", "sending", "refused"} => c \notin asked'
    BY <1>0, <1>3, <2>1 DEF AskInv
  <2>3. ASSUME NEW k \in 1 .. Len(sendCh')
        PROVE  pc[sendCh'[k]] \in {"waiting", "failed"} /\ sendCh'[k] \notin asked'
    <3>1. k + 1 \in 1 .. Len(sendCh) /\ sendCh'[k] = sendCh[k + 1] /\ k + 1 # 1 /\ 1 \in 1 .. Len(sendCh)
      BY <1>2
    <3>2. sendCh[k + 1] # sendCh[1]
      BY <1>0, <3>1 DEF AskInv
    <3> QED
      BY <1>0, <1>3, <3>1, <3>2 DEF AskInv
  <2>4. ASSUME NEW k \in 1 .. Len(sendCh'), NEW m \in 1 .. Len(sendCh'), sendCh'[k] = sendCh'[m]
        PROVE  k = m
    <3>1. k + 1 = m + 1
      BY <1>0, <1>2, <2>4 DEF AskInv
    <3> QED
      BY <3>1
  <2> QED
    BY <1>0, <1>1, <1>3, <2>2, <2>3, <2>4 DEF AskInv, Flow
<1>6. DemuxInv'
  BY <1>0, <1>1 DEF DemuxInv
<1>7. \A d \in Calls : Fed(d)' => Fed(d)
  BY <1>1 DEF Fed
<1> QED
  BY <1>0, <1>1, <1>4, <1>5, <1>6, <1>7, FlowSame DEF IInv

\* Steps that touch nothing the invariant is about.
LEMMA QuietStep ==
  ASSUME IInv, SenderCtxDone \/ HostHalfCloses \/ RunReturns \/ UNCHANGED vars
  PROVE  IInv'
<1>0. TypeInv /\ RouteInv /\ AskInv /\ DemuxInv /\ ThroughInv /\ LaneInv
  BY DEF IInv
<1>1. UNCHANGED <<pc, cancelled, demux, sendCh, asked, pipeCtx>> /\ UNCHANGED Flow
  BY DEF SenderCtxDone, HostHalfCloses, RunReturns, vars, callVars, demuxVars, sendVars, hostVars,
         streamVars, recvVars, ctxVars, Flow
<1>2. TypeInv' /\ AskInv' /\ DemuxInv'
  BY <1>0, <1>1 DEF TypeInv, AskInv, DemuxInv, Flow
<1>3. \A d \in Calls : Fed(d)' => Fed(d)
  BY <1>1 DEF Fed
<1> QED
  BY <1>0, <1>1, <1>2, <1>3, FlowSame DEF IInv

-----------------------------------------------------------------------------
(***************************************************************************)
(* The steps that move packets.                                            *)
(***************************************************************************)

\* Callers, requests and the host's answers as they were.
CallsSame == UNCHANGED <<pc, cancelled, sendCh, asked, answered>>

LEMMA CallsKept ==
  ASSUME TypeInv, AskInv, DemuxInv, CallsSame, demux' \subseteq demux,
         pipeCtx' \in BOOLEAN, pipeCtx => pipeCtx',
         \A c \in Calls : c \in demux /\ c \notin demux' => cancelled[c] \/ pipeCtx'
  PROVE  AskInv' /\ DemuxInv' /\ \A c \in Calls : Fed(c)' => Fed(c)
<1>1. AskInv'
  BY DEF AskInv, CallsSame
<1>2. DemuxInv'
  BY DEF DemuxInv, CallsSame
<1>3. \A c \in Calls : Fed(c)' => Fed(c)
  BY DEF Fed, CallsSame
<1> QED
  BY <1>1, <1>2, <1>3

\* The lanes keep their packets.
LEMMA LanesSame ==
  ASSUME LaneInv, answered' = answered, \A c \in Calls : Through(c)' = Through(c),
         \A s \in Stages : Lane(s)' = Lane(s), \A c \in Calls : Fed(c)' => Fed(c)
  PROVE  LaneInv'
<1>1. \A c \in Calls : StageOf[c] \in Stages
  BY ConstantsOK
<1> QED
  BY <1>1 DEF LaneInv

\* Nothing comes through and no stage starts to hand a packet over.
LEMMA ThroughSame ==
  ASSUME ThroughInv, got' = got, ch' = ch, answered' = answered,
         \A s \in Stages : worker'[s] = worker[s] \/ worker'[s].at # "accept"
  PROVE  ThroughInv' /\ \A c \in Calls : Through(c)' = Through(c)
<1>1. \A c : Through(c)' = Through(c)
  BY DEF Through
<1>2. \A c \in Calls : Numbered(c)'
  BY Zenon DEF ThroughInv, Numbered, Through
<1>3. \A s \in Stages : NextOne(s)'
  BY <1>1 DEF ThroughInv, NextOne
<1> QED
  BY <1>1, <1>2, <1>3 DEF ThroughInv

LEMMA Shifted ==
  ASSUME NEW g \in Seq(Packet), NEW h \in Seq(Packet), h # <<>>
  PROVE  /\ Len(g) \in Nat /\ Len(h) \in Nat \ {0} /\ Len(Append(g, Head(h))) = Len(g) + 1
         /\ Len(Tail(h)) = Len(h) - 1 /\ Append(g, Head(h)) \in Seq(Packet) /\ Tail(h) \in Seq(Packet)
         /\ \A k \in 1 .. Len(g) : Append(g, Head(h))[k] = g[k]
         /\ Append(g, Head(h))[Len(g) + 1] = h[1]
         /\ \A k \in 1 .. (Len(h) - 1) : Tail(h)[k] = h[k + 1]
<1>1. Len(g) \in Nat /\ Len(h) \in Nat \ {0} /\ Head(h) = h[1] /\ h[1] \in Packet
  OBVIOUS
<1> QED
  BY <1>1

LEMMA RouteKept ==
  ASSUME RouteInv, UNCHANGED <<wire, recvCh>>, Slot(reader') = Slot(reader),
         \A t \in Stages : worker'[t].at \in Steps => Addressed(worker'[t].packet) /\ worker'[t].packet.dest = t
  PROVE  RouteInv'
<1>1. (\A k \in 1 .. Len(wire) : Addressed(wire[k]))'
  BY DEF RouteInv, Addressed
<1>2. Addressed(Slot(reader))'
  BY Zenon DEF RouteInv, Addressed, Slot
<1>3. (\A s \in Stages : \A k \in 1 .. Len(recvCh[s]) : Addressed(recvCh[s][k]) /\ recvCh[s][k].dest = s)'
  BY DEF RouteInv, Addressed
<1> QED
  BY <1>1, <1>2, <1>3 DEF RouteInv, Addressed

\* Demultiplexer.Recv takes a packet out of the channel: as many have come through as before.
LEMMA RecvPacketStep ==
  ASSUME IInv, NEW c \in Calls, RecvPacket(c)
  PROVE  IInv'
<1>0. TypeInv /\ RouteInv /\ AskInv /\ DemuxInv /\ ThroughInv /\ LaneInv
  BY DEF IInv
<1>1. /\ pc[c] = "waiting" /\ ch[c] # <<>> /\ got' = [got EXCEPT ![c] = Append(got[c], Head(ch[c]))]
      /\ ch' = [ch EXCEPT ![c] = Tail(ch[c])]
      /\ pc' = [pc EXCEPT ![c] = "done"] \/ pc' = pc
  <2>1. /\ pc[c] = "waiting" /\ ch[c] # <<>> /\ got' = [got EXCEPT ![c] = Append(got[c], Head(ch[c]))]
        /\ ch' = [ch EXCEPT ![c] = Tail(ch[c])]
        /\ pc' = [pc EXCEPT ![c] = IF Enough(c) THEN "done" ELSE pc[c]]
    BY Zenon DEF RecvPacket
  <2> QED
    BY <1>0, <2>1, Zenon DEF TypeInv
<1>2. UNCHANGED <<cancelled, demux, sendCh, asked, pipeCtx, answered, wire, reader, recvCh, worker>>
  BY DEF RecvPacket, sendVars, hostVars, streamVars, recvVars, ctxVars
<1>3. /\ \A d \in Calls : d # c => pc'[d] = pc[d] /\ got'[d] = got[d] /\ ch'[d] = ch[d]
      /\ pc'[c] \in {"done", "waiting"} /\ got'[c] = Append(got[c], Head(ch[c])) /\ ch'[c] = Tail(ch[c])
  BY <1>0, <1>1 DEF TypeInv
<1>4. got[c] \in Seq(Packet) /\ ch[c] \in Seq(Packet)
  BY <1>0 DEF TypeInv
<1>5. /\ Len(got[c]) \in Nat /\ Len(ch[c]) \in Nat \ {0} /\ Len(got'[c]) = Len(got[c]) + 1
      /\ Len(ch'[c]) = Len(ch[c]) - 1 /\ got'[c] \in Seq(Packet) /\ ch'[c] \in Seq(Packet)
      /\ \A k \in 1 .. Len(got[c]) : got'[c][k] = got[c][k]
      /\ got'[c][Len(got[c]) + 1] = ch[c][1]
      /\ \A k \in 1 .. (Len(ch[c]) - 1) : ch'[c][k] = ch[c][k + 1]
  <2>1. PICK g, h, g2, h2 : g = got[c] /\ h = ch[c] /\ g2 = got'[c] /\ h2 = ch'[c]
    OBVIOUS
  <2>2. g \in Seq(Packet) /\ h \in Seq(Packet) /\ h # <<>> /\ g2 = Append(g, Head(h)) /\ h2 = Tail(h)
    BY <1>1, <1>3, <1>4, <2>1
  <2>3. /\ Len(g) \in Nat /\ Len(h) \in Nat \ {0} /\ Len(g2) = Len(g) + 1 /\ Len(h2) = Len(h) - 1
        /\ g2 \in Seq(Packet) /\ h2 \in Seq(Packet)
        /\ \A k \in 1 .. Len(g) : g2[k] = g[k]
        /\ g2[Len(g) + 1] = h[1]
        /\ \A k \in 1 .. (Len(h) - 1) : h2[k] = h[k + 1]
    BY <2>2, Shifted
  <2> QED
    BY <2>1, <2>3, Zenon
<1>6. TypeInv'
  <2>1. pc' \in [Calls -> States] /\ got' \in [Calls -> Seq(Packet)] /\ ch' \in [Calls -> Seq(Packet)]
    BY <1>0, <1>1, <1>3, <1>5, Zenon DEF TypeInv, States
  <2> QED
    BY <1>0, <1>2, <2>1 DEF TypeInv
<1>7. AskInv'
  <2>1. \A k \in 1 .. Len(sendCh) : sendCh[k] \in Calls /\ (sendCh[k] = c => c \notin asked)
    BY <1>0, SMTT(20) DEF TypeInv, AskInv
  <2>2. \A d \in Calls : pc'[d] \in {"idle", "sending", "refused"} => d \notin asked
    BY <1>0, <1>3, Zenon DEF AskInv
  <2>3. \A k \in 1 .. Len(sendCh) : sendCh[k] # c
    <3>1. Len(ch[c]) <= Through(c) /\ Through(c) <= answered[c] /\ answered[c] # 0
      <4>1. Through(c) <= answered[c]
        BY <1>0, Zenon DEF ThroughInv, Numbered
      <4>2. answered[c] \in Nat /\ Through(c) = Len(got[c]) + Len(ch[c])
        BY <1>0, ThroughNat, Zenon DEF Through
      <4>3. Len(got[c]) \in Nat /\ Len(ch[c]) \in Nat \ {0}
        BY <1>5
      <4>4. \A m, k, a \in Nat : k # 0 /\ m + k <= a => k <= m + k /\ a # 0
        OBVIOUS
      <4> QED
        BY <4>1, <4>2, <4>3, <4>4, Zenon
    <3>2. c \in asked
      BY <1>0, <3>1 DEF AskInv
    <3> QED
      BY <2>1, <3>2
  <2>4. \A k \in 1 .. Len(sendCh) : pc'[sendCh[k]] \in {"waiting", "failed"}
    BY <1>0, <1>3, <2>1, <2>3 DEF AskInv
  <2> QED
    BY <1>0, <1>2, <2>2, <2>4, Zenon DEF AskInv
<1>8. DemuxInv'
  BY <1>0, <1>1, <1>2, <1>3 DEF DemuxInv
<1>9. \A d \in Calls : Through(d)' = Through(d)
  <2>1. Through(c)' = Through(c)
    <3>1. /\ Len(got[c]) \in Nat /\ Len(ch[c]) \in Nat
          /\ Len(got'[c]) = Len(got[c]) + 1 /\ Len(ch'[c]) = Len(ch[c]) - 1
      BY <1>5
    <3>2. Through(c) = Len(got[c]) + Len(ch[c]) /\ Through(c)' = Len(got'[c]) + Len(ch'[c])
      BY DEF Through
    <3>3. \A m, k \in Nat : (m + 1) + (k - 1) = m + k
      OBVIOUS
    <3> QED
      BY <3>1, <3>2, <3>3, Zenon
  <2>2. \A d \in Calls : d # c => Through(d)' = Through(d)
    BY <1>3, Zenon DEF Through
  <2> QED
    BY <2>1, <2>2
<1>10. ThroughInv'
  <2>1. Numbered(c)'
    <3>1. Numbered(c)
      BY <1>0 DEF ThroughInv
    <3>2. ASSUME NEW k \in 1 .. Len(got'[c]) PROVE got'[c][k].n = k /\ got'[c][k].id = c
      <4>1. CASE k \in 1 .. Len(got[c])
        BY <1>5, <3>1, <4>1, Zenon DEF Numbered
      <4>2. CASE k = Len(got[c]) + 1
        BY <1>5, <3>1, <4>2, SMTT(20) DEF Numbered
      <4>3. k \in 1 .. (Len(got[c]) + 1) /\ Len(got[c]) \in Nat
        BY <1>5
      <4> QED
        BY <4>1, <4>2, <4>3
    <3>3. ASSUME NEW k \in 1 .. Len(ch'[c]) PROVE ch'[c][k].n = Len(got'[c]) + k /\ ch'[c][k].id = c
      <4>1. k \in 1 .. (Len(ch[c]) - 1) /\ k + 1 \in 1 .. Len(ch[c])
        BY <1>5
      <4>2. ch[c][k + 1].n = Len(got[c]) + (k + 1) /\ ch[c][k + 1].id = c
        BY <3>1, <4>1 DEF Numbered
      <4>3. ch'[c][k] = ch[c][k + 1] /\ Len(got[c]) \in Nat /\ Len(got'[c]) = Len(got[c]) + 1 /\ k \in Nat
        BY <1>5, <4>1, SMTT(20)
      <4>4. Len(got[c]) + (k + 1) = (Len(got[c]) + 1) + k
        <5>1. \A m, j \in Nat : m + (j + 1) = (m + 1) + j
          OBVIOUS
        <5> QED
          BY <4>3, <5>1, Zenon
      <4> QED
        BY <4>2, <4>3, <4>4, Zenon
    <3>4. Through(c)' <= answered'[c]
      BY <1>2, <1>9, <3>1 DEF Numbered
    <3> QED
      BY <3>2, <3>3, <3>4 DEF Numbered
  <2>2. ASSUME NEW d \in Calls, d # c PROVE Numbered(d)'
    <3>1. Numbered(d)
      BY <1>0 DEF ThroughInv
    <3>2. got'[d] = got[d] /\ ch'[d] = ch[d] /\ Through(d)' = Through(d) /\ answered'[d] = answered[d]
      BY <1>2, <1>3, <1>9, <2>2
    <3> QED
      BY <3>1, <3>2 DEF Numbered
  <2>3. \A s \in Stages : NextOne(s)'
    BY <1>0, <1>2, <1>9 DEF ThroughInv, NextOne
  <2> QED
    BY <2>1, <2>2, <2>3 DEF ThroughInv
<1>11. RouteInv' /\ \A s \in Stages : Lane(s)' = Lane(s)
  <2>1. wire' = wire /\ reader' = reader /\ recvCh' = recvCh /\ worker' = worker
    BY <1>2
  <2>2. \A s \in Stages : worker'[s].at \in Steps => Addressed(worker'[s].packet) /\ worker'[s].packet.dest = s
    BY <1>0, <2>1, Zenon DEF RouteInv
  <2>3. RouteInv'
    BY <1>0, <2>1, <2>2, RouteKept, Zenon
  <2>4. \A s \in Stages : Lane(s)' = Lane(s)
    BY <2>1 DEF Lane, Slot
  <2> QED
    BY <2>3, <2>4
<1>12. \A d \in Calls : Fed(d)' => Fed(d)
  BY <1>1, <1>2, <1>3 DEF Fed
<1> QED
  BY <1>0, <1>2, <1>6, <1>7, <1>8, <1>9, <1>10, <1>11, <1>12, LanesSame DEF IInv

\* receivePackets takes a packet off the stream.
LEMMA ReceivePacketStep ==
  ASSUME IInv, ReceivePacket
  PROVE  IInv'
<1>0. TypeInv /\ RouteInv /\ AskInv /\ DemuxInv /\ ThroughInv /\ LaneInv
  BY DEF IInv
<1>1. /\ reader = Idle /\ wire # <<>> /\ reader' = Holding("dispatch", Head(wire)) /\ wire' = Tail(wire)
      /\ UNCHANGED <<demux, pipeCtx, got, ch, recvCh, worker>> /\ CallsSame
  BY DEF ReceivePacket, callVars, demuxVars, sendVars, hostVars, ctxVars, CallsSame
<1>2. /\ wire \in Seq(Packet) /\ Len(wire) \in Nat \ {0} /\ Head(wire) = wire[1] /\ Head(wire) \in Packet
      /\ wire' \in Seq(Packet) /\ Len(wire') = Len(wire) - 1
      /\ \A k \in 1 .. Len(wire') : wire'[k] = wire[k + 1] /\ k + 1 \in 1 .. Len(wire)
  BY <1>0, <1>1 DEF TypeInv
<1>3. reader' \in Readers /\ Slot(reader') = Head(wire) /\ Slot(reader) = Blank
  BY <1>1, <1>2, SlotPacket DEF Readers, Holding, Slot
<1>4. TypeInv'
  BY <1>0, <1>1, <1>2, <1>3 DEF TypeInv, CallsSame
<1>5. RouteInv'
  <2>1. 1 \in 1 .. Len(wire)
    BY <1>2
  <2>2. Addressed(Head(wire)) /\ \A k \in 1 .. Len(wire') : Addressed(wire'[k])
    BY <1>0, <1>2, <2>1 DEF RouteInv
  <2>3. Addressed(Slot(reader'))
    BY <1>3, <2>2
  <2> QED
    BY <1>0, <1>1, <2>2, <2>3 DEF RouteInv, Addressed, Slot, Blank
<1>6. AskInv' /\ DemuxInv' /\ \A c \in Calls : Fed(c)' => Fed(c)
  BY <1>0, <1>1, CallsKept DEF TypeInv
<1>7. ThroughInv' /\ \A c \in Calls : Through(c)' = Through(c)
  BY <1>0, <1>1, ThroughSame DEF CallsSame
<1>8. ASSUME NEW c \in Calls, Fed(c)'
      PROVE  Exactly(Lane(StageOf[c]), c, Through(c), answered[c])'
  <2> DEFINE s == StageOf[c]
  <2>1. Through(c) \in Nat /\ answered[c] \in Nat /\ s \in Stages
    BY <1>0, ThroughNat
  <2>2. Slot(worker[s]) \in Packet /\ recvCh[s] \in Seq(Packet) /\ Blank \in Packet /\ Blank.id # c
    BY <1>0, <2>1, SlotPacket, ConstantsOK DEF TypeInv
  <2>3. Exactly(Chain(Slot(worker[s]), recvCh[s], Blank, wire), c, Through(c), answered[c])
    BY <1>0, <1>3, <1>6, <1>8, LaneIs DEF LaneInv
  <2>4. Exactly(Chain(Slot(worker[s]), recvCh[s], Head(wire), Tail(wire)), c, Through(c), answered[c])
    BY <1>1, <1>2, <2>1, <2>2, <2>3, ChainFetch
  <2>5. Lane(s)' = Chain(Slot(worker[s]), recvCh[s], Head(wire), Tail(wire))
    BY <1>1, <1>3, LaneIs
  <2> QED
    BY <1>1, <1>7, <2>4, <2>5 DEF CallsSame
<1>9. LaneInv'
  BY <1>8 DEF LaneInv
<1> QED
  BY <1>4, <1>5, <1>6, <1>7, <1>9 DEF IInv

\* A goroutine between packets ends: its stage, or receivePackets.
LEMMA EndStep ==
  ASSUME IInv, ReceiveError \/ \E s \in Stages : StageCtxDone(s)
  PROVE  IInv'
<1>0. TypeInv /\ RouteInv /\ AskInv /\ DemuxInv /\ ThroughInv /\ LaneInv
  BY DEF IInv
<1>1. /\ UNCHANGED <<got, ch, wire, recvCh>> /\ CallsSame /\ demux' \subseteq demux /\ pipeCtx' = TRUE
      /\ reader' = reader \/ (reader = Idle /\ reader' = Exited)
  <2>1. pipeCtx => pipeCtx = TRUE
    BY <1>0 DEF TypeInv
  <2> QED
    BY <2>1 DEF ReceiveError, StageCtxDone, callVars, demuxVars, sendVars, hostVars, streamVars, ctxVars, CallsSame
<1>2. /\ worker' \in [Stages -> Workers]
      /\ \A s \in Stages : worker'[s] = worker[s] \/ (worker[s] = Idle /\ worker'[s] = Exited)
  <2>1. CASE ReceiveError
    BY <1>0, <2>1 DEF TypeInv, ReceiveError
  <2>2. ASSUME NEW s \in Stages, StageCtxDone(s)
        PROVE  /\ worker' \in [Stages -> Workers]
               /\ \A t \in Stages : worker'[t] = worker[t] \/ (worker[t] = Idle /\ worker'[t] = Exited)
    <3>1. worker[s] = Idle /\ worker' = [worker EXCEPT ![s] = Exited] /\ Exited \in Workers
      BY <2>2 DEF StageCtxDone, Workers
    <3> QED
      BY <1>0, <3>1 DEF TypeInv
  <2> QED
    BY <2>1, <2>2
<1>3. Exited.at = "exited" /\ Exited \in Readers
  BY DEF Exited, Readers
<1>4. Slot(reader') = Slot(reader) /\ \A s \in Stages : Slot(worker'[s]) = Slot(worker[s])
  BY <1>1, <1>2, SlotPacket
<1>5. TypeInv'
  BY <1>0, <1>1, <1>2, <1>3 DEF TypeInv, CallsSame
<1>6. RouteInv'
  <2>1. \A s \in Stages : worker'[s].at \in Steps => Addressed(worker'[s].packet) /\ worker'[s].packet.dest = s
    BY <1>0, <1>2, <1>3 DEF RouteInv, Steps
  <2> QED
    BY <1>0, <1>1, <1>4, <2>1, RouteKept
<1>7. AskInv' /\ DemuxInv' /\ \A c \in Calls : Fed(c)' => Fed(c)
  BY <1>0, <1>1, CallsKept
<1>8. ThroughInv' /\ \A c \in Calls : Through(c)' = Through(c)
  BY <1>0, <1>1, <1>2, <1>3, ThroughSame DEF CallsSame
<1>9. \A s \in Stages : Lane(s)' = Lane(s)
  BY <1>1, <1>4, LaneIs
<1> QED
  BY <1>0, <1>1, <1>5, <1>6, <1>7, <1>8, <1>9, LanesSame DEF IInv, CallsSame

\* What every packet step needs to know of a call and its lane.
LEMMA LaneParts ==
  ASSUME TypeInv, LaneInv, NEW c \in Calls, Fed(c)
  PROVE  LET s == StageOf[c]
         IN  /\ s \in Stages /\ Through(c) \in Nat /\ answered[c] \in Nat
             /\ Slot(worker[s]) \in Packet /\ recvCh[s] \in Seq(Packet)
             /\ Slot(reader) \in Packet /\ wire \in Seq(Packet)
             /\ Blank \in Packet /\ Blank.id # c
             /\ Exactly(Chain(Slot(worker[s]), recvCh[s], Slot(reader), wire), c, Through(c), answered[c])
<1>1. StageOf[c] \in Stages /\ Through(c) \in Nat /\ answered[c] \in Nat
  BY ThroughNat
<1>2. Slot(worker[StageOf[c]]) \in Packet /\ Slot(reader) \in Packet /\ Blank \in Packet /\ Blank.id = NoCall
  BY <1>1, SlotPacket DEF TypeInv
<1>3. Exactly(Chain(Slot(worker[StageOf[c]]), recvCh[StageOf[c]], Slot(reader), wire), c, Through(c), answered[c])
  BY LaneIs DEF LaneInv
<1> QED
  BY <1>1, <1>2, <1>3, ConstantsOK DEF TypeInv

\* dispatch hands a packet to its stage, or finds none.
LEMMA DispatchStep ==
  ASSUME IInv, Dispatch \/ DispatchUnhandled
  PROVE  IInv'
<1>0. TypeInv /\ RouteInv /\ AskInv /\ DemuxInv /\ ThroughInv /\ LaneInv
  BY DEF IInv
<1>1. /\ reader.at = "dispatch" /\ reader' = Idle
      /\ UNCHANGED <<demux, pipeCtx, got, ch, wire, worker>> /\ CallsSame
  BY DEF Dispatch, DispatchUnhandled, callVars, demuxVars, sendVars, hostVars, streamVars, ctxVars, CallsSame
<1>2. PICK p : p = reader.packet
  OBVIOUS
<1>3. p \in Packet /\ Slot(reader) = p /\ Addressed(p) /\ Slot(reader') = Blank /\ Idle \in Readers
  BY <1>0, <1>1, <1>2, SlotPacket DEF TypeInv, RouteInv, Readers
<1>4. \/ \E s \in Stages : p.dest = s /\ recvCh' = [recvCh EXCEPT ![s] = Append(recvCh[s], p)]
      \/ p.dest \notin Stages /\ recvCh' = recvCh
  BY <1>2, Zenon DEF Dispatch, DispatchUnhandled, Filter
<1>5. /\ \A s \in Stages : IF p.dest = s THEN recvCh'[s] = Append(recvCh[s], p) ELSE recvCh'[s] = recvCh[s]
      /\ recvCh' \in [Stages -> Seq(Packet)]
  <2>1. \A s \in Stages : recvCh[s] \in Seq(Packet) /\ Append(recvCh[s], p) \in Seq(Packet)
    BY <1>0, <1>3 DEF TypeInv
  <2> QED
    BY <1>0, <1>4, <2>1, Zenon DEF TypeInv
<1>6. TypeInv'
  BY <1>0, <1>1, <1>3, <1>5 DEF TypeInv, CallsSame
<1>7. RouteInv'
  <2>1. Addressed(Slot(reader'))
    BY <1>3, SlotPacket, ConstantsOK DEF Addressed
  <2>2. ASSUME NEW s \in Stages, NEW k \in 1 .. Len(recvCh'[s])
        PROVE  Addressed(recvCh'[s][k]) /\ recvCh'[s][k].dest = s
    <3>1. CASE p.dest # s
      BY <1>0, <1>5, <2>2, <3>1 DEF RouteInv
    <3>2. CASE p.dest = s
      <4>1. recvCh[s] \in Seq(Packet) /\ recvCh'[s] = Append(recvCh[s], p)
        BY <1>0, <1>5, <3>2 DEF TypeInv
      <4>2. \/ k \in 1 .. Len(recvCh[s]) /\ recvCh'[s][k] = recvCh[s][k]
            \/ recvCh'[s][k] = p
        BY <1>3, <2>2, <4>1
      <4> QED
        BY <1>0, <1>3, <3>2, <4>2 DEF RouteInv
    <3> QED
      BY <3>1, <3>2, Zenon
  <2> QED
    BY <1>0, <1>1, <2>1, <2>2, Zenon DEF RouteInv, Addressed, Slot, Blank
<1>8. AskInv' /\ DemuxInv' /\ \A c \in Calls : Fed(c)' => Fed(c)
  BY <1>0, <1>1, CallsKept DEF TypeInv
<1>9. ThroughInv' /\ \A c \in Calls : Through(c)' = Through(c)
  BY <1>0, <1>1, ThroughSame DEF CallsSame
<1>10. ASSUME NEW c \in Calls, Fed(c)'
       PROVE  Exactly(Lane(StageOf[c]), c, Through(c), answered[c])'
  <2> DEFINE s == StageOf[c]
  <2>1. /\ s \in Stages /\ Through(c) \in Nat /\ answered[c] \in Nat
        /\ Slot(worker[s]) \in Packet /\ recvCh[s] \in Seq(Packet)
        /\ wire \in Seq(Packet) /\ Blank \in Packet /\ Blank.id # c
        /\ Exactly(Chain(Slot(worker[s]), recvCh[s], p, wire), c, Through(c), answered[c])
    BY <1>0, <1>3, <1>8, <1>10, LaneParts, Zenon
  <2>2. Lane(s)' = Chain(Slot(worker[s]), recvCh'[s], Blank, wire)
    BY <1>1, <1>3, LaneIs, Zenon
  <2>3. Exactly(Chain(Slot(worker[s]), recvCh'[s], Blank, wire), c, Through(c), answered[c])
    <3>1. CASE p.dest = s
      BY <1>3, <1>5, <2>1, <3>1, ChainQueue, ZenonT(30)
    <3>2. CASE p.dest # s
      <4>1. p.id # c
        BY <1>3, <3>2 DEF Addressed
      <4>2. recvCh'[s] = recvCh[s]
        BY <1>5, <2>1, <3>2, Zenon
      <4> QED
        BY <1>3, <2>1, <4>1, <4>2, ChainOther, ZenonT(30)
    <3> QED
      BY <3>1, <3>2, Zenon
  <2> QED
    BY <1>1, <1>9, <2>2, <2>3, Zenon DEF CallsSame
<1>11. LaneInv'
  BY <1>10 DEF LaneInv
<1> QED
  BY <1>6, <1>7, <1>8, <1>9, <1>11 DEF IInv

\* No packet of a call is under way before the call has begun.
LEMMA NotYet ==
  ASSUME TypeInv, AskInv, LaneInv, NEW c \in Calls, pc[c] = "idle"
  PROVE  Slot(worker[StageOf[c]]).id # c
<1>1. Fed(c)
  BY DEF Fed
<1>2. answered[c] = 0
  BY DEF AskInv
<1>3. Slot(worker[StageOf[c]]).id = c => Through(c) + 1 <= answered[c]
  BY <1>1, LaneParts, ChainFirst, Zenon
<1>4. Through(c) \in Nat
  BY ThroughNat
<1> QED
  BY <1>2, <1>3, <1>4

\* The stage takes a packet from its queue.
LEMMA StageTakeStep ==
  ASSUME IInv, NEW s \in Stages, StageTake(s)
  PROVE  IInv'
<1>0. TypeInv /\ RouteInv /\ AskInv /\ DemuxInv /\ ThroughInv /\ LaneInv
  BY DEF IInv
<1>1. /\ worker[s] = Idle /\ recvCh[s] # <<>>
      /\ worker' = [worker EXCEPT ![s] = Holding("load", Head(recvCh[s]))]
      /\ recvCh' = [recvCh EXCEPT ![s] = Tail(recvCh[s])]
      /\ UNCHANGED <<demux, pipeCtx, got, ch, wire, reader>> /\ CallsSame
  BY DEF StageTake, callVars, demuxVars, sendVars, hostVars, streamVars, ctxVars, CallsSame
<1>2. PICK r, p : r = recvCh[s] /\ p = Head(r)
  OBVIOUS
<1>3. /\ r \in Seq(Packet) /\ p \in Packet /\ Len(r) \in Nat \ {0} /\ p = r[1] /\ Tail(r) \in Seq(Packet)
      /\ Len(Tail(r)) = Len(r) - 1
      /\ \A k \in 1 .. Len(Tail(r)) : Tail(r)[k] = r[k + 1] /\ k + 1 \in 1 .. Len(r)
  <2>1. r \in Seq(Packet) /\ r # <<>>
    BY <1>0, <1>1, <1>2 DEF TypeInv
  <2> QED
    BY <1>2, <2>1
<1>4. /\ worker'[s] = Holding("load", p) /\ recvCh'[s] = Tail(r)
      /\ \A t \in Stages : t # s => worker'[t] = worker[t] /\ recvCh'[t] = recvCh[t]
  BY <1>0, <1>1, <1>2 DEF TypeInv
<1>5. Holding("load", p) \in Workers /\ worker'[s].at = "load" /\ worker'[s].packet = p
  BY <1>3, <1>4 DEF Holding, Workers, Steps
<1>6. TypeInv'
  <2>1. worker' \in [Stages -> Workers] /\ recvCh' \in [Stages -> Seq(Packet)]
    BY <1>0, <1>1, <1>2, <1>3, <1>5 DEF TypeInv
  <2> QED
    BY <1>0, <1>1, <2>1 DEF TypeInv, CallsSame
<1>7. RouteInv'
  <2>1. \A k \in 1 .. Len(r) : Addressed(r[k]) /\ r[k].dest = s
    BY <1>0, <1>2 DEF RouteInv
  <2>2. Addressed(p) /\ p.dest = s
    BY <1>3, <2>1
  <2>3. \A t \in Stages : \A k \in 1 .. Len(recvCh'[t]) : Addressed(recvCh'[t][k]) /\ recvCh'[t][k].dest = t
    <3>1. \A k \in 1 .. Len(Tail(r)) : Addressed(Tail(r)[k]) /\ Tail(r)[k].dest = s
      BY <1>3, <2>1
    <3> QED
      BY <1>0, <1>4, <3>1, Zenon DEF RouteInv
  <2>4. \A t \in Stages : worker'[t].at \in Steps => Addressed(worker'[t].packet) /\ worker'[t].packet.dest = t
    BY <1>0, <1>4, <1>5, <2>2, Zenon DEF RouteInv
  <2> QED
    BY <1>0, <1>1, <2>3, <2>4, Zenon DEF RouteInv, Addressed, Slot, Blank
<1>8. AskInv' /\ DemuxInv' /\ \A c \in Calls : Fed(c)' => Fed(c)
  BY <1>0, <1>1, CallsKept DEF TypeInv
<1>9. ThroughInv' /\ \A c \in Calls : Through(c)' = Through(c)
  BY <1>0, <1>1, <1>4, <1>5, ThroughSame DEF CallsSame
<1>10. ASSUME NEW c \in Calls, Fed(c)'
       PROVE  Exactly(Lane(StageOf[c]), c, Through(c), answered[c])'
  <2>1. CASE StageOf[c] # s
    <3>1. StageOf[c] \in Stages
      BY ConstantsOK
    <3>2. Lane(StageOf[c])' = Lane(StageOf[c])
      BY <1>1, <1>4, <2>1, <3>1, LaneIs
    <3> QED
      BY <1>0, <1>1, <1>8, <1>9, <1>10, <3>2, Zenon DEF LaneInv, CallsSame
  <2>2. CASE StageOf[c] = s
    <3>1. /\ Through(c) \in Nat /\ answered[c] \in Nat /\ Slot(reader) \in Packet /\ wire \in Seq(Packet)
          /\ Blank \in Packet /\ Blank.id # c /\ Slot(worker[s]) = Blank
          /\ Exactly(Chain(Blank, r, Slot(reader), wire), c, Through(c), answered[c])
      BY <1>0, <1>1, <1>2, <1>8, <1>10, <2>2, LaneParts, SlotPacket, Zenon
    <3>2. Exactly(Chain(p, Tail(r), Slot(reader), wire), c, Through(c), answered[c])
      BY <1>1, <1>2, <1>3, <3>1, ChainTake, Zenon
    <3>3. Slot(worker'[s]) = p
      BY <1>5 DEF Slot
    <3>4. Lane(s)' = Chain(p, Tail(r), Slot(reader), wire)
      BY <1>1, <1>4, <3>3, LaneIs, Zenon
    <3> QED
      BY <1>1, <1>9, <2>2, <3>2, <3>4, Zenon DEF CallsSame
  <2> QED
    BY <2>1, <2>2, Zenon
<1>11. LaneInv'
  BY <1>10 DEF LaneInv
<1> QED
  BY <1>6, <1>7, <1>8, <1>9, <1>11 DEF IInv

(* The stage lets go of a packet that has no handler or whose handler's    *)
(* context is done: no call that is still fed misses it.                   *)
LEMMA DropStep ==
  ASSUME IInv, NEW s \in Stages, StageNoHandler(s) \/ StageHandlerClosed(s) \/ AcceptCtxDone(s)
  PROVE  IInv'
<1>0. TypeInv /\ RouteInv /\ AskInv /\ DemuxInv /\ ThroughInv /\ LaneInv
  BY DEF IInv
<1>1. /\ worker[s].at \in Steps /\ worker' = [worker EXCEPT ![s] = Idle]
      /\ UNCHANGED <<pipeCtx, got, ch, wire, reader, recvCh>> /\ CallsSame
  BY Zenon DEF StageNoHandler, StageHandlerClosed, AcceptCtxDone, Steps, callVars, demuxVars, sendVars, hostVars,
         streamVars, ctxVars, CallsSame
<1>2. PICK p : p = worker[s].packet
  OBVIOUS
<1>3. /\ demux' \subseteq demux
      /\ \/ p.id \notin Handlers(s) /\ demux' = demux
         \/ cancelled[p.id] /\ demux \ {p.id} \subseteq demux'
  BY <1>2, Zenon DEF StageNoHandler, StageHandlerClosed, AcceptCtxDone, demuxVars
<1>4. /\ worker'[s] = Idle /\ \A t \in Stages : t # s => worker'[t] = worker[t]
      /\ worker' \in [Stages -> Workers] /\ Idle.at = "select"
  BY <1>0, <1>1, Zenon DEF TypeInv, Workers, Idle
<1>5. TypeInv'
  BY <1>0, <1>1, <1>3, <1>4 DEF TypeInv, CallsSame
<1>6. RouteInv'
  <2>1. \A t \in Stages : worker'[t].at \in Steps => Addressed(worker'[t].packet) /\ worker'[t].packet.dest = t
    BY <1>0, <1>4 DEF RouteInv, Steps
  <2> QED
    BY <1>0, <1>1, <2>1, RouteKept
<1>7. AskInv' /\ DemuxInv' /\ \A c \in Calls : Fed(c)' => Fed(c)
  BY <1>0, <1>1, <1>3, CallsKept DEF TypeInv
<1>8. ThroughInv' /\ \A c \in Calls : Through(c)' = Through(c)
  BY <1>0, <1>1, <1>4, ThroughSame DEF CallsSame
<1>9. ASSUME NEW c \in Calls, Fed(c)'
      PROVE  Exactly(Lane(StageOf[c]), c, Through(c), answered[c])'
  <2>1. CASE StageOf[c] # s
    <3>1. StageOf[c] \in Stages
      BY ConstantsOK
    <3>2. Lane(StageOf[c])' = Lane(StageOf[c])
      BY <1>1, <1>4, <2>1, <3>1, LaneIs
    <3> QED
      BY <1>0, <1>1, <1>7, <1>8, <1>9, <3>2, Zenon DEF LaneInv, CallsSame
  <2>2. CASE StageOf[c] = s
    <3>1. p \in Packet /\ Slot(worker[s]) = p
      BY <1>0, <1>1, <1>2, SlotPacket DEF TypeInv
    <3>2. p.id # c
      <4>1. CASE pc[c] = "idle"
        BY <1>0, <2>2, <3>1, <4>1, NotYet
      <4>2. CASE c \in demux' /\ ~cancelled[c]
        BY <1>3, <2>2, <4>2 DEF Handlers
      <4> QED
        BY <1>1, <1>9, <4>1, <4>2, Zenon DEF Fed, CallsSame
    <3>3. /\ Through(c) \in Nat /\ answered[c] \in Nat /\ Slot(reader) \in Packet /\ wire \in Seq(Packet)
          /\ Blank \in Packet /\ Blank.id # c /\ recvCh[s] \in Seq(Packet)
          /\ Exactly(Chain(p, recvCh[s], Slot(reader), wire), c, Through(c), answered[c])
      BY <1>0, <1>7, <1>9, <2>2, <3>1, LaneParts, Zenon
    <3>4. Exactly(Chain(Blank, recvCh[s], Slot(reader), wire), c, Through(c), answered[c])
      BY <3>1, <3>2, <3>3, ChainOther, Zenon
    <3>5. Lane(s)' = Chain(Blank, recvCh[s], Slot(reader), wire)
      BY <1>1, <1>4, SlotPacket, LaneIs
    <3> QED
      BY <1>1, <1>8, <2>2, <3>4, <3>5, Zenon DEF CallsSame
  <2> QED
    BY <2>1, <2>2, Zenon
<1>10. LaneInv'
  BY <1>9, Zenon DEF LaneInv
<1> QED
  BY <1>5, <1>6, <1>7, <1>8, <1>10 DEF IInv

\* The stage found the handler alive: what it holds is the call's next packet.
LEMMA StageHandlerFoundStep ==
  ASSUME IInv, NEW s \in Stages, StageHandlerFound(s)
  PROVE  IInv'
<1>0. TypeInv /\ RouteInv /\ AskInv /\ DemuxInv /\ ThroughInv /\ LaneInv
  BY DEF IInv
<1>1. /\ worker[s].at = "load" /\ worker' = [worker EXCEPT ![s] = [worker[s] EXCEPT !.at = "accept"]]
      /\ UNCHANGED <<demux, pipeCtx, got, ch, wire, reader, recvCh>> /\ CallsSame
  BY Zenon DEF StageHandlerFound, callVars, demuxVars, sendVars, hostVars, streamVars, ctxVars, CallsSame
<1>2. PICK p : p = worker[s].packet
  OBVIOUS
<1>3. p.id \in demux /\ StageOf[p.id] = s /\ ~cancelled[p.id]
  BY <1>2, Zenon DEF StageHandlerFound, Handlers
<1>4. p \in Packet /\ Slot(worker[s]) = p
  BY <1>0, <1>1, <1>2, SlotPacket DEF TypeInv, Workers, Idle, Exited, Steps
<1>5. /\ worker'[s].at = "accept" /\ worker'[s].packet = p /\ worker'[s] \in Workers
      /\ \A t \in Stages : t # s => worker'[t] = worker[t]
  <2>1. worker[s] \in [at : Steps, packet : Packet]
    BY <1>0, <1>1 DEF TypeInv, Workers, Idle, Exited
  <2>2. PICK v : v = [worker[s] EXCEPT !.at = "accept"]
    BY Zenon
  <2>3. v.at = "accept" /\ v.packet = p /\ v \in [at : Steps, packet : Packet]
    BY <1>2, <2>1, <2>2 DEF Steps
  <2>4. worker' = [worker EXCEPT ![s] = v]
    BY <1>1, <2>2
  <2> QED
    BY <1>0, <2>3, <2>4 DEF TypeInv, Workers
<1>6. TypeInv'
  <2>1. worker' \in [Stages -> Workers]
    BY <1>0, <1>1, <1>5, Zenon DEF TypeInv
  <2> QED
    BY <1>0, <1>1, <2>1 DEF TypeInv, CallsSame
<1>7. RouteInv'
  <2>1. \A t \in Stages : worker'[t].at \in Steps => Addressed(worker'[t].packet) /\ worker'[t].packet.dest = t
    BY <1>0, <1>1, <1>2, <1>5 DEF RouteInv, Steps
  <2> QED
    BY <1>0, <1>1, <2>1, RouteKept
<1>8. AskInv' /\ DemuxInv' /\ \A c \in Calls : Fed(c)' => Fed(c)
  BY <1>0, <1>1, CallsKept DEF TypeInv
<1>9. \A c : Through(c)' = Through(c)
  BY <1>1 DEF Through
<1>10. p.id \in Calls /\ p.n = Through(p.id) + 1 /\ p.n <= answered[p.id]
  <2>1. PICK c \in Calls : c = p.id /\ Fed(c)
    BY <1>0, <1>3 DEF TypeInv, Fed
  <2>2. Slot(worker[StageOf[c]]) = p
    BY <1>3, <1>4, <2>1
  <2>3. p.n = Through(c) + 1 /\ Through(c) + 1 <= answered[c]
    <3>1. /\ Through(c) \in Nat /\ answered[c] \in Nat
          /\ recvCh[StageOf[c]] \in Seq(Packet) /\ Slot(reader) \in Packet /\ wire \in Seq(Packet) /\ p \in Packet
          /\ Exactly(Chain(p, recvCh[StageOf[c]], Slot(reader), wire), c, Through(c), answered[c])
      BY <1>0, <2>1, <2>2, LaneParts, Zenon
    <3> QED
      BY <2>1, <3>1, ChainFirst, Zenon
  <2> QED
    BY <2>1, <2>3
<1>11. ThroughInv'
  <2>1. \A c \in Calls : Numbered(c)'
    BY <1>0, <1>1, <1>9 DEF ThroughInv, Numbered, CallsSame
  <2>2. NextOne(s)'
    BY <1>1, <1>3, <1>5, <1>9, <1>10 DEF NextOne, CallsSame
  <2>3. \A t \in Stages : t # s => NextOne(t)'
    BY <1>0, <1>1, <1>5, <1>9 DEF ThroughInv, NextOne, CallsSame
  <2> QED
    BY <2>1, <2>2, <2>3 DEF ThroughInv
<1>12. \A t \in Stages : Lane(t)' = Lane(t)
  <2>1. Slot(worker'[s]) = p
    BY <1>5 DEF Slot
  <2>2. \A t \in Stages : Slot(worker'[t]) = Slot(worker[t])
    BY <1>4, <1>5, <2>1
  <2> QED
    BY <1>1, <2>2, LaneIs
<1> QED
  BY <1>0, <1>1, <1>6, <1>7, <1>8, <1>9, <1>11, <1>12, LanesSame DEF IInv, CallsSame

LEMMA Extended ==
  ASSUME NEW h \in Seq(Packet), NEW p \in Packet
  PROVE  /\ Len(h) \in Nat /\ Append(h, p) \in Seq(Packet) /\ Len(Append(h, p)) = Len(h) + 1
         /\ \A k \in 1 .. Len(h) : Append(h, p)[k] = h[k]
         /\ Append(h, p)[Len(h) + 1] = p
OBVIOUS

\* Accept puts the packet into the channel of its call.
LEMMA AcceptStep ==
  ASSUME IInv, NEW s \in Stages, Accept(s)
  PROVE  IInv'
<1>0. TypeInv /\ RouteInv /\ AskInv /\ DemuxInv /\ ThroughInv /\ LaneInv
  BY DEF IInv
<1>1. /\ worker[s].at = "accept" /\ worker' = [worker EXCEPT ![s] = Idle]
      /\ UNCHANGED <<demux, pipeCtx, got, wire, reader, recvCh>> /\ CallsSame
  BY DEF Accept, callVars, demuxVars, sendVars, hostVars, streamVars, ctxVars, CallsSame
<1>2. PICK p, e : p = worker[s].packet /\ e = p.id
  OBVIOUS
<1>3. ch' = [ch EXCEPT ![e] = Append(ch[e], p)]
  BY <1>2, Zenon DEF Accept
<1>4. /\ e \in Calls /\ StageOf[e] = s /\ p.n = Through(e) + 1 /\ p.n <= answered[e]
      /\ p \in Packet /\ Slot(worker[s]) = p
  <2>1. e \in Calls /\ StageOf[e] = s /\ p.n = Through(e) + 1 /\ p.n <= answered[e]
    BY <1>0, <1>1, <1>2 DEF ThroughInv, NextOne
  <2>2. p \in Packet /\ Slot(worker[s]) = p
    BY <1>0, <1>1, <1>2, SlotPacket DEF TypeInv, Workers, Idle, Exited, Steps
  <2> QED
    BY <2>1, <2>2
<1>5. /\ worker'[s] = Idle /\ \A t \in Stages : t # s => worker'[t] = worker[t]
      /\ worker' \in [Stages -> Workers] /\ Idle.at = "select"
  BY <1>0, <1>1, Zenon DEF TypeInv, Workers, Idle
<1>6. /\ \A c \in Calls : c # e => ch'[c] = ch[c]
      /\ ch'[e] = Append(ch[e], p)
  BY <1>0, <1>3, <1>4 DEF TypeInv
<1>7. /\ Len(ch[e]) \in Nat /\ Len(got[e]) \in Nat /\ ch'[e] \in Seq(Packet) /\ Len(ch'[e]) = Len(ch[e]) + 1
      /\ \A k \in 1 .. Len(ch[e]) : ch'[e][k] = ch[e][k]
      /\ ch'[e][Len(ch[e]) + 1] = p
  <2>1. got[e] \in Seq(Packet) /\ ch[e] \in Seq(Packet)
    BY <1>0, <1>4 DEF TypeInv
  <2>2. Len(got[e]) \in Nat
    BY <1>4, <2>1, Extended, Zenon
  <2>3. /\ Len(ch[e]) \in Nat /\ Append(ch[e], p) \in Seq(Packet) /\ Len(Append(ch[e], p)) = Len(ch[e]) + 1
        /\ \A k \in 1 .. Len(ch[e]) : Append(ch[e], p)[k] = ch[e][k]
        /\ Append(ch[e], p)[Len(ch[e]) + 1] = p
    BY <1>4, <2>1, Extended, Zenon
  <2> QED
    BY <1>6, <2>2, <2>3, Zenon
<1>8. TypeInv'
  <2>1. ch' \in [Calls -> Seq(Packet)]
    BY <1>0, <1>3, <1>6, <1>7, Zenon DEF TypeInv
  <2> QED
    BY <1>0, <1>1, <1>5, <2>1 DEF TypeInv, CallsSame
<1>9. RouteInv'
  <2>1. \A t \in Stages : worker'[t].at \in Steps => Addressed(worker'[t].packet) /\ worker'[t].packet.dest = t
    BY <1>0, <1>5, Zenon DEF RouteInv, Steps
  <2> QED
    BY <1>0, <1>1, <2>1, RouteKept
<1>10. AskInv' /\ DemuxInv' /\ \A c \in Calls : Fed(c)' => Fed(c)
  BY <1>0, <1>1, CallsKept DEF TypeInv
<1>11. Through(e)' = Through(e) + 1 /\ \A c \in Calls : c # e => Through(c)' = Through(c)
  <2>1. Through(e) = Len(got[e]) + Len(ch[e]) /\ Through(e)' = Len(got[e]) + Len(ch'[e])
    BY <1>1 DEF Through
  <2>2. Len(ch[e]) \in Nat /\ Len(got[e]) \in Nat /\ Len(ch'[e]) = Len(ch[e]) + 1
    BY <1>7
  <2>3. \A m, k \in Nat : m + (k + 1) = (m + k) + 1
    OBVIOUS
  <2>4. Through(e)' = Through(e) + 1
    BY <2>1, <2>2, <2>3, Zenon
  <2>5. \A c \in Calls : c # e => Through(c)' = Through(c)
    BY <1>1, <1>6, Zenon DEF Through
  <2> QED
    BY <2>4, <2>5
<1>12. ThroughInv'
  <2>1. Numbered(e)'
    <3>1. Numbered(e)
      BY <1>0, <1>4 DEF ThroughInv
    <3>2. ASSUME NEW k \in 1 .. Len(ch'[e]) PROVE ch'[e][k].n = Len(got[e]) + k /\ ch'[e][k].id = e
      <4>1. CASE k \in 1 .. Len(ch[e])
        BY <1>7, <3>1, <4>1, SMTT(20) DEF Numbered
      <4>2. CASE k = Len(ch[e]) + 1
        <5>1. ch'[e][k] = p /\ p.id = e /\ p.n = Through(e) + 1 /\ Through(e) = Len(got[e]) + Len(ch[e])
          BY <1>2, <1>4, <1>7, <4>2, Zenon DEF Through
        <5>2. Len(ch[e]) \in Nat /\ Len(got[e]) \in Nat
          BY <1>7
        <5>3. \A m, j \in Nat : (m + j) + 1 = m + (j + 1)
          OBVIOUS
        <5> QED
          BY <4>2, <5>1, <5>2, <5>3, Zenon
      <4>3. k \in 1 .. (Len(ch[e]) + 1) /\ Len(ch[e]) \in Nat
        BY <1>7
      <4> QED
        BY <4>1, <4>2, <4>3
    <3>3. Through(e)' <= answered'[e]
      BY <1>1, <1>4, <1>11 DEF CallsSame
    <3> QED
      BY <1>1, <3>1, <3>2, <3>3 DEF Numbered
  <2>2. ASSUME NEW c \in Calls, c # e PROVE Numbered(c)'
    <3>1. Numbered(c)
      BY <1>0 DEF ThroughInv
    <3>2. got'[c] = got[c] /\ ch'[c] = ch[c] /\ Through(c)' = Through(c) /\ answered'[c] = answered[c]
      BY <1>1, <1>6, <1>11, <2>2 DEF CallsSame
    <3> QED
      BY <3>1, <3>2 DEF Numbered
  <2>3. ASSUME NEW t \in Stages PROVE NextOne(t)'
    <3>1. CASE t = s
      BY <1>5, <3>1 DEF NextOne
    <3>2. CASE t # s
      <4>1. worker'[t] = worker[t] /\ NextOne(t)
        BY <1>0, <1>5, <3>2 DEF ThroughInv
      <4>2. worker[t].at = "accept" => worker[t].packet.id # e
        BY <1>4, <3>2, <4>1, Zenon DEF NextOne
      <4> QED
        BY <1>1, <1>11, <4>1, <4>2 DEF NextOne, CallsSame
    <3> QED
      BY <3>1, <3>2
  <2> QED
    BY <2>1, <2>2, <2>3 DEF ThroughInv
<1>13. ASSUME NEW c \in Calls, Fed(c)'
       PROVE  Exactly(Lane(StageOf[c]), c, Through(c), answered[c])'
  <2>1. CASE StageOf[c] # s
    <3>1. StageOf[c] \in Stages /\ c # e
      BY <1>4, <2>1, ConstantsOK
    <3>2. Lane(StageOf[c])' = Lane(StageOf[c])
      BY <1>1, <1>5, <2>1, <3>1, LaneIs
    <3> QED
      BY <1>0, <1>1, <1>10, <1>11, <1>13, <3>1, <3>2, Zenon DEF LaneInv, CallsSame
  <2>2. CASE StageOf[c] = s
    <3>1. /\ Through(c) \in Nat /\ answered[c] \in Nat /\ Slot(reader) \in Packet /\ wire \in Seq(Packet)
          /\ Blank \in Packet /\ Blank.id # c /\ recvCh[s] \in Seq(Packet)
          /\ Exactly(Chain(p, recvCh[s], Slot(reader), wire), c, Through(c), answered[c])
      BY <1>0, <1>4, <1>10, <1>13, <2>2, LaneParts, Zenon
    <3>2. Exactly(Chain(Blank, recvCh[s], Slot(reader), wire), c, Through(c)', answered[c])
      <4>1. CASE c = e
        <5>1. p.id = c /\ p \in Packet /\ Through(c)' = Through(c) + 1
          BY <1>2, <1>4, <1>11, <4>1, Zenon
        <5>2. Exactly(Chain(Blank, recvCh[s], Slot(reader), wire), c, Through(c) + 1, answered[c])
          BY <3>1, <5>1, ChainAccept, Zenon
        <5> QED
          BY <5>1, <5>2, Zenon
      <4>2. CASE c # e
        <5>1. p.id # c /\ p \in Packet /\ Through(c)' = Through(c)
          BY <1>2, <1>4, <1>11, <4>2, Zenon
        <5>2. Exactly(Chain(Blank, recvCh[s], Slot(reader), wire), c, Through(c), answered[c])
          BY <3>1, <5>1, ChainOther, Zenon
        <5> QED
          BY <5>1, <5>2, Zenon
      <4> QED
        BY <4>1, <4>2
    <3>3. Lane(s)' = Chain(Blank, recvCh[s], Slot(reader), wire)
      BY <1>1, <1>5, SlotPacket, LaneIs
    <3> QED
      BY <1>1, <2>2, <3>2, <3>3, Zenon DEF CallsSame
  <2> QED
    BY <2>1, <2>2, Zenon
<1>14. LaneInv'
  BY <1>13 DEF LaneInv
<1> QED
  BY <1>8, <1>9, <1>10, <1>12, <1>14 DEF IInv

\* A packet on the stream is the next answer of its call, or answers no call.
LEMMA WireStep ==
  ASSUME IInv, NEW p \in Packet, Addressed(p), wire' = Append(wire, p),
         p.id \in Calls => p.id \in asked /\ p.n = answered[p.id] + 1,
         answered' \in [Calls -> Nat],
         \A c \in Calls : answered'[c] = IF p.id = c THEN answered[c] + 1 ELSE answered[c],
         UNCHANGED <<pc, cancelled, got, demux, ch, sendCh, asked, pipeCtx, reader, recvCh, worker>>
  PROVE  IInv'
<1>0. TypeInv /\ RouteInv /\ AskInv /\ DemuxInv /\ ThroughInv /\ LaneInv
  BY Zenon DEF IInv
<1>1. /\ wire \in Seq(Packet) /\ Len(wire) \in Nat /\ wire' \in Seq(Packet) /\ Len(wire') = Len(wire) + 1
      /\ \A k \in 1 .. Len(wire) : wire'[k] = wire[k]
      /\ wire'[Len(wire) + 1] = p
  BY <1>0, Extended, Zenon DEF TypeInv
<1>2. TypeInv'
  BY <1>0, <1>1 DEF TypeInv
<1>3. RouteInv'
  <2>1. \A k \in 1 .. Len(wire') : k \in 1 .. Len(wire) \/ k = Len(wire) + 1
    BY <1>1
  <2>2. \A k \in 1 .. Len(wire') : Addressed(wire'[k])
    BY <1>0, <1>1, <2>1 DEF RouteInv
  <2> QED
    BY <1>0, <2>2, ZenonT(30) DEF RouteInv, Addressed, Slot, Blank
<1>4. AskInv' /\ DemuxInv' /\ \A c \in Calls : Fed(c)' => Fed(c)
  BY <1>0 DEF AskInv, DemuxInv, Fed
<1>5. \A c : Through(c)' = Through(c)
  BY DEF Through
<1>6. \A c \in Calls : answered[c] \in Nat /\ answered[c] <= answered'[c]
  <2>1. \A c \in Calls : answered[c] \in Nat
    BY <1>0 DEF TypeInv
  <2>2. \A c \in Calls : answered'[c] = answered[c] \/ answered'[c] = answered[c] + 1
    OBVIOUS
  <2>3. \A n \in Nat : n <= n /\ n <= n + 1
    OBVIOUS
  <2> QED
    BY <2>1, <2>2, <2>3, Zenon
<1>7. ThroughInv'
  <2>1. ASSUME NEW c \in Calls PROVE Numbered(c)'
    <3>1. Numbered(c) /\ Through(c) \in Nat /\ answered[c] \in Nat /\ answered'[c] \in Nat
      BY <1>0, ThroughNat, Zenon DEF ThroughInv
    <3>2. Through(c)' <= answered'[c]
      <4>1. Through(c) <= answered[c] /\ Through(c)' = Through(c) /\ answered[c] <= answered'[c]
        BY <1>5, <1>6, <3>1, Zenon DEF Numbered
      <4> QED
        BY <3>1, <4>1, LeqTrans, Zenon
    <3> QED
      BY <3>1, <3>2, Zenon DEF Numbered
  <2>2. ASSUME NEW s \in Stages PROVE NextOne(s)'
    <3>1. NextOne(s) /\ worker'[s] = worker[s]
      BY <1>0 DEF ThroughInv
    <3>2. \A c \in Calls, n \in Nat : n <= answered[c] => n <= answered'[c]
      BY <1>6
    <3>3. worker[s].at = "accept" => worker[s].packet.n \in Nat
      <4>1. worker[s] \in Workers
        BY <1>0 DEF TypeInv
      <4>2. worker[s].at = "accept" => worker[s] \in [at : Steps, packet : Packet]
        BY <4>1 DEF Workers, Idle, Exited
      <4> QED
        BY <4>2, Zenon DEF Packet
    <3> QED
      BY <1>5, <3>1, <3>2, <3>3, Zenon DEF NextOne
  <2> QED
    BY <2>1, <2>2 DEF ThroughInv
<1>8. ASSUME NEW c \in Calls, Fed(c)'
      PROVE  Exactly(Lane(StageOf[c]), c, Through(c), answered[c])'
  <2> DEFINE s == StageOf[c]
  <2>1. /\ s \in Stages /\ Through(c) \in Nat /\ answered[c] \in Nat
        /\ Slot(worker[s]) \in Packet /\ recvCh[s] \in Seq(Packet)
        /\ Slot(reader) \in Packet /\ wire \in Seq(Packet)
        /\ Exactly(Chain(Slot(worker[s]), recvCh[s], Slot(reader), wire), c, Through(c), answered[c])
    BY <1>0, <1>4, <1>8, LaneParts, Zenon
  <2>2. Through(c) <= answered[c]
    BY <1>0, Zenon DEF ThroughInv, Numbered
  <2>3. Exactly(Chain(Slot(worker[s]), recvCh[s], Slot(reader), Append(wire, p)), c, Through(c), answered'[c])
    <3>1. CASE p.id = c
      <4>1. answered'[c] = answered[c] + 1 /\ p.n = answered[c] + 1
        BY <3>1, Zenon
      <4>2. Exactly(Chain(Slot(worker[s]), recvCh[s], Slot(reader), Append(wire, p)), c, Through(c), answered[c] + 1)
        BY <2>1, <2>2, <3>1, <4>1, ChainSend, Zenon
      <4> QED
        BY <4>1, <4>2, Zenon
    <3>2. CASE p.id # c
      <4>1. answered'[c] = answered[c]
        BY <3>2, Zenon
      <4> QED
        BY <2>1, <2>2, <3>2, <4>1, ChainSend, Zenon
    <3> QED
      BY <3>1, <3>2, Zenon
  <2>4. Lane(s)' = Chain(Slot(worker[s]), recvCh[s], Slot(reader), Append(wire, p))
    BY LaneIs, Zenon
  <2> QED
    BY <1>5, <2>3, <2>4, Zenon
<1>9. LaneInv'
  BY <1>8, Zenon DEF LaneInv
<1> QED
  BY <1>2, <1>3, <1>4, <1>7, <1>9, Zenon DEF IInv

LEMMA HostAnswersStep ==
  ASSUME IInv, NEW c \in Calls, HostAnswers(c)
  PROVE  IInv'
<1>1. TypeInv /\ answered[c] \in Nat /\ StageOf[c] \in Stages
  BY ConstantsOK, Zenon DEF IInv, TypeInv
<1>2. PICK p : p = Answer(c)
  OBVIOUS
<1>3. p \in Packet /\ Addressed(p) /\ p.id = c /\ p.n = answered[c] + 1
  <2>1. PICK n \in Nat : n = answered[c] + 1
    BY <1>1
  <2>2. p = [id |-> c, n |-> n, dest |-> StageOf[c]]
    BY <1>2, <2>1, Zenon DEF Answer
  <2>3. p.id = c /\ p.n = n /\ p.dest = StageOf[c] /\ p \in Packet
    BY <1>1, <2>1, <2>2, Zenon DEF Packet
  <2> QED
    BY <2>1, <2>3, Zenon DEF Addressed
<1>4. /\ c \in asked /\ wire' = Append(wire, p) /\ answered' = [answered EXCEPT ![c] = answered[c] + 1]
      /\ UNCHANGED <<pc, cancelled, got, demux, ch, sendCh, asked, pipeCtx, reader, recvCh, worker>>
  BY <1>2, Zenon DEF HostAnswers, callVars, demuxVars, sendVars, recvVars, ctxVars
<1>5. /\ answered' \in [Calls -> Nat]
      /\ \A d \in Calls : answered'[d] = IF p.id = d THEN answered[d] + 1 ELSE answered[d]
  <2>1. answered \in [Calls -> Nat] /\ answered[c] + 1 \in Nat
    BY <1>1 DEF TypeInv
  <2>2. answered' = [answered EXCEPT ![c] = answered[c] + 1] /\ p.id = c
    BY <1>3, <1>4
  <2> QED
    BY <2>1, <2>2, Zenon
<1> QED
  BY <1>3, <1>4, <1>5, WireStep

LEMMA HostNoiseStep ==
  ASSUME IInv, NEW d \in Stages \cup {NoStage}, HostNoise(d)
  PROVE  IInv'
<1>1. TypeInv
  BY DEF IInv
<1>2. PICK p : p = [id |-> NoCall, n |-> 1, dest |-> d]
  BY Zenon
<1>3. p \in Packet /\ p.id \notin Calls /\ Addressed(p)
  BY <1>2, ConstantsOK DEF Packet, Addressed
<1>4. /\ wire' = Append(wire, p) /\ answered' = answered
      /\ UNCHANGED <<pc, cancelled, got, demux, ch, sendCh, asked, pipeCtx, reader, recvCh, worker>>
  BY <1>2 DEF HostNoise, callVars, demuxVars, sendVars, recvVars, ctxVars
<1>5. /\ answered' \in [Calls -> Nat]
      /\ \A c \in Calls : answered'[c] = IF p.id = c THEN answered[c] + 1 ELSE answered[c]
  BY <1>1, <1>3, <1>4 DEF TypeInv
<1> QED
  BY <1>3, <1>4, <1>5, WireStep

-----------------------------------------------------------------------------
LEMMA IInvInit == Init => IInv
<1> SUFFICES ASSUME Init PROVE IInv
  OBVIOUS
<1>1. TypeInv
  <2>1. /\ pc \in [Calls -> States] /\ cancelled \in [Calls -> BOOLEAN] /\ answered \in [Calls -> Nat]
        /\ pipeCtx \in BOOLEAN /\ demux \subseteq Calls /\ asked \subseteq Calls
    BY Zenon DEF Init, States
  <2>2. <<>> \in Seq(Packet) /\ <<>> \in Seq(Calls)
    OBVIOUS
  <2>3. /\ got \in [Calls -> Seq(Packet)] /\ ch \in [Calls -> Seq(Packet)] /\ recvCh \in [Stages -> Seq(Packet)]
        /\ wire \in Seq(Packet) /\ sendCh \in Seq(Calls)
    BY <2>2, Zenon DEF Init
  <2>4. reader \in Readers /\ worker \in [Stages -> Workers]
    BY Zenon DEF Init, Readers, Workers
  <2> QED
    BY <2>1, <2>3, <2>4 DEF TypeInv
<1>2. Idle.at = "select" /\ Slot(Idle) = Blank /\ Blank \in Packet /\ Blank.id = NoCall
  BY SlotPacket DEF Idle
<1>3. \A s \in Stages : recvCh[s] = <<>> /\ worker[s] = Idle
  BY DEF Init
<1>4. RouteInv
  <2>1. wire = <<>> /\ reader = Idle
    BY Zenon DEF Init
  <2>2. \A k \in 1 .. Len(wire) : FALSE
    BY <2>1, EmptyRange, Zenon
  <2>3. Addressed(Slot(reader))
    BY <1>2, <2>1, ConstantsOK DEF Addressed
  <2>4. \A s \in Stages : \A k \in 1 .. Len(recvCh[s]) : FALSE
    BY <1>3, EmptyRange, Zenon
  <2>5. \A s \in Stages : worker[s].at \notin Steps
    BY <1>2, <1>3 DEF Steps
  <2> QED
    BY <2>2, <2>3, <2>4, <2>5, Zenon DEF RouteInv
<1>5. AskInv /\ DemuxInv
  BY DEF Init, AskInv, DemuxInv
<1>6. ThroughInv
  BY <1>2, <1>3 DEF Init, ThroughInv, Numbered, NextOne, Through
<1>7. ASSUME NEW c \in Calls
      PROVE  Exactly(Lane(StageOf[c]), c, Through(c), answered[c])
  <2>1. StageOf[c] \in Stages /\ answered[c] = 0 /\ Through(c) = 0 /\ wire = <<>> /\ reader = Idle
    BY ConstantsOK DEF Init, Through
  <2>2. Lane(StageOf[c]) = Chain(Blank, <<>>, Blank, <<>>)
    BY <1>2, <1>3, <2>1, LaneIs, Zenon
  <2>3. PICK e : e = <<>>
    OBVIOUS
  <2>4. e \in Seq(Packet) /\ Len(e) = 0
    BY <2>3
  <2>5. ChainIs(Chain(Blank, e, Blank, e), Blank, e, Blank, e)
    BY <1>2, <2>4, ChainAt, Zenon
  <2>6. PICK q : q = Chain(Blank, e, Blank, e)
    OBVIOUS
  <2>7. Len(q) = 2 /\ q[1] = Blank /\ q[2] = Blank
    BY <2>4, <2>5, <2>6 DEF ChainIs
  <2>8. \A i \in 1 .. Len(q) : q[i].id # c
    <3>1. \A i \in 1 .. 2 : i = 1 \/ i = 2
      OBVIOUS
    <3> QED
      BY <1>2, <2>7, <3>1, ConstantsOK
  <2>9. Lane(StageOf[c]) = q
    BY <2>2, <2>3, <2>6, Zenon
  <2>10. \A m \in (0 + 1) .. 0 : FALSE
    OBVIOUS
  <2> QED
    BY <2>1, <2>8, <2>9, <2>10, Zenon DEF Exactly
<1>8. LaneInv
  BY <1>7 DEF LaneInv
<1> QED
  BY <1>1, <1>4, <1>5, <1>6, <1>8 DEF IInv

LEMMA IInvStep == IInv /\ [Next]_vars => IInv'
<1> SUFFICES ASSUME IInv, [Next]_vars PROVE IInv'
  OBVIOUS
<1>1. ASSUME NEW c \in Calls, Register(c) \/ Caller(c) \/ CancelCall(c) \/ HostAnswers(c)
      PROVE  IInv'
  BY <1>1, RegisterStep, SendQueuedStep, LeaveStep, RecvPacketStep, CancelStep, HostAnswersStep DEF Caller
<1>2. CASE Sender \/ Reader \/ RunReturns
  BY <1>2, SenderStep, QuietStep, ReceivePacketStep, EndStep, DispatchStep DEF Sender, Reader
<1>3. ASSUME NEW s \in Stages, Worker(s)
      PROVE  IInv'
  BY <1>3, EndStep, StageTakeStep, DropStep, StageHandlerFoundStep, AcceptStep DEF Worker
<1>4. ASSUME NEW d \in Stages \cup {NoStage}, HostNoise(d)
      PROVE  IInv'
  BY <1>4, HostNoiseStep
<1>5. CASE HostHalfCloses \/ BuildEnds \/ UNCHANGED vars
  BY <1>5, QuietStep, CancelStep
<1> QED
  BY <1>1, <1>2, <1>3, <1>4, <1>5 DEF Next

LEMMA Invariant == Spec => []IInv
<1> QED
  BY IInvInit, IInvStep, PTL DEF Spec

-----------------------------------------------------------------------------
(***************************************************************************)
(* What the invariant says of all that a call got or may still get.        *)
(***************************************************************************)

TrailIs(q, g, h, l) ==
  /\ q \in Seq(Packet) /\ Len(q) = Len(g) + Len(h) + Len(l)
  /\ \A i \in 1 .. Len(g) : q[i] = g[i]
  /\ \A i \in 1 .. Len(h) : q[Len(g) + i] = h[i]
  /\ \A i \in 1 .. Len(l) : q[Len(g) + Len(h) + i] = l[i]

LEMMA TrailAt ==
  ASSUME NEW g \in Seq(Packet), NEW h \in Seq(Packet), NEW l \in Seq(Packet)
  PROVE  TrailIs(g \o h \o l, g, h, l)
<1> DEFINE gh == g \o h
<1> DEFINE q == gh \o l
<1>1. /\ gh \in Seq(Packet) /\ Len(gh) = Len(g) + Len(h)
      /\ \A i \in 1 .. Len(g) : gh[i] = g[i]
      /\ \A i \in 1 .. Len(h) : gh[Len(g) + i] = h[i]
  BY Concatenated
<1> HIDE DEF gh
<1>2. /\ q \in Seq(Packet) /\ Len(q) = Len(gh) + Len(l)
      /\ \A i \in 1 .. Len(gh) : q[i] = gh[i]
      /\ \A i \in 1 .. Len(l) : q[Len(gh) + i] = l[i]
  BY <1>1, Concatenated, Zenon
<1>3. q = g \o h \o l
  BY DEF q, gh
<1> HIDE DEF q
<1>4. Len(g) \in Nat /\ Len(h) \in Nat /\ Len(l) \in Nat
  OBVIOUS
<1>5. /\ \A i \in 1 .. Len(g) : i \in 1 .. (Len(g) + Len(h))
      /\ \A i \in 1 .. Len(h) : Len(g) + i \in 1 .. (Len(g) + Len(h))
  BY <1>4
<1>6. TrailIs(q, g, h, l)
  BY <1>1, <1>2, <1>5 DEF TrailIs
<1> QED
  BY <1>3, <1>6

(* What came through, numbered from one, followed by a lane that holds     *)
(* exactly the rest: the packets of the call are 1 .. a, in order.         *)
LEMMA TrailExact ==
  ASSUME NEW g \in Seq(Packet), NEW h \in Seq(Packet), NEW l \in Seq(Packet), NEW c, NEW a \in Nat,
         \A k \in 1 .. Len(g) : g[k].n = k /\ g[k].id = c,
         \A k \in 1 .. Len(h) : h[k].n = Len(g) + k /\ h[k].id = c,
         Len(g) + Len(h) <= a, Exactly(l, c, Len(g) + Len(h), a)
  PROVE  LET q == g \o h \o l
         IN  /\ {q[i].n : i \in Own(q, c)} = 1 .. a
             /\ \A i, j \in Own(q, c) : i < j => q[i].n < q[j].n
<1>1. PICK q : q = g \o h \o l
  BY Zenon
<1>2. TrailIs(q, g, h, l)
  BY <1>1, TrailAt
<1>3. PICK G, t, L : G = Len(g) /\ t = Len(g) + Len(h) /\ L = Len(l)
  BY Zenon
<1>4. /\ G \in Nat /\ t \in Nat /\ L \in Nat /\ G <= t /\ t <= a /\ Len(q) = t + L /\ DOMAIN q = 1 .. (t + L)
      /\ Len(h) = t - G
  BY <1>2, <1>3 DEF TrailIs
<1>5. \A i \in 1 .. t : q[i].n = i /\ q[i].id = c
  <2>1. ASSUME NEW i \in 1 .. G PROVE q[i].n = i /\ q[i].id = c
    BY <1>2, <1>3 DEF TrailIs
  <2>2. ASSUME NEW i \in (G + 1) .. t PROVE q[i].n = i /\ q[i].id = c
    <3>1. i - G \in 1 .. (t - G) /\ G + (i - G) = i
      BY <1>4, SMTT(20)
    <3>2. \A k \in 1 .. (t - G) : q[G + k] = h[k] /\ h[k].n = G + k /\ h[k].id = c
      BY <1>2, <1>3, <1>4, Zenon DEF TrailIs
    <3> QED
      BY <3>1, <3>2
  <2>3. \A i \in 1 .. t : i \in 1 .. G \/ i \in (G + 1) .. t
    BY <1>4
  <2> QED
    BY <2>1, <2>2, <2>3
<1>6. \A k \in 1 .. L : q[t + k] = l[k]
  BY <1>2, <1>3 DEF TrailIs
<1>7. /\ \A k \in 1 .. L : l[k].id = c => l[k].n \in (t + 1) .. a
      /\ \A m \in (t + 1) .. a : \E k \in 1 .. L : l[k].id = c /\ l[k].n = m
      /\ \A j, k \in 1 .. L : l[j].id = c /\ l[k].id = c /\ j < k => l[j].n < l[k].n
  BY <1>3, Zenon DEF Exactly
<1>8. \A i \in DOMAIN q : i \in 1 .. t \/ (i - t \in 1 .. L /\ q[i] = l[i - t] /\ i > t)
  <2>1. \A i \in 1 .. (t + L) : i \in 1 .. t \/ (i - t \in 1 .. L /\ t + (i - t) = i /\ i > t)
    BY <1>4
  <2> QED
    BY <1>4, <1>6, <2>1, SMTT(20)
<1>9. \A i \in Own(q, c) : q[i].n \in 1 .. a
  <2>1. ASSUME NEW i \in Own(q, c) PROVE q[i].n \in 1 .. a
    <3>1. i \in DOMAIN q /\ q[i].id = c
      BY DEF Own
    <3>2. CASE i \in 1 .. t
      BY <1>4, <1>5, <3>2
    <3>3. CASE i - t \in 1 .. L /\ q[i] = l[i - t]
      <4>1. q[i].n \in (t + 1) .. a
        BY <1>7, <3>1, <3>3
      <4> QED
        BY <1>4, <4>1, SMTT(20)
    <3> QED
      BY <1>8, <3>1, <3>2, <3>3
  <2> QED
    BY <2>1
<1>10. \A m \in 1 .. a : \E i \in Own(q, c) : q[i].n = m
  <2>1. ASSUME NEW m \in 1 .. a PROVE \E i \in Own(q, c) : q[i].n = m
    <3>1. CASE m \in 1 .. t
      <4>1. m \in DOMAIN q /\ q[m].id = c /\ q[m].n = m
        BY <1>4, <1>5, <3>1
      <4> QED
        BY <4>1 DEF Own
    <3>2. CASE m \in (t + 1) .. a
      <4>1. PICK k \in 1 .. L : l[k].id = c /\ l[k].n = m
        BY <1>7, <3>2
      <4>2. t + k \in 1 .. (t + L)
        BY <1>4
      <4>3. t + k \in DOMAIN q /\ q[t + k] = l[k]
        BY <1>4, <1>6, <4>2
      <4> QED
        BY <4>1, <4>3 DEF Own
    <3> QED
      BY <1>4, <3>1, <3>2
  <2> QED
    BY <2>1
<1>11. \A i, j \in Own(q, c) : i < j => q[i].n < q[j].n
  <2>1. ASSUME NEW i \in Own(q, c), NEW j \in Own(q, c), i < j PROVE q[i].n < q[j].n
    <3>1. i \in DOMAIN q /\ q[i].id = c /\ j \in DOMAIN q /\ q[j].id = c
      BY DEF Own
    <3>2. CASE j \in 1 .. t
      <4>1. i \in 1 .. t
        BY <1>4, <2>1, <3>1, <3>2
      <4> QED
        BY <1>5, <2>1, <3>2, <4>1
    <3>3. CASE j - t \in 1 .. L /\ q[j] = l[j - t] /\ i \in 1 .. t
      <4>1. q[j].n \in (t + 1) .. a /\ q[i].n = i
        BY <1>5, <1>7, <3>1, <3>3, Zenon
      <4> QED
        BY <1>4, <3>3, <4>1, SMTT(20)
    <3>4. CASE j - t \in 1 .. L /\ q[j] = l[j - t] /\ i - t \in 1 .. L /\ q[i] = l[i - t]
      <4>1. i - t < j - t
        <5>1. i \in Nat /\ j \in Nat /\ t \in Nat
          <6>1. t + L \in Nat
            BY <1>4
          <6> QED
            BY <1>4, <3>1, <6>1, RangeNat, Zenon
        <5>2. \A x, y, z \in Nat : x < y => x - z < y - z
          OBVIOUS
        <5> QED
          BY <2>1, <5>1, <5>2, Zenon
      <4>2. PICK x, y : x = i - t /\ y = j - t
        OBVIOUS
      <4>3. x \in 1 .. L /\ y \in 1 .. L /\ x < y /\ l[x] = q[i] /\ l[y] = q[j]
        BY <3>4, <4>1, <4>2, Zenon
      <4>4. l[x].n < l[y].n
        BY <1>7, <3>1, <4>3, Zenon
      <4> QED
        BY <4>3, <4>4, Zenon
    <3> QED
      BY <1>8, <3>1, <3>2, <3>3, <3>4
  <2> QED
    BY <2>1
<1>12. {q[i].n : i \in Own(q, c)} = 1 .. a
  BY <1>9, <1>10, Zenon
<1> QED
  BY <1>1, <1>11, <1>12, Zenon

LEMMA KeptIfInv == IInv => NoReplyLost
<1> SUFFICES ASSUME IInv, NEW c \in Calls, pc[c] \in {"sending", "waiting"}, ~cancelled[c], ~pipeCtx
             PROVE  LET q == Trail(c)
                    IN  /\ {q[i].n : i \in Own(q, c)} = 1 .. answered[c]
                        /\ \A i, j \in Own(q, c) : i < j => q[i].n < q[j].n
  BY Zenon DEF NoReplyLost
<1>0. TypeInv /\ RouteInv /\ AskInv /\ DemuxInv /\ ThroughInv /\ LaneInv
  BY DEF IInv
<1>1. Fed(c)
  BY <1>0 DEF DemuxInv, Fed
<1>2. PICK g, h, l : g = got[c] /\ h = ch[c] /\ l = Lane(StageOf[c])
  OBVIOUS
<1>3. g \in Seq(Packet) /\ h \in Seq(Packet) /\ l \in Seq(Packet) /\ answered[c] \in Nat
  <2>1. l = Chain(Slot(worker[StageOf[c]]), recvCh[StageOf[c]], Slot(reader), wire)
    BY <1>2, LaneIs, Zenon
  <2>2. l \in Seq(Packet)
    BY <1>0, <1>1, <2>1, LaneParts, ChainAt, Zenon DEF ChainIs
  <2> QED
    BY <1>0, <1>2, <2>2 DEF TypeInv
<1>4. Exactly(l, c, Len(g) + Len(h), answered[c])
  BY <1>0, <1>1, <1>2, Zenon DEF LaneInv, Through
<1>5. /\ \A k \in 1 .. Len(g) : g[k].n = k /\ g[k].id = c
      /\ \A k \in 1 .. Len(h) : h[k].n = Len(g) + k /\ h[k].id = c
      /\ Len(g) + Len(h) <= answered[c]
  BY <1>0, <1>2, Zenon DEF ThroughInv, Numbered, Through
<1>6. LET q == g \o h \o l
      IN  /\ {q[i].n : i \in Own(q, c)} = 1 .. answered[c]
          /\ \A i, j \in Own(q, c) : i < j => q[i].n < q[j].n
  <2>1. PICK a : a = answered[c]
    OBVIOUS
  <2>2. a \in Nat /\ Exactly(l, c, Len(g) + Len(h), a) /\ Len(g) + Len(h) <= a
    BY <1>3, <1>4, <1>5, <2>1, Zenon
  <2>3. LET q == g \o h \o l
        IN  /\ {q[i].n : i \in Own(q, c)} = 1 .. a
            /\ \A i, j \in Own(q, c) : i < j => q[i].n < q[j].n
    BY <1>3, <1>5, <2>2, TrailExact, Zenon
  <2> QED
    BY <2>1, <2>3, Zenon
<1>7. g \o h \o l = Trail(c)
  BY <1>2, Zenon DEF Trail
<1> QED
  BY <1>6, <1>7, Zenon

(* No answer is lost, whatever the number of calls and stages, the         *)
(* capacities of sendCh, recvCh and the Demultiplexers, and the order of   *)
(* the steps: while a call waits, its context lives and the pipeline runs, *)
(* the packets the host sent for it are what its Demultiplexer handed out  *)
(* or holds and what receivePackets and the stage's Run still carry, each  *)
(* once and in the order they were sent.                                   *)
THEOREM AnswersKept == Spec => []NoReplyLost
<1> QED
  BY Invariant, KeptIfInv, PTL

-----------------------------------------------------------------------------
(***************************************************************************)
(* The pipeline keeps the promise of RequestReply.                         *)
(***************************************************************************)

ToStatus(x) == CASE x = "sending" -> "issued" [] x = "waiting" -> "pending" [] OTHER -> x
StatusOf    == [c \in Calls |-> ToStatus(pc[c])]
ReceivedBy  == [c \in Calls |-> Numbers(got[c])]

LEMMA StatusNames ==
  /\ ToStatus("idle") = "idle" /\ ToStatus("sending") = "issued" /\ ToStatus("waiting") = "pending"
  /\ ToStatus("refused") = "refused" /\ ToStatus("done") = "done" /\ ToStatus("failed") = "failed"
BY DEF ToStatus

\* The mapped variables, and the steps of RequestReply in their terms.
LEMMA PromiseVars ==
  (UNCHANGED <<StatusOf, asked, answered, ReceivedBy>>) => UNCHANGED Promise!vars
BY DEF Promise!vars, StatusOf, ReceivedBy, ToStatus

Advance(from, to) ==
  \/ from = "idle" /\ to = "issued"
  \/ from = "issued" /\ to \in {"pending", "refused"}
  \/ from = "pending" /\ to = "failed"

LEMMA PromiseMoves ==
  ASSUME NEW c \in Calls, NEW to, Advance(StatusOf[c], to), StatusOf' = [StatusOf EXCEPT ![c] = to],
         UNCHANGED <<asked, answered, ReceivedBy>>
  PROVE  Promise!Next
BY Zenon DEF Promise!Next, Promise!Issue, Promise!Admit, Promise!Refuse, Promise!GiveUp, Promise!Move,
       Advance, StatusOf, ReceivedBy, ToStatus

LEMMA PromiseAsk ==
  ASSUME NEW c \in Calls, StatusOf[c] \in {"pending", "failed"}, c \notin asked, asked' = asked \cup {c},
         UNCHANGED <<StatusOf, answered, ReceivedBy>>
  PROVE  Promise!Next
BY DEF Promise!Next, Promise!Ask, StatusOf, ReceivedBy, ToStatus

LEMMA PromiseAnswer ==
  ASSUME NEW c \in Calls, c \in asked, answered' = [answered EXCEPT ![c] = answered[c] + 1],
         UNCHANGED <<StatusOf, asked, ReceivedBy>>
  PROVE  Promise!Next
BY Zenon DEF Promise!Next, Promise!HostAnswers, StatusOf, ReceivedBy, ToStatus

LEMMA PromiseDeliver ==
  ASSUME NEW c \in Calls, NEW k, k = Len(ReceivedBy[c]) + 1, StatusOf[c] = "pending", k <= answered[c],
         ReceivedBy' = [ReceivedBy EXCEPT ![c] = Append(ReceivedBy[c], k)],
         StatusOf' = [StatusOf EXCEPT ![c] = IF k = Replies[c] THEN "done" ELSE StatusOf[c]],
         UNCHANGED <<asked, answered>>
  PROVE  Promise!Next
BY Zenon DEF Promise!Next, Promise!Deliver, StatusOf, ReceivedBy, ToStatus

\* One call moves on.
LEMMA StatusMoves ==
  ASSUME TypeInv, NEW c \in Calls, NEW to, pc' = [pc EXCEPT ![c] = to]
  PROVE  StatusOf[c] = ToStatus(pc[c]) /\ StatusOf' = [StatusOf EXCEPT ![c] = ToStatus(to)]
<1>1. StatusOf[c] = ToStatus(pc[c])
  BY DEF StatusOf
<1>2. StatusOf' = [d \in Calls |-> ToStatus(pc'[d])]
  BY DEF StatusOf, ToStatus
<1>3. \A d \in Calls : pc'[d] = IF d = c THEN to ELSE pc[d]
  BY DEF TypeInv
<1>4. [StatusOf EXCEPT ![c] = ToStatus(to)] = [d \in Calls |-> IF d = c THEN ToStatus(to) ELSE ToStatus(pc[d])]
  BY Zenon DEF StatusOf
<1> QED
  BY <1>1, <1>2, <1>3, <1>4

\* The numbers of a longer sequence.
LEMMA NumbersLonger ==
  ASSUME NEW g \in Seq(Packet), NEW p \in Packet
  PROVE  Len(Numbers(g)) = Len(g) /\ Numbers(Append(g, p)) = Append(Numbers(g), p.n)
<1>1. PICK h : h = Append(g, p)
  BY Zenon
<1>2. /\ Len(g) \in Nat /\ Len(h) = Len(g) + 1 /\ h \in Seq(Packet) /\ h[Len(g) + 1] = p
      /\ \A k \in 1 .. Len(g) : h[k] = g[k]
  BY <1>1, Extended
<1>3. p.n \in Nat /\ \A k \in 1 .. Len(g) : g[k].n \in Nat
  <2>1. \A k \in 1 .. Len(g) : g[k] \in Packet
    OBVIOUS
  <2>2. \A r \in Packet : r.n \in Nat
    BY DEF Packet
  <2> QED
    BY <2>1, <2>2
<1>4. PICK m : m = [i \in 1 .. Len(g) |-> g[i].n]
  BY Zenon
<1>5. m \in Seq(Nat) /\ Len(m) = Len(g) /\ m = Numbers(g)
  BY <1>2, <1>3, <1>4 DEF Numbers
<1>6. PICK n : n = Append(m, p.n)
  BY Zenon
<1>7. /\ n \in [1 .. (Len(g) + 1) -> Nat] /\ n[Len(g) + 1] = p.n
      /\ \A k \in 1 .. Len(g) : n[k] = m[k]
  <2>1. ASSUME NEW x \in Seq(Nat), NEW y \in Nat
        PROVE  /\ Append(x, y) \in Seq(Nat) /\ Len(Append(x, y)) = Len(x) + 1
               /\ Append(x, y)[Len(x) + 1] = y /\ \A k \in 1 .. Len(x) : Append(x, y)[k] = x[k]
    OBVIOUS
  <2>2. /\ n \in Seq(Nat) /\ Len(n) = Len(g) + 1 /\ n[Len(g) + 1] = p.n
        /\ \A k \in 1 .. Len(g) : n[k] = m[k]
    BY <1>3, <1>5, <1>6, <2>1
  <2>3. n \in [1 .. Len(n) -> Nat]
    BY <2>2
  <2> QED
    BY <2>2, <2>3
<1>8. \A k \in 1 .. (Len(g) + 1) : n[k] = h[k].n
  <2>1. \A k \in 1 .. Len(g) : n[k] = h[k].n
    BY <1>2, <1>4, <1>7
  <2>2. \A k \in 1 .. (Len(g) + 1) : k \in 1 .. Len(g) \/ k = Len(g) + 1
    BY <1>2
  <2> QED
    BY <1>2, <1>7, <2>1, <2>2
<1>9. Numbers(h) = [k \in 1 .. (Len(g) + 1) |-> h[k].n]
  BY <1>2 DEF Numbers
<1>10. n = Numbers(h)
  BY <1>7, <1>8, <1>9
<1> QED
  BY <1>1, <1>5, <1>6, <1>10

LEMMA PromiseInit == Init => Promise!Init
<1> SUFFICES ASSUME Init PROVE Promise!Init
  OBVIOUS
<1>1. asked = {} /\ answered = [c \in Calls |-> 0]
  BY DEF Init
<1>2. StatusOf = [c \in Calls |-> "idle"]
  BY DEF Init, StatusOf, ToStatus
<1>3. ReceivedBy = [c \in Calls |-> <<>>]
  <2>1. Numbers(<<>>) = <<>>
    BY DEF Numbers
  <2>2. \A c \in Calls : got[c] = <<>>
    BY DEF Init
  <2> QED
    BY <2>1, <2>2 DEF ReceivedBy
<1> QED
  BY <1>1, <1>2, <1>3 DEF Promise!Init, StatusOf, ReceivedBy, ToStatus

\* The host's packet reaches the caller: the first one it has not seen.
LEMMA RecvDelivers ==
  ASSUME IInv, NEW c \in Calls, RecvPacket(c)
  PROVE  Promise!Next
<1>0. TypeInv /\ ThroughInv
  BY DEF IInv
<1>1. /\ pc[c] = "waiting" /\ ch[c] # <<>> /\ got' = [got EXCEPT ![c] = Append(got[c], Head(ch[c]))]
      /\ pc' = [pc EXCEPT ![c] = IF Enough(c) THEN "done" ELSE pc[c]]
      /\ UNCHANGED <<asked, answered>>
  BY Zenon DEF RecvPacket, hostVars
<1>2. PICK g, h, p, k : g = got[c] /\ h = ch[c] /\ p = Head(h) /\ k = Len(g) + 1
  OBVIOUS
<1>3. g \in Seq(Packet) /\ h \in Seq(Packet) /\ h # <<>> /\ answered[c] \in Nat
  BY <1>0, <1>1, <1>2 DEF TypeInv
<1>4. p \in Packet /\ p = h[1] /\ Len(g) \in Nat /\ Len(h) \in Nat \ {0} /\ 1 \in 1 .. Len(h)
  BY <1>2, <1>3
<1>5. p.n = k /\ k <= answered[c]
  <2>1. /\ \A i \in 1 .. Len(h) : h[i].n = Len(g) + i
        /\ Len(g) + Len(h) <= answered[c]
    BY <1>0, <1>2, Zenon DEF ThroughInv, Numbered, Through
  <2>2. p.n = Len(g) + 1
    BY <1>4, <2>1
  <2>3. \A m, n, a \in Nat : n # 0 /\ m + n <= a => m + 1 <= a
    OBVIOUS
  <2>4. Len(g) + 1 <= answered[c]
    BY <1>3, <1>4, <2>1, <2>3, Zenon
  <2> QED
    BY <1>2, <2>2, <2>4
<1>6. Len(Numbers(g)) = Len(g) /\ Numbers(Append(g, p)) = Append(Numbers(g), k)
  BY <1>3, <1>4, <1>5, NumbersLonger
<1>7. ReceivedBy[c] = Numbers(g) /\ k = Len(ReceivedBy[c]) + 1
  BY <1>2, <1>6 DEF ReceivedBy
<1>8. ReceivedBy' = [ReceivedBy EXCEPT ![c] = Append(ReceivedBy[c], k)]
  <2>1. ReceivedBy' = [d \in Calls |-> Numbers(got'[d])]
    BY DEF ReceivedBy, Numbers
  <2>2. \A d \in Calls : got'[d] = IF d = c THEN Append(g, p) ELSE got[d]
    BY <1>0, <1>1, <1>2 DEF TypeInv
  <2>3. [ReceivedBy EXCEPT ![c] = Append(ReceivedBy[c], k)]
          = [d \in Calls |-> IF d = c THEN Append(Numbers(g), k) ELSE Numbers(got[d])]
    BY <1>7, Zenon DEF ReceivedBy
  <2> QED
    BY <1>6, <2>1, <2>2, <2>3
<1>9. /\ StatusOf[c] = "pending"
      /\ StatusOf' = [StatusOf EXCEPT ![c] = IF k = Replies[c] THEN "done" ELSE StatusOf[c]]
  <2>1. PICK to : to = IF Enough(c) THEN "done" ELSE pc[c]
    OBVIOUS
  <2>2. StatusOf[c] = ToStatus(pc[c]) /\ StatusOf' = [StatusOf EXCEPT ![c] = ToStatus(to)]
    BY <1>0, <1>1, <2>1, StatusMoves, Zenon
  <2>3. ToStatus(to) = IF k = Replies[c] THEN "done" ELSE StatusOf[c]
    BY <1>1, <1>2, <2>1, <2>2, StatusNames, Zenon DEF Enough
  <2> QED
    BY <1>1, <2>2, <2>3, StatusNames
<1> QED
  BY <1>1, <1>5, <1>7, <1>8, <1>9, PromiseDeliver, Zenon

(* Register issues the call, Send admits or refuses it, sendPackets asks,  *)
(* Recv delivers or gives up; every other step stutters.                   *)
LEMMA PromiseStep ==
  ASSUME IInv, [Next]_vars
  PROVE  [Promise!Next]_(Promise!vars)
<1>0. TypeInv /\ AskInv
  BY DEF IInv
<1>1. ASSUME UNCHANGED <<pc, got, asked, answered>>
      PROVE  UNCHANGED Promise!vars
  <2>1. UNCHANGED <<StatusOf, ReceivedBy>>
    BY <1>1 DEF StatusOf, ReceivedBy, ToStatus, Numbers
  <2> QED
    BY <1>1, <2>1, PromiseVars
<1>2. ASSUME got' = got
      PROVE  ReceivedBy' = ReceivedBy
  BY <1>2 DEF ReceivedBy, Numbers
<1>3. ASSUME NEW c \in Calls, Register(c) \/ SendQueued(c) \/ SendTimeout(c) \/ RecvCtxDone(c)
      PROVE  Promise!Next
  <2>1. UNCHANGED <<asked, answered, ReceivedBy>>
    BY <1>2, <1>3 DEF Register, SendQueued, SendTimeout, RecvCtxDone, hostVars
  <2>2. PICK to : /\ pc' = [pc EXCEPT ![c] = to]
                  /\ \/ pc[c] = "idle" /\ to = "sending"
                     \/ pc[c] = "sending" /\ to \in {"waiting", "refused"}
                     \/ pc[c] = "waiting" /\ to = "failed"
    BY <1>3, Zenon DEF Register, SendQueued, SendTimeout, RecvCtxDone
  <2>3. Advance(ToStatus(pc[c]), ToStatus(to))
    BY <2>2, StatusNames DEF Advance
  <2>4. StatusOf[c] = ToStatus(pc[c]) /\ StatusOf' = [StatusOf EXCEPT ![c] = ToStatus(to)]
    BY <1>0, <2>2, StatusMoves, Zenon
  <2> QED
    BY <2>1, <2>3, <2>4, PromiseMoves, Zenon
<1>4. ASSUME NEW c \in Calls, HostAnswers(c)
      PROVE  Promise!Next
  <2>1. c \in asked /\ answered' = [answered EXCEPT ![c] = answered[c] + 1] /\ UNCHANGED <<pc, got, asked>>
    BY <1>4 DEF HostAnswers, callVars
  <2>2. UNCHANGED <<StatusOf, ReceivedBy>>
    BY <2>1 DEF StatusOf, ReceivedBy, ToStatus, Numbers
  <2> QED
    BY <2>1, <2>2, PromiseAnswer, Zenon
<1>5. CASE SendPacket
  <2>1. PICK c : c = Head(sendCh)
    OBVIOUS
  <2>2. sendCh # <<>> /\ asked' = asked \cup {c} /\ UNCHANGED <<pc, got, answered>>
    BY <1>5, <2>1 DEF SendPacket, callVars
  <2>3. c \in Calls /\ c = sendCh[1] /\ 1 \in 1 .. Len(sendCh)
    BY <1>0, <2>1, <2>2 DEF TypeInv
  <2>4. pc[c] \in {"waiting", "failed"} /\ c \notin asked
    BY <1>0, <2>3 DEF AskInv
  <2>5. StatusOf[c] \in {"pending", "failed"}
    BY <2>3, <2>4, StatusNames DEF StatusOf
  <2>6. UNCHANGED <<StatusOf, ReceivedBy>>
    BY <2>2 DEF StatusOf, ReceivedBy, ToStatus, Numbers
  <2> QED
    BY <2>2, <2>3, <2>4, <2>5, <2>6, PromiseAsk
<1>6. CASE \/ SendError \/ SenderCtxDone \/ Reader \/ RunReturns \/ HostHalfCloses \/ BuildEnds \/ UNCHANGED vars
           \/ \E c \in Calls : CancelOnReturn(c) \/ CancelCall(c)
           \/ \E d \in Stages \cup {NoStage} : HostNoise(d)
  BY <1>1, <1>6, Zenon DEF SendError, SenderCtxDone, Reader, ReceivePacket, ReceiveError, Dispatch, DispatchUnhandled,
                    RunReturns, HostHalfCloses, BuildEnds, CancelOnReturn, CancelCall, HostNoise,
                    vars, callVars, hostVars
<1>7. ASSUME NEW s \in Stages, Worker(s)
      PROVE  UNCHANGED Promise!vars
  BY <1>1, <1>7 DEF Worker, StageCtxDone, StageTake, StageNoHandler, StageHandlerClosed, StageHandlerFound,
                    Accept, AcceptCtxDone, callVars, hostVars
<1>8. ASSUME NEW c \in Calls, Register(c) \/ Caller(c) \/ CancelCall(c) \/ HostAnswers(c)
      PROVE  [Promise!Next]_(Promise!vars)
  BY <1>3, <1>4, <1>6, <1>8, RecvDelivers DEF Caller
<1> QED
  BY <1>5, <1>6, <1>7, <1>8 DEF Next, Sender

(* The pipeline implements RequestReply: for the code above it a call on   *)
(* the shared stream is a private, ordered exchange with the host.  A      *)
(* request refused by Send never reaches the host, one in sendCh reaches   *)
(* it at most once, and what Demultiplexer.Recv returns to the k-th read   *)
(* of a call is the k-th packet the host sent for it.                      *)
THEOREM Refinement == Spec => KeepsPromise
<1>1. Init => Promise!Init
  BY PromiseInit
<1>2. IInv /\ [Next]_vars => [Promise!Next]_(Promise!vars)
  BY PromiseStep
<1> QED
  BY <1>1, <1>2, Invariant, PTL DEF Spec, KeepsPromise, Promise!Spec
=============================================================================
