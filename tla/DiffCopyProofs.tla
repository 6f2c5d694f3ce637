--------------------------- MODULE DiffCopyProofs ---------------------------
(***************************************************************************)
(* Proofs about DiffCopy, for any number of entries, workers and packets.  *)
(*                                                                         *)
(* The entry with id x is entry x + 1 of the walk on both sides.  Packets  *)
(* of one kind (the announcements, or the contents of one file) pass over  *)
(* the shared stream in the order of their numbers; a request has at most  *)
(* one holder, from the files map to the worker that sends the file.       *)
(***************************************************************************)
EXTENDS DiffCopy, TLAPS, SequenceTheorems

StatPackets     == [type : {"STAT"}, path : Nat]
DataPackets(x)  == [type : {"DATA"}, id : {x}, path : Nat, n : Nat]
OtherPackets    == [type : {"LAST", "FIN", "ERR"}]
FilePackets     == [type : {"DATA"}, id : Ids, path : Nat, n : Nat]
OutPackets      == StatPackets \cup FilePackets \cup OtherPackets
InPackets       == [type : {"REQ"}, id : Ids] \cup [type : {"FIN", "ERR"}]
Jobs            == [id : Ids, path : Nat]
Busy            == [at : {"open", "asking", "reading", "sending"}, id : Ids, path : Nat, n : Nat]
Queueing        == [at : {"queue"}, id : Ids, path : Nat]

TypeInv ==
  /\ walker \in [at : {"entry", "stat", "storing", "last", "exited"}, entry : Nat, i : Nat]
  /\ files \in [DOMAIN files -> Nat] /\ DOMAIN files \subseteq Ids
  /\ pipe \in Seq(Jobs)
  /\ worker \in [Workers -> Busy \cup {Idle, Exited}]
  /\ reader \in Queueing \cup {[at |-> "top"], [at |-> "recv"], Exited}
  /\ ctx \in BOOLEAN
  /\ out \in Seq(OutPackets) /\ in \in Seq(InPackets)
  /\ stream \in {"open", "gone"} /\ peer \in {"active", "finished", "failed"}
  /\ stats \in Seq(Nat) /\ asked \subseteq Ids
  /\ data \in [Ids -> Seq(FilePackets)]

-----------------------------------------------------------------------------
\* The number of a packet among those of its kind.
Num(p) == IF p.type = "STAT" THEN p.path ELSE p.n

\* The packets of kind S on q are numbered from g + 1 to top, in this order.
Follows(q, S, g, top) ==
  /\ g <= top
  /\ \A k \in 1 .. Len(q) : q[k] \in S => Num(q[k]) \in (g + 1) .. top
  /\ \A j, k \in 1 .. Len(q) : j < k /\ q[j] \in S /\ q[k] \in S => Num(q[j]) < Num(q[k])
  /\ \A m \in (g + 1) .. top : \E k \in 1 .. Len(q) : q[k] \in S /\ Num(q[k]) = m

Working(w, x) == worker[w].at \in {"open", "asking", "reading", "sending"} /\ worker[w].id = x
Queued(x)     == reader.at = "queue" /\ reader.id = x
Piped(x)      == \E k \in 1 .. Len(pipe) : pipe[k].id = x
Unworked(x)   == \A w \in Workers : ~Working(w, x)

\* The file is in sendpipeline once, and with one worker.
Single(x) ==
  /\ \A j, k \in 1 .. Len(pipe) : pipe[j].id = x /\ pipe[k].id = x => j = k
  /\ \A v, w \in Workers : Working(v, x) /\ Working(w, x) => v = w

\* Nothing of the file has been sent.
Fresh(x) == data[x] = <<>> /\ Follows(out, DataPackets(x), 0, 0)

\* The walk's counter, its entry and what has been announced.
WalkInv ==
  /\ walker.i \in {walker.entry - 1, walker.entry} /\ walker.entry \in 1 .. (Entries + 1)
  /\ walker.at = "entry" => walker.i = walker.entry - 1
  /\ walker.at = "stat" => walker.i = walker.entry /\ walker.entry <= Entries
  /\ Follows(out, StatPackets, Len(stats), walker.entry - 1)
  /\ \A k \in 1 .. Len(stats) : stats[k] = k

\* Every copy of an id has the path of its entry, and a request behind it.
PathInv ==
  /\ \A x \in DOMAIN files : files[x] = x + 1 /\ x < walker.i
  /\ reader.at = "queue" => reader.id \in asked /\ reader.path = reader.id + 1
  /\ \A k \in 1 .. Len(pipe) : pipe[k].id \in asked /\ pipe[k].path = pipe[k].id + 1
  /\ \A w \in Workers : \A x \in Ids : Working(w, x) =>
       x \in asked /\ worker[w].path = x + 1 /\ worker[w].n \in 1 .. EndOfData
  /\ \A k \in 1 .. Len(out) : out[k].type = "DATA" =>
       out[k].id \in asked /\ out[k].path = out[k].id + 1 /\ out[k].n \in 1 .. EndOfData
  /\ \A k \in 1 .. Len(in) : in[k].type = "REQ" => in[k].id \in asked
  /\ \A x \in asked : x < Len(stats)

\* A request has one holder, and nothing is sent before a worker holds it.
HolderInv ==
  \A x \in Ids :
    /\ x \in DOMAIN files => Fresh(x) /\ ~Queued(x) /\ ~Piped(x) /\ Unworked(x)
    /\ Queued(x) => Fresh(x) /\ ~Piped(x) /\ Unworked(x)
    /\ Piped(x) => Fresh(x) /\ Unworked(x)
    /\ Single(x)

\* What BuildKit has of a file, what is on the way, and what its worker sends next.
ContentInv ==
  \A x \in Ids :
    /\ \A k \in 1 .. Len(data[x]) : data[x][k].path = x + 1 /\ data[x][k].n = k
    /\ data[x] # <<>> => x \in asked
    /\ \E top \in 0 .. EndOfData : Follows(out, DataPackets(x), Len(data[x]), top)
    /\ \A w \in Workers : Working(w, x) => Follows(out, DataPackets(x), Len(data[x]), worker[w].n - 1)

\* An announced file that was not asked for can be, and BuildKit finishes last.
AskInv ==
  /\ \A x \in Ids : x < walker.i /\ x + 1 \in Regular /\ x \notin asked => x \in DOMAIN files
  /\ \A k \in 1 .. Len(in) : in[k].type = "FIN" => peer = "finished"
  /\ peer = "finished" => \A x \in asked : Complete(x)

\* Where a request is, in the terms of this module: RequestsKept again.
Asking(x) == \E k \in 1 .. Len(in) : in[k] = Req(x)
Ending(x) == \E k \in 1 .. Len(out) : out[k].type = "DATA" /\ out[k].id = x /\ out[k].n = EndOfData
Kept(x) ==
  \/ Complete(x)
  \/ x \in DOMAIN files /\ Asking(x)
  \/ Queued(x) \/ Piped(x)
  \/ \E w \in Workers : Working(w, x)
  \/ Ending(x)
KeptInv == ~ctx /\ stream = "open" => \A x \in asked : Kept(x)

IInv == TypeInv /\ WalkInv /\ PathInv /\ HolderInv /\ ContentInv /\ AskInv /\ KeptInv

-----------------------------------------------------------------------------
(***************************************************************************)
(* Packets on the stream.                                                  *)
(***************************************************************************)

LEMMA FollowsAppendOther ==
  ASSUME NEW T, NEW q \in Seq(T), NEW p \in T, NEW S, p \notin S,
         NEW g \in Nat, NEW top \in Nat, Follows(q, S, g, top)
  PROVE  Follows(Append(q, p), S, g, top)
<1> DEFINE a == Append(q, p)
<1>1. /\ Len(q) \in Nat /\ Len(a) = Len(q) + 1 /\ a[Len(q) + 1] = p
      /\ \A k \in 1 .. Len(q) : a[k] = q[k]
  BY AppendProperties, LenProperties
<1> HIDE DEF a
<1>2. \A k \in 1 .. Len(a) : a[k] \in S => k \in 1 .. Len(q) /\ a[k] = q[k]
  BY <1>1
<1>3. ASSUME NEW m \in (g + 1) .. top
      PROVE  \E k \in 1 .. Len(a) : a[k] \in S /\ Num(a[k]) = m
  <2>1. PICK k \in 1 .. Len(q) : q[k] \in S /\ Num(q[k]) = m
    BY DEF Follows
  <2> QED
    BY <1>1, <2>1
<1>4. Follows(a, S, g, top)
  BY <1>2, <1>3, Zenon DEF Follows
<1> QED
  BY <1>4 DEF a

LEMMA FollowsAppendNext ==
  ASSUME NEW T, NEW q \in Seq(T), NEW p \in T, NEW S, p \in S,
         NEW g \in Nat, NEW top \in Nat, Follows(q, S, g, top), Num(p) = top + 1
  PROVE  Follows(Append(q, p), S, g, top + 1)
<1> DEFINE a == Append(q, p)
<1>1. /\ Len(q) \in Nat /\ Len(a) = Len(q) + 1 /\ a[Len(q) + 1] = p
      /\ \A k \in 1 .. Len(q) : a[k] = q[k]
  BY AppendProperties, LenProperties
<1> HIDE DEF a
<1>2. g <= top + 1
  BY DEF Follows
<1>3. \A k \in 1 .. Len(q) : q[k] \in S => Num(q[k]) \in (g + 1) .. top
  BY DEF Follows
<1>4. ASSUME NEW k \in 1 .. Len(a), a[k] \in S
      PROVE  Num(a[k]) \in (g + 1) .. (top + 1)
  <2>1. CASE k \in 1 .. Len(q)
    BY <1>1, <1>3, <1>4, <2>1
  <2>2. CASE k = Len(q) + 1
    BY <1>1, <2>2 DEF Follows
  <2> QED
    BY <1>1, <2>1, <2>2
<1>5. ASSUME NEW j \in 1 .. Len(a), NEW k \in 1 .. Len(a), j < k, a[j] \in S, a[k] \in S
      PROVE  Num(a[j]) < Num(a[k])
  <2>1. j \in 1 .. Len(q) /\ a[j] = q[j] /\ Num(q[j]) \in (g + 1) .. top
    BY <1>1, <1>3, <1>5
  <2>2. CASE k \in 1 .. Len(q)
    BY <1>1, <1>5, <2>1, <2>2, SMTT(20) DEF Follows
  <2>3. CASE k = Len(q) + 1
    BY <1>1, <2>1, <2>3
  <2> QED
    BY <1>1, <2>2, <2>3
<1>6. ASSUME NEW m \in (g + 1) .. (top + 1)
      PROVE  \E k \in 1 .. Len(a) : a[k] \in S /\ Num(a[k]) = m
  <2>1. CASE m = top + 1
    BY <1>1, <2>1
  <2>2. CASE m # top + 1
    <3>1. PICK k \in 1 .. Len(q) : q[k] \in S /\ Num(q[k]) = m
      BY <2>2 DEF Follows
    <3> QED
      BY <1>1, <3>1
  <2> QED
    BY <2>1, <2>2
<1>7. Follows(a, S, g, top + 1)
  BY <1>2, <1>4, <1>5, <1>6 DEF Follows
<1> QED
  BY <1>7 DEF a

LEMMA TailElements ==
  ASSUME NEW T, NEW q \in Seq(T), q # <<>>
  PROVE  /\ Len(q) \in Nat \ {0} /\ Tail(q) \in Seq(T) /\ Len(Tail(q)) = Len(q) - 1
         /\ Head(q) = q[1] /\ Head(q) \in T
         /\ \A k \in 1 .. Len(Tail(q)) : Tail(q)[k] = q[k + 1] /\ k + 1 \in 1 .. Len(q)
         /\ \A k \in 1 .. Len(q) : k = 1 \/ (k - 1 \in 1 .. Len(Tail(q)) /\ Tail(q)[k - 1] = q[k])
<1>1. Len(q) \in Nat \ {0} /\ Head(q) = q[1]
  BY EmptySeq
<1>2. /\ Head(q) \in T /\ Tail(q) \in Seq(T) /\ Len(Tail(q)) = Len(q) - 1
      /\ \A k \in 1 .. Len(Tail(q)) : Tail(q)[k] = q[k + 1]
  BY HeadTailProperties
<1>3. \A k \in 1 .. Len(Tail(q)) : k + 1 \in 1 .. Len(q)
  BY <1>1, <1>2
<1>4. ASSUME NEW k \in 1 .. Len(q), k # 1
      PROVE  k - 1 \in 1 .. Len(Tail(q)) /\ Tail(q)[k - 1] = q[k]
  <2>1. k - 1 \in 1 .. Len(Tail(q)) /\ (k - 1) + 1 = k
    BY <1>1, <1>2, <1>4
  <2> QED
    BY <1>2, <2>1
<1> QED
  BY <1>1, <1>2, <1>3, <1>4

LEMMA FollowsTailOther ==
  ASSUME NEW T, NEW q \in Seq(T), q # <<>>, NEW S, Head(q) \notin S,
         NEW g \in Nat, NEW top \in Nat, Follows(q, S, g, top)
  PROVE  Follows(Tail(q), S, g, top)
<1> DEFINE t == Tail(q)
<1>1. /\ Len(q) \in Nat \ {0} /\ Len(t) = Len(q) - 1 /\ Head(q) = q[1]
      /\ \A k \in 1 .. Len(t) : t[k] = q[k + 1] /\ k + 1 \in 1 .. Len(q)
      /\ \A k \in 1 .. Len(q) : k = 1 \/ (k - 1 \in 1 .. Len(t) /\ t[k - 1] = q[k])
  BY TailElements
<1> HIDE DEF t
<1>2. \A k \in 1 .. Len(t) : t[k] \in S => Num(t[k]) \in (g + 1) .. top
  BY <1>1 DEF Follows
<1>3. ASSUME NEW j \in 1 .. Len(t), NEW k \in 1 .. Len(t), j < k, t[j] \in S, t[k] \in S
      PROVE  Num(t[j]) < Num(t[k])
  <2>1. j + 1 < k + 1
    BY <1>3
  <2> QED
    BY <1>1, <1>3, <2>1 DEF Follows
<1>4. ASSUME NEW m \in (g + 1) .. top
      PROVE  \E k \in 1 .. Len(t) : t[k] \in S /\ Num(t[k]) = m
  <2>1. PICK k \in 1 .. Len(q) : q[k] \in S /\ Num(q[k]) = m
    BY DEF Follows
  <2> QED
    BY <1>1, <2>1
<1>5. Follows(t, S, g, top)
  BY <1>2, <1>3, <1>4 DEF Follows
<1> QED
  BY <1>5 DEF t

LEMMA FollowsTailNext ==
  ASSUME NEW T, NEW q \in Seq(T), q # <<>>, NEW S, Head(q) \in S,
         NEW g \in Nat, NEW top \in Nat, Follows(q, S, g, top)
  PROVE  Num(Head(q)) = g + 1 /\ Follows(Tail(q), S, g + 1, top)
<1> DEFINE t == Tail(q)
<1>1. /\ Len(q) \in Nat \ {0} /\ Len(t) = Len(q) - 1 /\ Head(q) = q[1]
      /\ \A k \in 1 .. Len(t) : t[k] = q[k + 1] /\ k + 1 \in 1 .. Len(q)
      /\ \A k \in 1 .. Len(q) : k = 1 \/ (k - 1 \in 1 .. Len(t) /\ t[k - 1] = q[k])
  BY TailElements
<1> HIDE DEF t
<1>2. 1 \in 1 .. Len(q) /\ q[1] \in S
  BY <1>1
<1>3. Num(q[1]) \in (g + 1) .. top
  BY <1>2 DEF Follows
<1>4. Num(q[1]) = g + 1
  <2>1. g + 1 \in (g + 1) .. top
    BY <1>3
  <2>2. PICK k \in 1 .. Len(q) : q[k] \in S /\ Num(q[k]) = g + 1
    BY <2>1 DEF Follows
  <2>3. CASE k = 1
    BY <2>2, <2>3
  <2>4. CASE k # 1
    <3>1. 1 < k
      BY <2>4
    <3>2. Num(q[1]) < Num(q[k])
      BY <1>2, <2>2, <3>1 DEF Follows
    <3> QED
      BY <1>3, <2>2, <3>2
  <2> QED
    BY <2>3, <2>4
<1>5. ASSUME NEW k \in 1 .. Len(t), t[k] \in S
      PROVE  Num(t[k]) \in (g + 2) .. top
  <2>1. k + 1 \in 1 .. Len(q) /\ q[k + 1] = t[k] /\ 1 < k + 1
    BY <1>1
  <2>2. Num(q[1]) < Num(q[k + 1]) /\ Num(q[k + 1]) \in (g + 1) .. top
    BY <1>2, <1>5, <2>1 DEF Follows
  <2> QED
    BY <1>4, <2>1, <2>2
<1>6. ASSUME NEW j \in 1 .. Len(t), NEW k \in 1 .. Len(t), j < k, t[j] \in S, t[k] \in S
      PROVE  Num(t[j]) < Num(t[k])
  <2>1. j + 1 < k + 1
    BY <1>6
  <2> QED
    BY <1>1, <1>6, <2>1 DEF Follows
<1>7. ASSUME NEW m \in (g + 2) .. top
      PROVE  \E k \in 1 .. Len(t) : t[k] \in S /\ Num(t[k]) = m
  <2>1. PICK k \in 1 .. Len(q) : q[k] \in S /\ Num(q[k]) = m
    BY DEF Follows
  <2>2. k # 1
    BY <1>4, <2>1
  <2> QED
    BY <1>1, <2>1, <2>2, Zenon
<1>8. (g + 1) + 1 = g + 2 /\ g + 1 <= top
  BY <1>3
<1>9. Follows(t, S, g + 1, top)
  BY <1>5, <1>6, <1>7, <1>8 DEF Follows
<1> QED
  BY <1>1, <1>4, <1>9 DEF t

-----------------------------------------------------------------------------
(***************************************************************************)
(* Types.                                                                  *)
(***************************************************************************)

LEMMA Constants ==
  Entries \in Nat /\ Chunks \in Nat /\ EndOfData \in Nat \ {0} /\ Ids = 0 .. Entries
BY ConstantsOK DEF EndOfData, Ids

LEMMA WalkTypes ==
  ASSUME TypeInv, WalkInv, Walk \/ WalkFails
  PROVE  TypeInv'
<1> USE Constants
<1> DEFINE Walkers == [at : {"entry", "stat", "storing", "last", "exited"}, entry : Nat, i : Nat]
<1>0. walker \in Walkers /\ walker.i \in Nat /\ walker.entry \in Nat
  BY DEF TypeInv
<1>1. CASE WalkRegister
  <2> DEFINE i == walker.i + 1
  <2>0. walker' = [walker EXCEPT !.at = "stat", !.i = i]
    BY <1>1 DEF WalkRegister
  <2>5. i \in Nat
    BY <1>0
  <2> HIDE DEF i
  <2>1. UNCHANGED <<pipe, worker, reader, ctx, out, in, stream, stats, asked, data, peer>>
    BY <1>1 DEF WalkRegister, wireVars, peerVars
  <2>4. walker' \in Walkers
    BY <1>0, <2>0, <2>5, Zenon
  <2>2. walker.i \in Ids
    BY <1>0, <1>1 DEF WalkRegister, WalkInv
  <2>3. files' \in [DOMAIN files' -> Nat] /\ DOMAIN files' \subseteq Ids
    BY <1>0, <1>1, <2>2 DEF WalkRegister, FileId, TypeInv
  <2> QED
    BY <2>1, <2>3, <2>4, Zenon DEF TypeInv
<1>2. CASE WalkStat
  <2> DEFINE e == walker.entry + 1
  <2>0. walker' = [walker EXCEPT !.at = "entry", !.entry = e]
    BY <1>2 DEF WalkStat
  <2>5. e \in Nat
    BY <1>0
  <2> HIDE DEF e
  <2>1. /\ out' = Append(out, Stat(walker.entry))
        /\ UNCHANGED <<files, pipe, worker, reader, ctx, in, stream, stats, asked, data, peer>>
    BY <1>2 DEF WalkStat, SendMsg, peerVars
  <2>4. walker' \in Walkers
    BY <1>0, <2>0, <2>5, Zenon
  <2>2. Stat(walker.entry) \in OutPackets
    BY <1>0 DEF Stat, OutPackets, StatPackets
  <2>3. out' \in Seq(OutPackets)
    BY <2>1, <2>2, AppendProperties DEF TypeInv
  <2> QED
    BY <2>1, <2>3, <2>4, Zenon DEF TypeInv
<1>3. CASE WalkStores
  <2>1. /\ walker' \in Walkers
        /\ UNCHANGED <<files, pipe, worker, reader, ctx, out, in, stream, stats, asked, data, peer>>
    BY <1>0, <1>3 DEF WalkStores, wireVars, peerVars
  <2> QED
    BY <2>1 DEF TypeInv
<1>4. CASE WalkStored
  <2>1. /\ walker' \in Walkers
        /\ UNCHANGED <<files, pipe, worker, reader, ctx, out, in, stream, stats, asked, data, peer>>
    BY <1>0, <1>4 DEF WalkStored, wireVars, peerVars
  <2> QED
    BY <2>1 DEF TypeInv
<1>5. CASE WalkLast
  <2>1. /\ walker' \in Walkers /\ out' = Append(out, LastStat)
        /\ UNCHANGED <<files, pipe, worker, reader, ctx, in, stream, stats, asked, data, peer>>
    BY <1>0, <1>5 DEF WalkLast, SendMsg, peerVars
  <2>2. LastStat \in OutPackets
    BY DEF LastStat, OutPackets, OtherPackets
  <2>3. out' \in Seq(OutPackets)
    BY <2>1, <2>2, AppendProperties DEF TypeInv
  <2> QED
    BY <2>1, <2>3, Zenon DEF TypeInv
<1>6. CASE WalkFails
  <2>1. /\ walker' \in Walkers /\ (out' = Append(out, Err) \/ out' = out) /\ ctx' = TRUE
        /\ UNCHANGED <<files, pipe, worker, reader, in, stream, stats, asked, data, peer>>
    BY <1>0, <1>6 DEF WalkFails, SendMsg, peerVars
  <2>2. Err \in OutPackets
    BY DEF Err, OutPackets, OtherPackets
  <2>4. out \in Seq(OutPackets) /\ Append(out, Err) \in Seq(OutPackets)
    BY <2>2, AppendProperties DEF TypeInv
  <2>3. out' \in Seq(OutPackets)
    BY <2>1, <2>4
  <2> QED
    BY <2>1, <2>3 DEF TypeInv
<1> QED
  BY <1>1, <1>2, <1>3, <1>4, <1>5, <1>6 DEF Walk

\* What the state of a worker tells about its step.
LEMMA WorkerForms ==
  ASSUME TypeInv, NEW w \in Workers
  PROVE  /\ worker[w] \in Busy \/ worker[w] = Idle \/ worker[w] = Exited
         /\ worker[w] \in Busy <=> worker[w].at \in {"open", "asking", "reading", "sending"}
         /\ worker[w] = Idle <=> worker[w].at = "idle"
<1>1. worker[w] \in Busy \/ worker[w] = Idle \/ worker[w] = Exited
  BY DEF TypeInv
<1>2. Idle.at = "idle" /\ Exited.at = "exited"
  BY DEF Idle, Exited
<1>3. \A r \in Busy : r.at \in {"open", "asking", "reading", "sending"}
  BY DEF Busy
<1> QED
  BY <1>1, <1>2, <1>3

LEMMA WorkerTypes ==
  ASSUME TypeInv, NEW w \in Workers,
         Worker(w) \/ Host(w) \/ WorkerFails(w) \/ WorkerOpenTorn(w)
  PROVE  TypeInv'
<1> USE Constants
<1> DEFINE States == Busy \cup {Idle, Exited}
<1>0. worker \in [Workers -> States] /\ worker[w] \in States
  BY DEF TypeInv
<1>1. CASE WorkerTake(w)
  <2> DEFINE job == [at |-> "open", id |-> Head(pipe).id, path |-> Head(pipe).path, n |-> 1]
  <2>1. pipe # <<>> /\ pipe' = Tail(pipe)
    BY <1>1 DEF WorkerTake
  <2>2. Head(pipe) \in Jobs /\ pipe' \in Seq(Jobs)
    BY <2>1, TailElements DEF TypeInv
  <2>3. job \in Busy
    BY <2>2 DEF Busy, Jobs
  <2>4. worker' = [worker EXCEPT ![w] = IF ctx THEN Exited ELSE job]
    BY <1>1 DEF WorkerTake
  <2> HIDE DEF job
  <2>5. worker' \in [Workers -> States]
    BY <1>0, <2>3, <2>4
  <2>6. UNCHANGED <<walker, files, reader, ctx, out, in, stream, stats, asked, data, peer>>
    BY <1>1 DEF WorkerTake, WorkerUnchanged, peerVars
  <2> QED
    BY <2>2, <2>5, <2>6 DEF TypeInv
<1>2. CASE WorkerExit(w)
  <2>1. /\ worker' = [worker EXCEPT ![w] = Exited]
        /\ UNCHANGED <<walker, files, pipe, reader, ctx, out, in, stream, stats, asked, data, peer>>
    BY <1>2 DEF WorkerExit, WorkerUnchanged, peerVars
  <2>2. worker' \in [Workers -> States]
    BY <1>0, <2>1
  <2> QED
    BY <2>1, <2>2 DEF TypeInv
<1>3. CASE WorkerOpen(w)
  <2>1. /\ \E a \in {"sending", "asking"} : worker' = [worker EXCEPT ![w].at = a]
        /\ worker[w].at = "open"
        /\ UNCHANGED <<walker, files, pipe, reader, ctx, out, in, stream, stats, asked, data, peer>>
    BY <1>3, Zenon DEF WorkerOpen, WorkerUnchanged, peerVars
  <2>2. worker[w] \in Busy
    BY <2>1, WorkerForms
  <2>3. worker' \in [Workers -> States]
    BY <1>0, <2>1, <2>2 DEF Busy
  <2> QED
    BY <2>1, <2>3 DEF TypeInv
<1>4. CASE HostInfo(w)
  <2>1. /\ worker' = [worker EXCEPT ![w].at = "reading"] /\ worker[w].at = "asking"
        /\ UNCHANGED <<walker, files, pipe, reader, ctx, out, in, stream, stats, asked, data, peer>>
    BY <1>4 DEF HostInfo, WorkerUnchanged, peerVars
  <2>2. worker[w] \in Busy
    BY <2>1, WorkerForms
  <2>3. worker' \in [Workers -> States]
    BY <1>0, <2>1, <2>2 DEF Busy
  <2> QED
    BY <2>1, <2>3 DEF TypeInv
<1>5. CASE WorkerSend(w) \/ HostRead(w)
  <2> DEFINE r == worker[w]
  <2> DEFINE m == r.n + 1
  <2>1. r.at \in {"sending", "reading"} /\ SendData(w)
    BY <1>5 DEF WorkerSend, HostRead
  <2>2. r \in Busy
    BY <2>1, WorkerForms
  <2>3. Data(r.id, r.path, r.n) \in OutPackets
    BY <2>2 DEF Busy, Data, OutPackets, FilePackets
  <2>4. out' = Append(out, Data(r.id, r.path, r.n)) /\ worker' = [worker EXCEPT ![w] = AfterPacket(r)]
    BY <1>0, <2>1 DEF SendData, SendMsg
  <2>5. out' \in Seq(OutPackets)
    BY <2>3, <2>4, AppendProperties DEF TypeInv
  <2>6. AfterPacket(r) \in States
    <3>1. m \in Nat
      BY <2>2 DEF Busy
    <3>2. AfterPacket(r) = Idle \/ AfterPacket(r) = [r EXCEPT !.n = m]
      BY DEF AfterPacket
    <3> HIDE DEF m, r
    <3> QED
      BY <2>2, <3>1, <3>2 DEF Busy
  <2>7. worker' \in [Workers -> States]
    BY <1>0, <2>4, <2>6
  <2>8. UNCHANGED <<walker, files, pipe, reader, ctx, in, stream, stats, asked, data, peer>>
    BY <2>1 DEF SendData, WorkerUnchanged, peerVars
  <2> QED
    BY <2>5, <2>7, <2>8 DEF TypeInv
<1>6. CASE WorkerFails(w)
  <2>1. /\ worker' = [worker EXCEPT ![w] = Exited] /\ ctx' = TRUE
        /\ UNCHANGED <<walker, files, pipe, reader, out, in, stream, stats, asked, data, peer>>
    BY <1>6 DEF WorkerFails, WorkerUnchanged, peerVars
  <2>2. worker' \in [Workers -> States]
    BY <1>0, <2>1
  <2> QED
    BY <2>1, <2>2 DEF TypeInv
<1>7. CASE WorkerOpenTorn(w)
  <2>1. /\ worker' = [x \in Workers |-> Exited] /\ reader' = Exited /\ ctx' = TRUE /\ stream' = "gone"
        /\ walker' = [walker EXCEPT !.at = "exited"]
        /\ UNCHANGED <<files, pipe, out, in, stats, asked, data, peer>>
    BY <1>7 DEF WorkerOpenTorn, peerVars
  <2>2. worker' \in [Workers -> States]
    BY <2>1
  <2>3. walker' \in [at : {"entry", "stat", "storing", "last", "exited"}, entry : Nat, i : Nat]
    BY <2>1, Zenon DEF TypeInv
  <2> QED
    BY <2>1, <2>2, <2>3 DEF TypeInv
<1> QED
  BY <1>1, <1>2, <1>3, <1>4, <1>5, <1>6, <1>7 DEF Worker, Host

LEMMA ReaderTypes ==
  ASSUME TypeInv, Reader
  PROVE  TypeInv'
<1> DEFINE States == Queueing \cup {[at |-> "top"], [at |-> "recv"], Exited}
<1>0. ASSUME in # <<>> PROVE Head(in) \in InPackets /\ Tail(in) \in Seq(InPackets)
  BY <1>0, TailElements DEF TypeInv
<1>1. CASE ReaderTop
  <2>1. /\ reader' \in States /\ ctx' \in BOOLEAN
        /\ UNCHANGED <<walker, files, pipe, worker, out, in, stream, stats, asked, data, peer>>
    BY <1>1 DEF ReaderTop, ReaderExits, wireVars, peerVars, TypeInv
  <2> QED
    BY <2>1 DEF TypeInv
<1>2. CASE ReaderRequest
  <2> DEFINE x == Head(in).id
  <2>1. /\ in # <<>> /\ Head(in).type = "REQ" /\ in' = Tail(in)
        /\ UNCHANGED <<walker, pipe, worker, out, stream, stats, asked, data, peer>>
    BY <1>2 DEF ReaderRequest, peerVars
  <2>2. x \in Ids /\ in' \in Seq(InPackets)
    BY <1>0, <2>1 DEF InPackets
  <2>3. CASE x \in DOMAIN files
    <3>1. /\ reader' = [at |-> "queue", id |-> x, path |-> files[x]] /\ ctx' = ctx
          /\ files' = Restrict(files, DOMAIN files \ {x})
      BY <1>2, <2>3 DEF ReaderRequest
    <3> HIDE DEF x
    <3>2. reader' \in States
      BY <2>2, <2>3, <3>1 DEF TypeInv, Queueing
    <3>3. files' \in [DOMAIN files' -> Nat] /\ DOMAIN files' \subseteq Ids
      BY <3>1 DEF TypeInv, Restrict
    <3> QED
      BY <2>1, <2>2, <3>1, <3>2, <3>3, Zenon DEF TypeInv
  <2>4. CASE x \notin DOMAIN files
    <3>1. reader' = Exited /\ ctx' = (ctx \/ TRUE) /\ files' = files
      BY <1>2, <2>4 DEF ReaderRequest, ReaderExits
    <3> QED
      BY <2>1, <2>2, <3>1 DEF TypeInv
  <2> QED
    BY <2>3, <2>4
<1>3. CASE ReaderQueue
  <2>1. /\ reader.at = "queue" /\ pipe' = Append(pipe, [id |-> reader.id, path |-> reader.path])
        /\ reader' = [at |-> "top"]
        /\ UNCHANGED <<walker, files, worker, ctx, out, in, stream, stats, asked, data, peer>>
    BY <1>3 DEF ReaderQueue, wireVars, peerVars
  <2>2. reader \in Queueing
    BY <2>1 DEF TypeInv, Exited
  <2>3. [id |-> reader.id, path |-> reader.path] \in Jobs
    BY <2>2 DEF Queueing, Jobs
  <2>4. pipe' \in Seq(Jobs)
    BY <2>1, <2>3, AppendProperties DEF TypeInv
  <2> QED
    BY <2>1, <2>4 DEF TypeInv
<1>4. CASE ReaderFin
  <2>1. /\ in # <<>> /\ in' = Tail(in) /\ reader' = Exited /\ (out' = Append(out, Fin) \/ out' = out)
        /\ UNCHANGED <<walker, files, pipe, worker, stream, stats, asked, data, peer>>
    BY <1>4 DEF ReaderFin, ReaderExits, SendMsg, peerVars
  <2>2. ctx' \in BOOLEAN
    BY <1>4, Zenon DEF ReaderFin, ReaderExits, TypeInv
  <2>3. Fin \in OutPackets
    BY DEF Fin, OutPackets, OtherPackets
  <2>4. out \in Seq(OutPackets) /\ Append(out, Fin) \in Seq(OutPackets)
    BY <2>3, AppendProperties DEF TypeInv
  <2> QED
    BY <1>0, <2>1, <2>2, <2>4, Zenon DEF TypeInv
<1>5. CASE ReaderErr
  <2>1. /\ in # <<>> /\ in' = Tail(in) /\ reader' = Exited /\ ctx' = (ctx \/ TRUE)
        /\ UNCHANGED <<walker, files, pipe, worker, out, stream, stats, asked, data, peer>>
    BY <1>5 DEF ReaderErr, ReaderExits, peerVars
  <2> QED
    BY <1>0, <2>1 DEF TypeInv
<1>6. CASE ReaderStreamGone
  <2>1. /\ reader' = Exited /\ ctx' = (ctx \/ TRUE)
        /\ UNCHANGED <<walker, files, pipe, worker, out, in, stream, stats, asked, data, peer>>
    BY <1>6 DEF ReaderStreamGone, ReaderExits, wireVars, peerVars
  <2> QED
    BY <2>1 DEF TypeInv
<1> QED
  BY <1>1, <1>2, <1>3, <1>4, <1>5, <1>6 DEF Reader

LEMMA PeerTypes ==
  ASSUME TypeInv, Peer \/ StreamEnds \/ RunReturns \/ \E id \in Ids : PeerAsks(id)
  PROVE  TypeInv'
<1>1. CASE PeerReceives
  <2> DEFINE p == Head(out)
  <2>1. /\ out # <<>> /\ out' = Tail(out)
        /\ UNCHANGED <<walker, files, pipe, worker, reader, ctx, stream, asked>>
    BY <1>1 DEF PeerReceives, sendVars
  <2>2. p \in OutPackets /\ out' \in Seq(OutPackets)
    BY <2>1, TailElements DEF TypeInv
  <2>3. /\ stats' = IF p.type = "STAT" THEN Append(stats, p.path) ELSE stats
        /\ data' = IF p.type = "DATA" THEN [data EXCEPT ![p.id] = Append(@, p)] ELSE data
        /\ peer' = IF p.type = "ERR" THEN "failed" ELSE peer
        /\ in' = IF p.type = "ERR" THEN Append(in, Err) ELSE in
    BY <1>1 DEF PeerReceives
  <2> HIDE DEF p
  <2>4. stats' \in Seq(Nat)
    <3>1. CASE p.type = "STAT"
      <4>1. p.path \in Nat
        BY <2>2, <3>1 DEF OutPackets, StatPackets, FilePackets, OtherPackets
      <4> QED
        BY <2>3, <3>1, <4>1, AppendProperties DEF TypeInv
    <3> QED
      BY <2>3, <3>1 DEF TypeInv
  <2>5. data' \in [Ids -> Seq(FilePackets)]
    <3>1. CASE p.type = "DATA"
      <4>1. p \in FilePackets /\ p.id \in Ids
        BY <2>2, <3>1 DEF OutPackets, StatPackets, FilePackets, OtherPackets
      <4>2. data[p.id] \in Seq(FilePackets)
        BY <4>1 DEF TypeInv
      <4>3. Append(data[p.id], p) \in Seq(FilePackets)
        BY <4>1, <4>2, AppendProperties
      <4>4. data' = [data EXCEPT ![p.id] = Append(data[p.id], p)]
        BY <2>3, <3>1
      <4> QED
        BY <4>1, <4>3, <4>4 DEF TypeInv
    <3> QED
      BY <2>3, <3>1 DEF TypeInv
  <2>6. in' \in Seq(InPackets) /\ peer' \in {"active", "finished", "failed"}
    <3>1. Err \in InPackets
      BY DEF Err, InPackets
    <3>2. Append(in, Err) \in Seq(InPackets) /\ in \in Seq(InPackets)
      BY <3>1, AppendProperties DEF TypeInv
    <3> QED
      BY <2>3, <3>2 DEF TypeInv
  <2> QED
    BY <2>1, <2>2, <2>4, <2>5, <2>6 DEF TypeInv
<1>2. CASE PeerFinishes
  <2>1. /\ in' = Append(in, Fin) /\ peer' = "finished"
        /\ UNCHANGED <<walker, files, pipe, worker, reader, ctx, out, stream, stats, asked, data>>
    BY <1>2 DEF PeerFinishes, sendVars
  <2>2. Fin \in InPackets
    BY DEF Fin, InPackets
  <2>3. in' \in Seq(InPackets)
    BY <2>1, <2>2, AppendProperties DEF TypeInv
  <2> QED
    BY <2>1, <2>3 DEF TypeInv
<1>3. CASE StreamEnds
  <2>1. /\ stream' = "gone"
        /\ UNCHANGED <<walker, files, pipe, worker, reader, ctx, out, in, stats, asked, data, peer>>
    BY <1>3 DEF StreamEnds, sendVars, peerVars
  <2> QED
    BY <2>1 DEF TypeInv
<1>4. CASE RunReturns
  <2>1. UNCHANGED <<walker, files, pipe, worker, reader, ctx, out, in, stream, stats, asked, data, peer>>
    BY <1>4 DEF RunReturns, sendVars, wireVars, peerVars
  <2> QED
    BY <2>1 DEF TypeInv
<1>5. ASSUME NEW id \in Ids, PeerAsks(id)
      PROVE  TypeInv'
  <2>1. /\ in' = Append(in, Req(id)) /\ asked' = asked \cup {id}
        /\ UNCHANGED <<walker, files, pipe, worker, reader, ctx, out, stream, stats, data, peer>>
    BY <1>5 DEF PeerAsks, sendVars
  <2>2. Req(id) \in InPackets
    BY DEF Req, InPackets
  <2>3. in' \in Seq(InPackets)
    BY <2>1, <2>2, AppendProperties DEF TypeInv
  <2> QED
    BY <2>1, <2>3 DEF TypeInv
<1> QED
  BY <1>1, <1>2, <1>3, <1>4, <1>5 DEF Peer

-----------------------------------------------------------------------------
(***************************************************************************)
(* Steps that hand no file over: neither a request nor a DATA packet.      *)
(***************************************************************************)

\* The DATA packets on the stream stay as they are.
OutKept ==
  /\ \A x \in Ids : \A g, top \in Nat :
       Follows(out, DataPackets(x), g, top) => Follows(out', DataPackets(x), g, top)
  /\ \A k \in 1 .. Len(out') : out'[k].type = "DATA" => \E j \in 1 .. Len(out) : out[j] = out'[k]
  /\ \A k \in 1 .. Len(out) : out[k].type = "DATA" => \E j \in 1 .. Len(out') : out'[j] = out[k]

LEMMA SentOther ==
  ASSUME TypeInv, NEW p \in StatPackets \cup OtherPackets, out' = Append(out, p)
  PROVE  OutKept
<1>1. p \in OutPackets /\ p.type # "DATA"
  BY DEF OutPackets, StatPackets, OtherPackets
<1>2. out \in Seq(OutPackets)
  BY DEF TypeInv
<1>3. \A x \in Ids : p \notin DataPackets(x)
  BY <1>1 DEF DataPackets
<1>4. \A x \in Ids : \A g, top \in Nat :
        Follows(out, DataPackets(x), g, top) => Follows(out', DataPackets(x), g, top)
  BY <1>1, <1>2, <1>3, FollowsAppendOther
<1>5. /\ Len(out) \in Nat /\ Len(out') = Len(out) + 1 /\ out'[Len(out) + 1] = p
      /\ \A k \in 1 .. Len(out) : out'[k] = out[k]
  BY <1>1, <1>2, AppendProperties, LenProperties
<1>6. \A k \in 1 .. Len(out') : k \in 1 .. Len(out) \/ k = Len(out) + 1
  BY <1>5
<1> QED
  BY <1>1, <1>4, <1>5, <1>6 DEF OutKept

LEMMA SentNothing ==
  ASSUME out' = out
  PROVE  OutKept
BY DEF OutKept

\* Requests are held by those who held them before, or lost with a failure.
Quiet ==
  /\ OutKept
  /\ files' = files /\ pipe' = pipe /\ asked' = asked /\ data' = data
  /\ walker'.i = walker.i
  /\ \A x \in asked : x < Len(stats) => x < Len(stats')
  /\ reader' = reader \/ reader'.at # "queue"
  /\ \A w \in Workers : \A x \in Ids : Working(w, x)' =>
       Working(w, x) /\ worker'[w].path = worker[w].path /\ worker'[w].n = worker[w].n
  /\ \A k \in 1 .. Len(in') : in'[k].type = "REQ" => \E j \in 1 .. Len(in) : in[j] = in'[k]

LEMMA QuietPaths ==
  ASSUME PathInv, Quiet
  PROVE  PathInv'
<1>1. \A x \in DOMAIN files' : files'[x] = x + 1 /\ x < walker'.i
  BY DEF PathInv, Quiet
<1>2. reader'.at = "queue" => reader'.id \in asked' /\ reader'.path = reader'.id + 1
  BY DEF PathInv, Quiet
<1>3. \A k \in 1 .. Len(pipe') : pipe'[k].id \in asked' /\ pipe'[k].path = pipe'[k].id + 1
  BY DEF PathInv, Quiet
<1>4. \A w \in Workers : \A x \in Ids : Working(w, x)' =>
        x \in asked' /\ worker'[w].path = x + 1 /\ worker'[w].n \in 1 .. EndOfData
  BY DEF PathInv, Quiet
<1>5. ASSUME NEW k \in 1 .. Len(out'), out'[k].type = "DATA"
      PROVE  out'[k].id \in asked' /\ out'[k].path = out'[k].id + 1 /\ out'[k].n \in 1 .. EndOfData
  <2>1. PICK j \in 1 .. Len(out) : out[j] = out'[k]
    BY <1>5 DEF Quiet, OutKept
  <2>2. out[j].id \in asked /\ out[j].path = out[j].id + 1 /\ out[j].n \in 1 .. EndOfData
    BY <1>5, <2>1 DEF PathInv
  <2>3. asked' = asked
    BY DEF Quiet
  <2> QED
    BY <2>1, <2>2, <2>3
<1>6. \A k \in 1 .. Len(in') : in'[k].type = "REQ" => in'[k].id \in asked'
  BY DEF PathInv, Quiet
<1>7. \A x \in asked' : x < Len(stats')
  BY DEF PathInv, Quiet
<1> QED
  BY <1>1, <1>2, <1>3, <1>4, <1>5, <1>6, <1>7 DEF PathInv

LEMMA HeldSame ==
  ASSUME NEW x, pipe' = pipe, \A w \in Workers : Working(w, x)' => Working(w, x)
  PROVE  (Unworked(x) => Unworked(x)') /\ (Single(x) => Single(x)')
<1>1. Unworked(x) => Unworked(x)'
  BY DEF Unworked
<1>2. Single(x) => Single(x)'
  BY DEF Single
<1> QED
  BY <1>1, <1>2

LEMMA QuietHolders ==
  ASSUME HolderInv, Quiet
  PROVE  HolderInv'
<1>1. \A x \in Ids : Fresh(x) => Fresh(x)'
  BY DEF Fresh, Quiet, OutKept
<1>2. \A x \in Ids : (Queued(x)' => Queued(x)) /\ (Piped(x)' <=> Piped(x))
  BY DEF Queued, Piped, Quiet
<1>3. \A x \in Ids : (Unworked(x) => Unworked(x)') /\ (Single(x) => Single(x)')
  BY HeldSame DEF Quiet
<1>4. files' = files
  BY DEF Quiet
<1> QED
  BY <1>1, <1>2, <1>3, <1>4 DEF HolderInv

LEMMA QuietContents ==
  ASSUME TypeInv, PathInv, ContentInv, Quiet
  PROVE  ContentInv'
<1> USE Constants
<1>1. \A x \in Ids : Len(data[x]) \in Nat
  BY LenProperties DEF TypeInv
<1>2. data' = data /\ asked' = asked
  BY DEF Quiet
<1>3. ASSUME NEW x \in Ids, NEW top \in 0 .. EndOfData, Follows(out, DataPackets(x), Len(data[x]), top)
      PROVE  Follows(out', DataPackets(x), Len(data'[x]), top)
  BY <1>1, <1>2, <1>3 DEF Quiet, OutKept
<1>4. ASSUME NEW x \in Ids, NEW w \in Workers, Working(w, x)'
      PROVE  Follows(out', DataPackets(x), Len(data'[x]), worker'[w].n - 1)
  <2>1. Working(w, x) /\ worker'[w].n = worker[w].n
    BY <1>4 DEF Quiet
  <2>2. Follows(out, DataPackets(x), Len(data[x]), worker[w].n - 1)
    BY <2>1 DEF ContentInv
  <2>3. worker[w].n - 1 \in 0 .. EndOfData
    BY <2>1 DEF PathInv
  <2> QED
    BY <1>3, <2>1, <2>2, <2>3
<1>5. \A x \in Ids : \E top \in 0 .. EndOfData : Follows(out', DataPackets(x), Len(data'[x]), top)
  BY <1>3 DEF ContentInv
<1> QED
  BY <1>2, <1>4, <1>5 DEF ContentInv

LEMMA QuietFrame ==
  ASSUME TypeInv, PathInv, HolderInv, ContentInv, Quiet
  PROVE  PathInv' /\ HolderInv' /\ ContentInv'
BY QuietPaths, QuietHolders, QuietContents

LEMMA CompleteSame ==
  ASSUME data' = data
  PROVE  \A x \in Ids : Complete(x)' <=> Complete(x)
BY DEF Complete

LEMMA QuietAsks ==
  ASSUME TypeInv, AskInv, Quiet, peer' = peer \/ (peer = "active" /\ peer' = "failed"),
         \A k \in 1 .. Len(in') : in'[k].type = "FIN" => \E j \in 1 .. Len(in) : in[j] = in'[k]
  PROVE  AskInv'
<1>1. \A x \in Ids : Complete(x)' <=> Complete(x)
  BY CompleteSame DEF Quiet
<1>2. \A k \in 1 .. Len(in') : in'[k].type = "FIN" => peer' = "finished"
  BY DEF AskInv
<1>3. peer' = "finished" => \A x \in asked' : Complete(x)'
  BY <1>1 DEF AskInv, Quiet, TypeInv
<1>4. \A x \in Ids : x < walker'.i /\ x + 1 \in Regular /\ x \notin asked' => x \in DOMAIN files'
  BY DEF AskInv, Quiet
<1> QED
  BY <1>2, <1>3, <1>4 DEF AskInv

\* No holder of a request lets go of it.
Loyal ==
  \A x \in Ids :
    /\ Asking(x) => Asking(x)'
    /\ Queued(x) => Queued(x)'
    /\ \A w \in Workers : Working(w, x) => Working(w, x)'

LEMMA QuietKept ==
  ASSUME TypeInv, KeptInv, Quiet,
         ctx' = TRUE \/ stream' = "gone" \/ (ctx' = ctx /\ stream' = stream /\ Loyal)
  PROVE  KeptInv'
<1>1. CASE ctx' = TRUE \/ stream' = "gone"
  BY <1>1 DEF KeptInv
<1>2. CASE ctx' = ctx /\ stream' = stream /\ Loyal
  <2>1. \A x \in Ids : Complete(x)' <=> Complete(x)
    BY CompleteSame DEF Quiet
  <2>2. \A x \in Ids : Piped(x) => Piped(x)'
    BY DEF Piped, Quiet
  <2>3. \A x \in Ids : Ending(x) => Ending(x)'
    BY DEF Ending, Quiet, OutKept
  <2>4. files' = files /\ asked' = asked /\ asked \subseteq Ids
    BY DEF Quiet, TypeInv
  <2>5. \A x \in Ids : Kept(x) => Kept(x)'
    BY <1>2, <2>1, <2>2, <2>3, <2>4 DEF Kept, Loyal
  <2> QED
    BY <1>2, <2>4, <2>5 DEF KeptInv
<1> QED
  BY <1>1, <1>2, Zenon

-----------------------------------------------------------------------------
(***************************************************************************)
(* The walk.                                                               *)
(***************************************************************************)

\* A file that was not asked for has no holder yet and no packets.
LEMMA Unasked ==
  ASSUME TypeInv, PathInv, ContentInv, NEW x \in Ids, x \notin asked
  PROVE  Fresh(x) /\ ~Queued(x) /\ ~Piped(x) /\ Unworked(x)
<1>1. ~Queued(x) /\ ~Piped(x) /\ Unworked(x)
  BY DEF PathInv, Queued, Piped, Unworked
<1>2. data[x] = <<>> /\ Len(data[x]) = 0
  BY DEF ContentInv
<1>3. PICK top \in 0 .. EndOfData : Follows(out, DataPackets(x), 0, top)
  BY <1>2 DEF ContentInv
<1>4. \A k \in 1 .. Len(out) : out[k] \notin DataPackets(x)
  BY DEF PathInv, DataPackets
<1>5. top = 0
  <2>1. SUFFICES ASSUME 1 \in (0 + 1) .. top PROVE FALSE
    BY Constants
  <2> QED
    BY <1>3, <1>4, <2>1 DEF Follows
<1> QED
  BY <1>1, <1>2, <1>3, <1>5 DEF Fresh

LEMMA RegisterStep ==
  ASSUME TypeInv, WalkInv, PathInv, HolderInv, ContentInv, AskInv, KeptInv, WalkRegister
  PROVE  WalkInv' /\ PathInv' /\ HolderInv' /\ ContentInv' /\ AskInv' /\ KeptInv'
<1> USE Constants
<1> DEFINE i == walker.i
<1> DEFINE e == walker.entry
<1>1. /\ walker.at = "entry" /\ e <= Entries /\ i \in Nat /\ e \in Nat /\ i = e - 1 /\ i \in Ids
  BY DEF WalkRegister, WalkInv, TypeInv
<1>2. walker'.at = "stat" /\ walker'.entry = e /\ walker'.i = i + 1
  BY DEF WalkRegister, TypeInv
<1>3. UNCHANGED <<pipe, worker, reader, ctx, out, in, stream, stats, asked, data, peer>>
  BY DEF WalkRegister, wireVars, peerVars
<1>4. /\ DOMAIN files' \subseteq DOMAIN files \cup {i} /\ DOMAIN files \subseteq DOMAIN files'
      /\ \A x \in DOMAIN files' : files'[x] = IF x = i THEN e ELSE files[x]
      /\ e \in Regular => i \in DOMAIN files'
  <2>1. files' = IF e \in Regular
                 THEN [x \in DOMAIN files \cup {i} |-> IF x = i THEN e ELSE files[x]] ELSE files
    BY DEF WalkRegister, FileId
  <2>2. i \notin DOMAIN files
    BY <1>1 DEF PathInv
  <2> HIDE DEF i, e
  <2> QED
    BY <2>1, <2>2
<1>5. i \notin asked
  <2>1. Len(stats) <= e - 1
    BY DEF WalkInv, Follows
  <2>2. Len(stats) \in Nat
    BY LenProperties DEF TypeInv
  <2> QED
    BY <1>1, <2>1, <2>2 DEF PathInv
<1>6. Fresh(i) /\ ~Queued(i) /\ ~Piped(i) /\ Unworked(i)
  BY <1>1, <1>5, Unasked
<1>7. DOMAIN files' \subseteq Ids /\ \A x \in DOMAIN files : x < i /\ files[x] = x + 1 /\ x \in Nat
  BY <1>1, <1>4 DEF PathInv, TypeInv
<1> HIDE DEF i, e
<1>8. WalkInv'
  <2>1. Follows(out', StatPackets, Len(stats'), walker'.entry - 1)
    BY <1>2, <1>3 DEF WalkInv, e
  <2>2. \A k \in 1 .. Len(stats') : stats'[k] = k
    BY <1>3 DEF WalkInv
  <2>3. walker'.i = walker'.entry /\ walker'.entry \in 1 .. (Entries + 1) /\ walker'.entry <= Entries
    BY <1>1, <1>2
  <2> QED
    BY <1>2, <2>1, <2>2, <2>3 DEF WalkInv
<1>9. PathInv'
  <2>1. \A x \in DOMAIN files' : files'[x] = x + 1 /\ x < walker'.i
    BY <1>1, <1>2, <1>4, <1>7
  <2> QED
    BY <1>3, <2>1 DEF PathInv, Working
<1>10. HolderInv'
  <2>1. \A x : Fresh(x)' <=> Fresh(x)
    BY <1>3, Zenon DEF Fresh
  <2>2. \A x : Queued(x)' <=> Queued(x)
    BY <1>3 DEF Queued
  <2>3. \A x : Piped(x)' <=> Piped(x)
    BY <1>3 DEF Piped
  <2>4. \A x : (Unworked(x) => Unworked(x)') /\ (Single(x) => Single(x)')
    <3>1. pipe' = pipe /\ \A w, x : Working(w, x)' => Working(w, x)
      BY <1>3 DEF Working
    <3> QED
      BY <3>1, HeldSame
  <2>5. ASSUME NEW x \in Ids, x \in DOMAIN files'
        PROVE  Fresh(x) /\ ~Queued(x) /\ ~Piped(x) /\ Unworked(x)
    <3>1. x \in DOMAIN files \/ x = i
      BY <1>4, <2>5
    <3> QED
      BY <1>6, <3>1 DEF HolderInv
  <2> QED
    BY <2>1, <2>2, <2>3, <2>4, <2>5 DEF HolderInv
<1>11. ContentInv'
  BY <1>3 DEF ContentInv, Working
<1>12. AskInv'
  <2>1. ASSUME NEW x \in Ids, x < walker'.i, x + 1 \in Regular, x \notin asked'
        PROVE  x \in DOMAIN files'
    <3>1. CASE x = i
      BY <1>1, <1>4, <2>1, <3>1
    <3>2. CASE x # i
      BY <1>1, <1>2, <1>3, <1>4, <2>1, <3>2 DEF AskInv, i
    <3> QED
      BY <3>1, <3>2
  <2> QED
    BY <1>3, <2>1 DEF AskInv, Complete
<1>13. KeptInv'
  <2>1. \A x \in Ids : Kept(x) => Kept(x)'
    BY <1>3, <1>4 DEF Kept, Complete, Asking, Queued, Piped, Working, Ending
  <2> QED
    BY <1>3, <2>1 DEF KeptInv, TypeInv
<1> QED
  BY <1>8, <1>9, <1>10, <1>11, <1>12, <1>13

\* The other steps of the walk change neither a request nor its holder.
LEMMA WalkQuiet ==
  ASSUME TypeInv, OutKept, walker'.i = walker.i, ctx' = TRUE \/ ctx' = ctx,
         UNCHANGED <<files, pipe, worker, reader, in, stream, stats, asked, data, peer>>,
         PathInv, HolderInv, ContentInv, AskInv, KeptInv
  PROVE  PathInv' /\ HolderInv' /\ ContentInv' /\ AskInv' /\ KeptInv'
<1>1. \A w, x : Working(w, x)' <=> Working(w, x)
  BY DEF Working
<1>2. Quiet
  BY <1>1 DEF Quiet
<1>3. Loyal
  BY <1>1 DEF Loyal, Asking, Queued
<1> QED
  BY <1>2, <1>3, QuietFrame, QuietAsks, QuietKept, Zenon

\* An announcement that is none, or the end of one goroutine's part.
LEMMA StatsKept ==
  ASSUME TypeInv, WalkInv, out' = out \/ \E p \in OtherPackets : out' = Append(out, p), stats' = stats
  PROVE  /\ OutKept
         /\ Follows(out', StatPackets, Len(stats'), walker.entry - 1)
         /\ \A k \in 1 .. Len(stats') : stats'[k] = k
<1>1. Len(stats) \in Nat /\ walker.entry - 1 \in Nat
  BY LenProperties DEF TypeInv, WalkInv
<1>2. \A k \in 1 .. Len(stats') : stats'[k] = k
  BY DEF WalkInv
<1>3. CASE out' = out
  BY <1>2, <1>3, SentNothing DEF WalkInv
<1>4. ASSUME NEW p \in OtherPackets, out' = Append(out, p)
      PROVE  OutKept /\ Follows(out', StatPackets, Len(stats'), walker.entry - 1)
  <2>1. p \notin StatPackets /\ p \in OutPackets
    BY DEF OtherPackets, StatPackets, OutPackets
  <2>2. Follows(out, StatPackets, Len(stats), walker.entry - 1) /\ out \in Seq(OutPackets)
    BY DEF WalkInv, TypeInv
  <2>3. Follows(Append(out, p), StatPackets, Len(stats), walker.entry - 1)
    BY <1>1, <2>1, <2>2, FollowsAppendOther
  <2> QED
    BY <1>4, <2>3, SentOther
<1> QED
  BY <1>2, <1>3, <1>4

LEMMA StatStep ==
  ASSUME TypeInv, WalkInv, PathInv, HolderInv, ContentInv, AskInv, KeptInv, WalkStat
  PROVE  WalkInv' /\ PathInv' /\ HolderInv' /\ ContentInv' /\ AskInv' /\ KeptInv'
<1> USE Constants
<1> DEFINE e == walker.entry
<1>1. /\ walker.at = "stat" /\ e \in Nat /\ walker.i = e /\ e <= Entries /\ e \in 1 .. Entries
  BY DEF WalkStat, WalkInv, TypeInv
<1>2. walker'.at = "entry" /\ walker'.entry = e + 1 /\ walker'.i = walker.i
  BY DEF WalkStat, TypeInv
<1>3. out' = Append(out, Stat(e))
  BY DEF WalkStat, SendMsg
<1>4. UNCHANGED <<files, pipe, worker, reader, ctx, in, stream, stats, asked, data, peer>>
  BY DEF WalkStat, peerVars
<1>5. Stat(e) \in StatPackets /\ Num(Stat(e)) = e
  BY <1>1 DEF Stat, StatPackets, Num
<1>6. OutKept
  BY <1>3, <1>5, SentOther
<1>7. WalkInv'
  <2>1. Len(stats) \in Nat /\ e - 1 \in Nat /\ Num(Stat(e)) = (e - 1) + 1 /\ (e - 1) + 1 = e
    BY <1>1, <1>5, LenProperties DEF TypeInv
  <2>2. Follows(out, StatPackets, Len(stats), e - 1) /\ out \in Seq(OutPackets) /\ Stat(e) \in OutPackets
    BY <1>5 DEF WalkInv, TypeInv, OutPackets
  <2> HIDE DEF e
  <2>3. Follows(Append(out, Stat(e)), StatPackets, Len(stats), (e - 1) + 1)
    BY <1>5, <2>1, <2>2, FollowsAppendNext
  <2>4. Follows(out', StatPackets, Len(stats'), walker'.entry - 1)
    <3>1. walker'.entry - 1 = (e - 1) + 1
      BY <1>1, <1>2
    <3> QED
      BY <1>3, <1>4, <2>3, <3>1
  <2>5. walker'.i = walker'.entry - 1 /\ walker'.entry \in 1 .. (Entries + 1)
    BY <1>1, <1>2
  <2>6. \A k \in 1 .. Len(stats') : stats'[k] = k
    BY <1>4 DEF WalkInv
  <2> QED
    BY <1>2, <2>4, <2>5, <2>6 DEF WalkInv
<1>8. PathInv' /\ HolderInv' /\ ContentInv' /\ AskInv' /\ KeptInv'
  BY <1>2, <1>4, <1>6, WalkQuiet
<1> QED
  BY <1>7, <1>8

LEMMA WalkStep ==
  ASSUME TypeInv, WalkInv, PathInv, HolderInv, ContentInv, AskInv, KeptInv, Walk \/ WalkFails
  PROVE  WalkInv' /\ PathInv' /\ HolderInv' /\ ContentInv' /\ AskInv' /\ KeptInv'
<1>1. CASE WalkRegister
  BY <1>1, RegisterStep
<1>2. CASE WalkStat
  BY <1>2, StatStep
<1>3. ASSUME WalkStores \/ WalkStored \/ WalkLast \/ WalkFails
      PROVE  WalkInv' /\ PathInv' /\ HolderInv' /\ ContentInv' /\ AskInv' /\ KeptInv'
  <2>1. /\ walker'.at \in {"storing", "last", "exited"}
        /\ walker'.entry = walker.entry /\ walker'.i = walker.i
    BY <1>3 DEF WalkStores, WalkStored, WalkLast, WalkFails, TypeInv
  <2>2. out' = out \/ out' = Append(out, LastStat) \/ out' = Append(out, Err)
    BY <1>3 DEF WalkStores, WalkStored, WalkLast, WalkFails, SendMsg, wireVars
  <2>3. LastStat \in OtherPackets /\ Err \in OtherPackets
    BY DEF LastStat, Err, OtherPackets
  <2>4. UNCHANGED <<files, pipe, worker, reader, in, stream, stats, asked, data, peer>>
    BY <1>3 DEF WalkStores, WalkStored, WalkLast, WalkFails, wireVars, peerVars
  <2>5. ctx' = TRUE \/ ctx' = ctx
    BY <1>3 DEF WalkStores, WalkStored, WalkLast, WalkFails
  <2>6. stats' = stats /\ \/ out' = out
                          \/ \E p \in OtherPackets : out' = Append(out, p)
    BY <2>2, <2>3, <2>4
  <2>7. OutKept /\ WalkInv'
    BY <2>1, <2>6, StatsKept DEF WalkInv
  <2> QED
    BY <2>1, <2>4, <2>5, <2>7, WalkQuiet, Zenon
<1> QED
  BY <1>1, <1>2, <1>3 DEF Walk

-----------------------------------------------------------------------------
(***************************************************************************)
(* The workers.                                                            *)
(***************************************************************************)

LEMMA WorkerQuiet ==
  ASSUME TypeInv, WalkInv, PathInv, HolderInv, ContentInv, AskInv, KeptInv, NEW w \in Workers,
         WorkerExit(w) \/ WorkerOpen(w) \/ HostInfo(w) \/ WorkerFails(w) \/ WorkerOpenTorn(w)
  PROVE  WalkInv' /\ PathInv' /\ HolderInv' /\ ContentInv' /\ AskInv' /\ KeptInv'
<1> DEFINE Step == WorkerExit(w) \/ WorkerOpen(w) \/ HostInfo(w) \/ WorkerFails(w) \/ WorkerOpenTorn(w)
<1>0. Step
  OBVIOUS
<1> USE DEF Step
<1>1. UNCHANGED <<files, pipe, out, in, stats, asked, data, peer>>
  BY <1>0 DEF WorkerExit, WorkerOpen, HostInfo, WorkerFails, WorkerOpenTorn, WorkerUnchanged, peerVars
<1>2. walker'.i = walker.i /\ walker'.entry = walker.entry /\ (walker' = walker \/ walker'.at = "exited")
  BY <1>0 DEF WorkerExit, WorkerOpen, HostInfo, WorkerFails, WorkerOpenTorn, WorkerUnchanged, TypeInv
<1>3. reader' = reader \/ reader' = Exited
  BY <1>0 DEF WorkerExit, WorkerOpen, HostInfo, WorkerFails, WorkerOpenTorn, WorkerUnchanged
<1> HIDE DEF Step
<1>4. WalkInv'
  BY <1>1, <1>2 DEF WalkInv
<1>5. ASSUME NEW v \in Workers
      PROVE  \/ worker'[v] = worker[v]
             \/ worker'[v] = Exited /\ (worker[v] = Idle \/ ctx' = TRUE)
             \/ /\ worker[v] \in Busy /\ worker'[v] \in Busy /\ worker'[v].id = worker[v].id
                /\ worker'[v].path = worker[v].path /\ worker'[v].n = worker[v].n
  <2>0. worker \in [Workers -> Busy \cup {Idle, Exited}]
    BY DEF TypeInv
  <2>1. CASE WorkerExit(w)
    BY <2>0, <2>1 DEF WorkerExit
  <2>2. CASE WorkerOpen(w)
    <3>1. worker[w].at = "open" /\ \E a \in {"sending", "asking"} : worker' = [worker EXCEPT ![w].at = a]
      BY <2>2, Zenon DEF WorkerOpen
    <3>2. worker[w] \in Busy
      BY <3>1, WorkerForms
    <3> QED
      BY <2>0, <3>1, <3>2 DEF Busy
  <2>3. CASE HostInfo(w)
    <3>1. worker[w].at = "asking" /\ worker' = [worker EXCEPT ![w].at = "reading"]
      BY <2>3 DEF HostInfo
    <3>2. worker[w] \in Busy
      BY <3>1, WorkerForms
    <3> QED
      BY <2>0, <3>1, <3>2 DEF Busy
  <2>4. CASE WorkerFails(w)
    BY <2>0, <2>4 DEF WorkerFails
  <2>5. CASE WorkerOpenTorn(w)
    BY <2>0, <2>5 DEF WorkerOpenTorn
  <2> QED
    BY <1>0, <2>1, <2>2, <2>3, <2>4, <2>5, Zenon DEF Step
<1>6. Idle.at = "idle" /\ Exited.at = "exited"
  BY DEF Idle, Exited
<1>7. \A r \in Busy : r.at \in {"open", "asking", "reading", "sending"}
  BY DEF Busy
<1>8. ASSUME NEW v \in Workers, NEW x \in Ids, Working(v, x)'
      PROVE  Working(v, x) /\ worker'[v].path = worker[v].path /\ worker'[v].n = worker[v].n
  BY <1>5, <1>6, <1>7, <1>8, Zenon DEF Working
<1>9. Quiet
  BY <1>1, <1>2, <1>3, <1>6, <1>8, SentNothing DEF Quiet
<1>10. ctx' = TRUE \/ (ctx' = ctx /\ stream' = stream /\ reader' = reader)
  BY <1>0 DEF Step, WorkerExit, WorkerOpen, HostInfo, WorkerFails, WorkerOpenTorn, WorkerUnchanged
<1>11. ctx' = TRUE \/ (ctx' = ctx /\ stream' = stream /\ Loyal)
  <2>1. SUFFICES ASSUME ~(ctx' = TRUE), ctx' = ctx, stream' = stream, reader' = reader
                 PROVE  Loyal
    BY <1>10, Zenon
  <2>2. \A v \in Workers : \A x \in Ids : Working(v, x) => Working(v, x)'
    BY <1>5, <1>6, <1>7, <2>1, Zenon DEF Working
  <2> QED
    BY <1>1, <2>1, <2>2 DEF Loyal, Asking, Queued
<1> QED
  BY <1>1, <1>4, <1>9, <1>11, QuietFrame, QuietAsks, QuietKept, Zenon

LEMMA TakeStep ==
  ASSUME TypeInv, WalkInv, PathInv, HolderInv, ContentInv, AskInv, KeptInv, NEW w \in Workers,
         WorkerTake(w)
  PROVE  WalkInv' /\ PathInv' /\ HolderInv' /\ ContentInv' /\ AskInv' /\ KeptInv'
<1> USE Constants
<1>0. PICK x : x = Head(pipe).id
  OBVIOUS
<1> DEFINE job == [at |-> "open", id |-> x, path |-> Head(pipe).path, n |-> 1]
<1>1. /\ worker[w] = Idle /\ pipe # <<>> /\ pipe' = Tail(pipe)
      /\ worker' = [worker EXCEPT ![w] = IF ctx THEN Exited ELSE job]
      /\ UNCHANGED <<walker, files, reader, ctx, out, in, stream, stats, asked, data, peer>>
  BY <1>0, Zenon DEF WorkerTake, WorkerUnchanged, peerVars
<1>2. /\ Len(pipe) \in Nat \ {0} /\ Head(pipe) = pipe[1] /\ Head(pipe) \in Jobs
      /\ \A k \in 1 .. Len(pipe') : pipe'[k] = pipe[k + 1] /\ k + 1 \in 1 .. Len(pipe)
      /\ \A k \in 1 .. Len(pipe) : k = 1 \/ (k - 1 \in 1 .. Len(pipe') /\ pipe'[k - 1] = pipe[k])
  BY <1>1, TailElements DEF TypeInv
<1>3. x \in Ids /\ pipe[1].id = x /\ x \in asked /\ pipe[1].path = x + 1 /\ 1 \in 1 .. Len(pipe)
  <2>1. \A k \in 1 .. Len(pipe) : pipe[k].id \in asked /\ pipe[k].path = pipe[k].id + 1
    BY Zenon DEF PathInv
  <2>2. x \in Ids /\ pipe[1].id = x
    BY <1>0, <1>2 DEF Jobs
  <2>3. 1 \in 1 .. Len(pipe)
    BY <1>2
  <2> QED
    BY <2>1, <2>2, <2>3
<1>4. /\ job.at = "open" /\ job.id = x /\ job.path = x + 1 /\ job.n = 1
      /\ worker'[w] = IF ctx THEN Exited ELSE job
      /\ \A v \in Workers : v # w => worker'[v] = worker[v]
  BY <1>1, <1>2, <1>3, SMTT(20) DEF TypeInv
<1> HIDE DEF job
<1>5. Idle.at = "idle" /\ Exited.at = "exited"
  BY DEF Idle, Exited
<1>6. \A v \in Workers : \A y \in Ids : Working(v, y)' <=> (Working(v, y) \/ (v = w /\ y = x /\ ~ctx))
  BY <1>1, <1>4, <1>5 DEF Working
<1>7. \A y : (Fresh(y)' <=> Fresh(y)) /\ (Queued(y)' <=> Queued(y))
  BY <1>1 DEF Fresh, Queued
<1>8. Piped(x) /\ Fresh(x) /\ Unworked(x)
  BY <1>3 DEF HolderInv, Piped
<1>9. x \notin DOMAIN files /\ ~Queued(x)
  BY <1>3, <1>8, Zenon DEF HolderInv
<1>10. \A y \in Ids : Piped(y)' => Piped(y)
  BY <1>2 DEF Piped
<1>11. ~Piped(x)'
  <2>1. SUFFICES ASSUME NEW k \in 1 .. Len(pipe'), pipe'[k].id = x PROVE FALSE
    BY DEF Piped
  <2>2. k + 1 \in 1 .. Len(pipe) /\ pipe[k + 1].id = x /\ k + 1 # 1
    BY <1>2, <2>1
  <2> QED
    BY <1>3, <2>2 DEF HolderInv, Single
<1>12. WalkInv'
  BY <1>1 DEF WalkInv
<1>13. PathInv'
  <2>1. \A k \in 1 .. Len(pipe') : pipe'[k].id \in asked' /\ pipe'[k].path = pipe'[k].id + 1
    BY <1>1, <1>2 DEF PathInv
  <2>2. ASSUME NEW v \in Workers, NEW y \in Ids, Working(v, y)'
        PROVE  y \in asked' /\ worker'[v].path = y + 1 /\ worker'[v].n \in 1 .. EndOfData
    <3>1. CASE v = w
      <4>1. ~Working(w, y)
        BY <1>1, <1>5 DEF Working
      <4>2. y = x /\ ~ctx
        BY <1>6, <2>2, <3>1, <4>1
      <4> QED
        BY <1>1, <1>3, <1>4, <3>1, <4>2
    <3>2. CASE v # w
      BY <1>1, <1>4, <1>6, <2>2, <3>2 DEF PathInv
    <3> QED
      BY <3>1, <3>2
  <2> QED
    BY <1>1, <2>1, <2>2 DEF PathInv
<1>14. HolderInv'
  <2>1. ASSUME NEW y \in Ids, NEW j \in 1 .. Len(pipe'), NEW k \in 1 .. Len(pipe'),
               pipe'[j].id = y, pipe'[k].id = y
        PROVE  j = k
    <3>1. j + 1 \in 1 .. Len(pipe) /\ k + 1 \in 1 .. Len(pipe) /\ pipe[j + 1].id = y /\ pipe[k + 1].id = y
      BY <1>2, <2>1, SMTT(20)
    <3>2. j + 1 = k + 1
      BY <3>1 DEF HolderInv, Single
    <3> QED
      BY <3>2
  <2>2. ASSUME NEW y \in Ids, NEW u \in Workers, NEW v \in Workers, Working(u, y)', Working(v, y)'
        PROVE  u = v
    <3>1. CASE y = x
      BY <1>6, <1>8, <2>2, <3>1 DEF Unworked
    <3>2. CASE y # x
      BY <1>6, <2>2, <3>2 DEF HolderInv, Single
    <3> QED
      BY <3>1, <3>2
  <2>3. \A y \in Ids : Single(y)'
    BY <2>1, <2>2 DEF Single
  <2>4. \A y \in Ids : y # x /\ Unworked(y) => Unworked(y)'
    BY <1>6 DEF Unworked
  <2>5. files' = files
    BY <1>1
  <2> QED
    BY <1>7, <1>9, <1>10, <1>11, <2>3, <2>4, <2>5 DEF HolderInv
<1>15. ContentInv'
  <2>1. ASSUME NEW v \in Workers, NEW y \in Ids, Working(v, y)'
        PROVE  Follows(out', DataPackets(y), Len(data'[y]), worker'[v].n - 1)
    <3>1. CASE v = w
      <4>1. ~Working(w, y)
        BY <1>1, <1>5 DEF Working
      <4>2. y = x /\ ~ctx
        BY <1>6, <2>1, <3>1, <4>1
      <4>3. worker'[v].n - 1 = 0
        BY <1>4, <3>1, <4>2
      <4>4. data'[y] = <<>> /\ Follows(out', DataPackets(y), 0, 0)
        BY <1>1, <1>8, <4>2 DEF Fresh
      <4>5. Len(data'[y]) = 0
        BY <4>4
      <4> QED
        BY <4>3, <4>4, <4>5
    <3>2. CASE v # w
      BY <1>1, <1>4, <1>6, <2>1, <3>2 DEF ContentInv
    <3> QED
      BY <3>1, <3>2
  <2> QED
    BY <1>1, <2>1 DEF ContentInv
<1>16. AskInv'
  BY <1>1 DEF AskInv, Complete
<1>17. KeptInv'
  <2>1. SUFFICES ASSUME ~ctx, stream = "open", NEW y \in asked PROVE Kept(y)'
    BY <1>1 DEF KeptInv
  <2>2. y \in Ids /\ Kept(y)
    BY <2>1 DEF KeptInv, TypeInv
  <2>3. (Complete(y) => Complete(y)') /\ (Asking(y) => Asking(y)') /\ (Ending(y) => Ending(y)')
    BY <1>1 DEF Complete, Asking, Ending
  <2>4. Piped(y) => Piped(y)' \/ (Working(w, x)' /\ y = x)
    <3>1. SUFFICES ASSUME NEW k \in 1 .. Len(pipe), pipe[k].id = y PROVE Piped(y)' \/ (Working(w, x)' /\ y = x)
      BY DEF Piped
    <3>2. CASE k = 1
      BY <1>3, <1>6, <2>1, <3>1, <3>2
    <3>3. CASE k # 1
      <4>1. PICK m \in 1 .. Len(pipe') : pipe'[m] = pipe[k]
        BY <1>2, <3>1, <3>3
      <4> QED
        BY <3>1, <4>1 DEF Piped
    <3> QED
      BY <3>2, <3>3
  <2>5. files' = files
    BY <1>1
  <2> QED
    BY <1>6, <1>7, <2>2, <2>3, <2>4, <2>5 DEF Kept
<1> QED
  BY <1>12, <1>13, <1>14, <1>15, <1>16, <1>17

LEMMA SendStep ==
  ASSUME TypeInv, WalkInv, PathInv, HolderInv, ContentInv, AskInv, KeptInv, NEW w \in Workers,
         WorkerSend(w) \/ HostRead(w)
  PROVE  WalkInv' /\ PathInv' /\ HolderInv' /\ ContentInv' /\ AskInv' /\ KeptInv'
<1> USE Constants
<1>1. worker[w].at \in {"sending", "reading"} /\ SendData(w)
  BY DEF WorkerSend, HostRead
<1>2. PICK r \in Busy : r = worker[w]
  BY <1>1, WorkerForms
<1>3. PICK x \in Ids : x = r.id
  BY DEF Busy
<1>4. PICK n \in Nat : n = r.n
  BY DEF Busy
<1>5. PICK p : p = Data(r.id, r.path, r.n)
  OBVIOUS
<1>6. /\ Working(w, x) /\ x \in asked /\ r.path = x + 1 /\ n \in 1 .. EndOfData
      /\ Follows(out, DataPackets(x), Len(data[x]), n - 1)
  <2>1. Working(w, x)
    BY <1>1, <1>2, <1>3 DEF Working
  <2> QED
    BY <1>2, <1>4, <2>1 DEF PathInv, ContentInv
<1>7. /\ p \in OutPackets /\ p \in DataPackets(x) /\ p \notin StatPackets /\ Num(p) = n
      /\ p.type = "DATA" /\ p.id = x /\ p.path = x + 1 /\ p.n = n
      /\ \A y \in Ids : y # x => p \notin DataPackets(y)
  BY <1>3, <1>4, <1>5, <1>6 DEF Data, OutPackets, FilePackets, StatPackets, DataPackets, Num
<1>8. /\ out' = Append(out, p)
      /\ UNCHANGED <<walker, files, pipe, reader, ctx, in, stream, stats, asked, data, peer>>
  BY <1>1, <1>2, <1>5 DEF SendData, SendMsg, WorkerUnchanged, peerVars
<1>9. out \in Seq(OutPackets) /\ \A y \in Ids : Len(data[y]) \in Nat
  BY LenProperties DEF TypeInv
<1>10. /\ Len(out) \in Nat /\ Len(out') = Len(out) + 1 /\ out'[Len(out) + 1] = p
       /\ \A k \in 1 .. Len(out) : out'[k] = out[k]
  BY <1>7, <1>8, <1>9, AppendProperties, LenProperties
<1>11. /\ \A v \in Workers : v # w => worker'[v] = worker[v]
       /\ n = EndOfData => worker'[w] = Idle
       /\ n # EndOfData => /\ worker'[w].at = worker[w].at /\ worker'[w].id = x
                           /\ worker'[w].path = x + 1 /\ worker'[w].n = n + 1
  <2>1. worker' = [worker EXCEPT ![w] = AfterPacket(r)] /\ worker \in [Workers -> Busy \cup {Idle, Exited}]
    BY <1>1, <1>2 DEF SendData, TypeInv
  <2>2. AfterPacket(r) = IF n = EndOfData THEN Idle ELSE [r EXCEPT !.n = n + 1]
    BY <1>4 DEF AfterPacket
  <2>3. worker'[w] = AfterPacket(r) /\ \A v \in Workers : v # w => worker'[v] = worker[v]
    BY <2>1
  <2> QED
    BY <1>2, <1>3, <1>6, <2>2, <2>3 DEF Busy
<1>12. Idle.at = "idle"
  BY DEF Idle
<1>13. ASSUME NEW v \in Workers, NEW y \in Ids, Working(v, y)'
       PROVE  /\ Working(v, y) /\ worker'[v].path = y + 1
              /\ v = w => y = x /\ n # EndOfData /\ worker'[v].n = n + 1
              /\ v # w => worker'[v].n = worker[v].n /\ y # x
  <2>1. CASE v = w
    BY <1>6, <1>11, <1>12, <1>13, <2>1, Zenon DEF Working
  <2>2. CASE v # w
    <3>1. Working(v, y)
      BY <1>11, <1>13, <2>2 DEF Working
    <3>2. y # x
      BY <1>6, <2>2, <3>1 DEF HolderInv, Single
    <3> QED
      BY <1>11, <2>2, <3>1, <3>2 DEF PathInv
  <2> QED
    BY <2>1, <2>2
<1>14. ASSUME NEW y \in Ids, y # x, NEW g \in Nat, NEW top \in Nat, Follows(out, DataPackets(y), g, top)
       PROVE  Follows(out', DataPackets(y), g, top)
  BY <1>7, <1>8, <1>9, <1>14, FollowsAppendOther
<1>15. Follows(out', DataPackets(x), Len(data[x]), n)
  <2>1. n - 1 \in Nat /\ Num(p) = (n - 1) + 1 /\ (n - 1) + 1 = n
    BY <1>6, <1>7
  <2>2. Follows(Append(out, p), DataPackets(x), Len(data[x]), (n - 1) + 1)
    BY <1>6, <1>7, <1>9, <2>1, FollowsAppendNext
  <2> QED
    BY <1>8, <2>1, <2>2
<1>16. WalkInv'
  <2>1. Len(stats) \in Nat /\ walker.entry - 1 \in Nat
    BY LenProperties, SMTT(20) DEF TypeInv, WalkInv
  <2>2. Follows(out, StatPackets, Len(stats), walker.entry - 1)
    BY DEF WalkInv
  <2>3. Follows(out', StatPackets, Len(stats), walker.entry - 1)
    BY <1>7, <1>8, <1>9, <2>1, <2>2, FollowsAppendOther
  <2> QED
    BY <1>8, <2>3 DEF WalkInv
<1>17. PathInv'
  <2>1. \A v \in Workers : \A y \in Ids : Working(v, y)' =>
          y \in asked' /\ worker'[v].path = y + 1 /\ worker'[v].n \in 1 .. EndOfData
    BY <1>6, <1>8, <1>13, SMTT(20) DEF PathInv
  <2>2. ASSUME NEW k \in 1 .. Len(out'), out'[k].type = "DATA"
        PROVE  out'[k].id \in asked' /\ out'[k].path = out'[k].id + 1 /\ out'[k].n \in 1 .. EndOfData
    <3>1. asked' = asked
      BY <1>8
    <3>2. CASE k \in 1 .. Len(out)
      BY <1>10, <2>2, <3>1, <3>2 DEF PathInv
    <3>3. CASE k = Len(out) + 1
      BY <1>6, <1>7, <1>10, <3>1, <3>3
    <3> QED
      BY <1>10, <3>2, <3>3
  <2> QED
    BY <1>8, <2>1, <2>2, Zenon DEF PathInv
<1>18. HolderInv'
  <2>1. \A y \in Ids : Fresh(y) /\ y # x => Fresh(y)'
    BY <1>8, <1>14 DEF Fresh
  <2>2. \A y : (Queued(y)' <=> Queued(y)) /\ (Piped(y)' <=> Piped(y))
    BY <1>8 DEF Queued, Piped
  <2>3. x \notin DOMAIN files /\ ~Queued(x) /\ ~Piped(x)
    BY <1>6 DEF HolderInv, Unworked
  <2>4. \A y \in Ids : (Unworked(y) => Unworked(y)') /\ (Single(y) => Single(y)')
    <3>1. pipe' = pipe
      BY <1>8
    <3> QED
      BY <1>13, <3>1, HeldSame
  <2>5. files' = files
    BY <1>8
  <2> QED
    BY <2>1, <2>2, <2>3, <2>4, <2>5 DEF HolderInv
<1>19. ContentInv'
  <2>1. data' = data /\ asked' = asked
    BY <1>8
  <2>2. ASSUME NEW y \in Ids
        PROVE  \E top \in 0 .. EndOfData : Follows(out', DataPackets(y), Len(data'[y]), top)
    <3>1. CASE y = x
      BY <1>6, <1>15, <2>1, <3>1
    <3>2. CASE y # x
      <4>1. PICK top \in 0 .. EndOfData : Follows(out, DataPackets(y), Len(data[y]), top)
        BY DEF ContentInv
      <4> QED
        BY <1>9, <1>14, <2>1, <3>2, <4>1
    <3> QED
      BY <3>1, <3>2
  <2>3. ASSUME NEW v \in Workers, NEW y \in Ids, Working(v, y)'
        PROVE  Follows(out', DataPackets(y), Len(data'[y]), worker'[v].n - 1)
    <3>1. CASE v = w
      <4>1. y = x /\ worker'[v].n - 1 = n
        BY <1>13, <2>3, <3>1
      <4> QED
        BY <1>15, <2>1, <4>1
    <3>2. CASE v # w
      <4>1. Working(v, y) /\ y # x /\ worker'[v].n = worker[v].n
        BY <1>13, <2>3, <3>2
      <4>2. Follows(out, DataPackets(y), Len(data[y]), worker[v].n - 1) /\ worker[v].n - 1 \in Nat
        BY <4>1, SMTT(20) DEF ContentInv, PathInv
      <4> QED
        BY <1>9, <1>14, <2>1, <4>1, <4>2, Zenon
    <3> QED
      BY <3>1, <3>2
  <2> QED
    BY <2>1, <2>2, <2>3 DEF ContentInv
<1>20. AskInv'
  BY <1>8 DEF AskInv, Complete
<1>21. KeptInv'
  <2>1. SUFFICES ASSUME ~ctx, stream = "open", NEW y \in asked PROVE Kept(y)'
    BY <1>8 DEF KeptInv
  <2>2. y \in Ids /\ Kept(y)
    BY <2>1 DEF KeptInv, TypeInv
  <2>3. /\ Complete(y) => Complete(y)'
        /\ Asking(y) => Asking(y)'
        /\ Queued(y) => Queued(y)'
        /\ Piped(y) => Piped(y)'
    BY <1>8 DEF Complete, Asking, Queued, Piped
  <2>4. Ending(y) => Ending(y)'
    BY <1>10 DEF Ending
  <2>5. ASSUME NEW v \in Workers, Working(v, y)
        PROVE  Working(v, y)' \/ Ending(y)'
    <3>1. CASE v # w
      BY <1>11, <2>5, <3>1 DEF Working
    <3>2. CASE v = w /\ n # EndOfData
      BY <1>2, <1>3, <1>11, <2>5, <3>2 DEF Working
    <3>3. CASE v = w /\ n = EndOfData
      <4>1. y = x
        BY <1>2, <1>3, <2>5, <3>3 DEF Working
      <4>2. Len(out) + 1 \in 1 .. Len(out')
        BY <1>10
      <4> QED
        BY <1>7, <1>10, <3>3, <4>1, <4>2 DEF Ending
    <3> QED
      BY <3>1, <3>2, <3>3
  <2>6. files' = files
    BY <1>8
  <2> QED
    BY <2>2, <2>3, <2>4, <2>5, <2>6 DEF Kept
<1> QED
  BY <1>16, <1>17, <1>18, <1>19, <1>20, <1>21

-----------------------------------------------------------------------------
(***************************************************************************)
(* The receiving goroutine.                                                *)
(***************************************************************************)

LEMMA ReaderQuiet ==
  ASSUME TypeInv, WalkInv, PathInv, HolderInv, ContentInv, AskInv, KeptInv,
         reader' = Exited \/ reader' = [at |-> "recv"], in' = in \/ (in # <<>> /\ in' = Tail(in)),
         UNCHANGED <<walker, files, pipe, worker, stream, stats, asked, data, peer>>,
         out' = out \/ out' = Append(out, Fin),
         \/ ctx' = TRUE
         \/ reader.at = "top" /\ ctx' = ctx /\ in' = in
         \/ peer = "finished" /\ ctx' = ctx
  PROVE  WalkInv' /\ PathInv' /\ HolderInv' /\ ContentInv' /\ AskInv' /\ KeptInv'
<1>1. Fin \in OtherPackets
  BY DEF Fin, OtherPackets
<1>2. stats' = stats /\ \/ out' = out
                        \/ \E p \in OtherPackets : out' = Append(out, p)
  BY <1>1
<1>3. OutKept /\ WalkInv'
  <2>1. /\ OutKept
        /\ Follows(out', StatPackets, Len(stats'), walker.entry - 1)
        /\ \A k \in 1 .. Len(stats') : stats'[k] = k
    BY <1>2, StatsKept
  <2> QED
    BY <2>1 DEF WalkInv
<1>4. \A k \in 1 .. Len(in') : \E j \in 1 .. Len(in) : in[j] = in'[k]
  <2>1. CASE in # <<>> /\ in' = Tail(in)
    <3>1. in \in Seq(InPackets)
      BY DEF TypeInv
    <3> QED
      BY <2>1, <3>1, TailElements
  <2>2. CASE in' = in
    BY <2>2
  <2> QED
    BY <2>1, <2>2
<1>5. \A w, x : Working(w, x)' <=> Working(w, x)
  BY DEF Working
<1>6. reader'.at # "queue"
  BY DEF Exited
<1>7. Quiet
  BY <1>3, <1>4, <1>5, <1>6 DEF Quiet
<1>8. KeptInv'
  <2>1. CASE ctx' = TRUE
    BY <1>7, <2>1, QuietKept
  <2>2. CASE reader.at = "top" /\ ctx' = ctx /\ in' = in
    <3>1. Loyal
      BY <1>5, <2>2 DEF Loyal, Asking, Queued
    <3> QED
      BY <1>7, <2>2, <3>1, QuietKept
  <2>3. CASE peer = "finished" /\ ctx' = ctx
    <3>1. \A x \in asked : Complete(x)'
      BY <2>3, CompleteSame DEF AskInv, TypeInv
    <3>2. \A x \in asked' : Kept(x)'
      BY <3>1 DEF Kept
    <3> QED
      BY <3>2 DEF KeptInv
  <2> QED
    BY <2>1, <2>2, <2>3, Zenon
<1> QED
  BY <1>3, <1>4, <1>7, <1>8, QuietFrame, QuietAsks

LEMMA RequestStep ==
  ASSUME TypeInv, WalkInv, PathInv, HolderInv, ContentInv, AskInv, KeptInv,
         ReaderRequest, Head(in).id \in DOMAIN files
  PROVE  WalkInv' /\ PathInv' /\ HolderInv' /\ ContentInv' /\ AskInv' /\ KeptInv'
<1> USE Constants
<1>0. PICK x : x = Head(in).id
  OBVIOUS
<1>1. /\ reader.at = "recv" /\ in # <<>> /\ Head(in).type = "REQ" /\ in' = Tail(in)
      /\ reader' = [at |-> "queue", id |-> x, path |-> files[x]]
      /\ files' = Restrict(files, DOMAIN files \ {x})
      /\ UNCHANGED <<walker, pipe, worker, ctx, out, stream, stats, asked, data, peer>>
  BY <1>0 DEF ReaderRequest, peerVars
<1>2. /\ Len(in) \in Nat \ {0} /\ Head(in) = in[1]
      /\ \A k \in 1 .. Len(in') : in'[k] = in[k + 1] /\ k + 1 \in 1 .. Len(in)
      /\ \A k \in 1 .. Len(in) : k = 1 \/ (k - 1 \in 1 .. Len(in') /\ in'[k - 1] = in[k])
  BY <1>1, TailElements, SMTT(20) DEF TypeInv
<1>3. x \in DOMAIN files /\ x \in Ids /\ x \in asked /\ files[x] = x + 1
  <2>1. x \in DOMAIN files /\ x \in Ids /\ files[x] = x + 1
    BY <1>0 DEF TypeInv, PathInv
  <2>2. 1 \in 1 .. Len(in) /\ in[1].type = "REQ" /\ in[1].id = x
    BY <1>0, <1>1, <1>2
  <2> QED
    BY <2>1, <2>2 DEF PathInv
<1>4. DOMAIN files' = DOMAIN files \ {x} /\ \A y \in DOMAIN files' : files'[y] = files[y]
  BY <1>1 DEF Restrict
<1>5. \A y : Fresh(y)' <=> Fresh(y)
  BY <1>1 DEF Fresh
<1>6. \A y : Piped(y)' <=> Piped(y)
  BY <1>1 DEF Piped
<1>7. \A w, y : Working(w, y)' <=> Working(w, y)
  BY <1>1 DEF Working
<1>8. \A y : (Queued(y)' <=> y = x) /\ ~Queued(y)
  BY <1>1 DEF Queued
<1>9. Fresh(x) /\ ~Piped(x) /\ Unworked(x)
  BY <1>3 DEF HolderInv
<1>10. WalkInv'
  BY <1>1 DEF WalkInv
<1>11. PathInv'
  <2>1. \A y \in DOMAIN files' : files'[y] = y + 1 /\ y < walker'.i
    BY <1>1, <1>4, Zenon DEF PathInv
  <2>2. reader'.at = "queue" => reader'.id \in asked' /\ reader'.path = reader'.id + 1
    BY <1>1, <1>3
  <2>3. \A k \in 1 .. Len(in') : in'[k].type = "REQ" => in'[k].id \in asked'
    <3>1. \A k \in 1 .. Len(in) : in[k].type = "REQ" => in[k].id \in asked
      BY Zenon DEF PathInv
    <3> QED
      BY <1>1, <1>2, <3>1, ZenonT(30)
  <2>4. \A k \in 1 .. Len(pipe') : pipe'[k].id \in asked' /\ pipe'[k].path = pipe'[k].id + 1
    BY <1>1 DEF PathInv
  <2>5. \A w \in Workers : \A y \in Ids : Working(w, y)' =>
          y \in asked' /\ worker'[w].path = y + 1 /\ worker'[w].n \in 1 .. EndOfData
    BY <1>1, <1>7 DEF PathInv
  <2>6. \A k \in 1 .. Len(out') : out'[k].type = "DATA" =>
          out'[k].id \in asked' /\ out'[k].path = out'[k].id + 1 /\ out'[k].n \in 1 .. EndOfData
    BY <1>1 DEF PathInv
  <2>7. \A y \in asked' : y < Len(stats')
    BY <1>1 DEF PathInv
  <2> QED
    BY <2>1, <2>2, <2>3, <2>4, <2>5, <2>6, <2>7, Zenon DEF PathInv
<1>12. HolderInv'
  <2>1. pipe' = pipe
    BY <1>1
  <2>2. \A y \in Ids : (Unworked(y) => Unworked(y)') /\ (Single(y) => Single(y)')
    BY <1>7, <2>1, HeldSame
  <2> QED
    BY <1>4, <1>5, <1>6, <1>8, <1>9, <2>2 DEF HolderInv
<1>13. ContentInv'
  BY <1>1, <1>7 DEF ContentInv
<1>14. AskInv'
  <2>1. \A y \in Ids : y < walker'.i /\ y + 1 \in Regular /\ y \notin asked' => y \in DOMAIN files'
    BY <1>1, <1>3, <1>4 DEF AskInv
  <2>2. \A k \in 1 .. Len(in') : in'[k].type = "FIN" => peer' = "finished"
    BY <1>1, <1>2 DEF AskInv
  <2>3. peer' = "finished" => \A y \in asked' : Complete(y)'
    BY <1>1, CompleteSame DEF AskInv, TypeInv
  <2> QED
    BY <2>1, <2>2, <2>3 DEF AskInv
<1>15. KeptInv'
  <2>1. SUFFICES ASSUME ~ctx, stream = "open", NEW y \in asked PROVE Kept(y)'
    BY <1>1 DEF KeptInv
  <2>2. y \in Ids /\ Kept(y)
    BY <2>1 DEF KeptInv, TypeInv
  <2>3. (Complete(y) => Complete(y)') /\ (Ending(y) => Ending(y)')
    BY <1>1 DEF Complete, Ending
  <2>4. ASSUME y # x, Asking(y) PROVE Asking(y)'
    <3>1. PICK k \in 1 .. Len(in) : in[k] = Req(y)
      BY <2>4 DEF Asking
    <3>2. k # 1
      BY <1>0, <1>2, <2>4, <3>1 DEF Req
    <3>3. PICK m \in 1 .. Len(in') : in'[m] = in[k]
      BY <1>2, <3>2
    <3>4. Req(y)' = Req(y)
      BY DEF Req
    <3> QED
      BY <3>1, <3>3, <3>4 DEF Asking
  <2> QED
    BY <1>4, <1>6, <1>7, <1>8, <2>2, <2>3, <2>4 DEF Kept
<1> QED
  BY <1>10, <1>11, <1>12, <1>13, <1>14, <1>15

LEMMA QueueStep ==
  ASSUME TypeInv, WalkInv, PathInv, HolderInv, ContentInv, AskInv, KeptInv, ReaderQueue
  PROVE  WalkInv' /\ PathInv' /\ HolderInv' /\ ContentInv' /\ AskInv' /\ KeptInv'
<1> USE Constants
<1>0. PICK x : x = reader.id
  OBVIOUS
<1> DEFINE job == [id |-> x, path |-> reader.path]
<1>1. /\ reader.at = "queue" /\ reader' = [at |-> "top"] /\ pipe' = Append(pipe, job)
      /\ UNCHANGED <<walker, files, worker, ctx, out, in, stream, stats, asked, data, peer>>
  BY <1>0 DEF ReaderQueue, wireVars, peerVars
<1>2. x \in Ids /\ x \in asked /\ reader.path = x + 1 /\ reader \in Queueing
  BY <1>0, <1>1, SMTT(20) DEF PathInv, TypeInv, Queueing, Exited
<1>3. job \in Jobs /\ job.id = x /\ job.path = x + 1
  BY <1>2 DEF Jobs, Queueing
<1> HIDE DEF job
<1>4. /\ Len(pipe) \in Nat /\ Len(pipe') = Len(pipe) + 1 /\ pipe'[Len(pipe) + 1] = job
      /\ \A k \in 1 .. Len(pipe) : pipe'[k] = pipe[k]
  BY <1>1, <1>3, AppendProperties, LenProperties DEF TypeInv
<1>5. \A k \in 1 .. Len(pipe') : k \in 1 .. Len(pipe) \/ k = Len(pipe) + 1
  BY <1>4
<1>6. Queued(x)
  BY <1>0, <1>1 DEF Queued
<1>7. Fresh(x) /\ ~Piped(x) /\ Unworked(x) /\ x \notin DOMAIN files
  BY <1>2, <1>6 DEF HolderInv
<1>8. \A y : Fresh(y)' <=> Fresh(y)
  BY <1>1 DEF Fresh
<1>9. \A w, y : Working(w, y)' <=> Working(w, y)
  BY <1>1 DEF Working
<1>10. \A y : ~Queued(y)' /\ (Queued(y) <=> y = x)
  BY <1>0, <1>1 DEF Queued
<1>11. \A y : Piped(y)' <=> (Piped(y) \/ y = x)
  <2>1. \A y : Piped(y)' => Piped(y) \/ y = x
    BY <1>3, <1>4, <1>5 DEF Piped
  <2>2. \A k \in 1 .. Len(pipe) : k \in 1 .. Len(pipe')
    BY <1>4
  <2>3. \A y : Piped(y) => Piped(y)'
    BY <1>4, <2>2 DEF Piped
  <2>4. Len(pipe) + 1 \in 1 .. Len(pipe')
    BY <1>4
  <2>5. Piped(x)'
    BY <1>3, <1>4, <2>4 DEF Piped
  <2> QED
    BY <2>1, <2>3, <2>5
<1>12. WalkInv'
  BY <1>1 DEF WalkInv
<1>13. PathInv'
  <2>1. \A k \in 1 .. Len(pipe') : pipe'[k].id \in asked' /\ pipe'[k].path = pipe'[k].id + 1
    BY <1>1, <1>2, <1>3, <1>4, <1>5 DEF PathInv
  <2>2. reader'.at # "queue"
    BY <1>1
  <2> QED
    BY <1>1, <1>9, <2>1, <2>2, Zenon DEF PathInv
<1>14. HolderInv'
  <2>1. ASSUME NEW y \in Ids, NEW j \in 1 .. Len(pipe'), NEW k \in 1 .. Len(pipe'),
               pipe'[j].id = y, pipe'[k].id = y
        PROVE  j = k
    <3>1. \A m \in 1 .. Len(pipe) : pipe[m].id # x
      BY <1>7 DEF Piped
    <3>2. CASE j = Len(pipe) + 1 \/ k = Len(pipe) + 1
      BY <1>3, <1>4, <1>5, <2>1, <3>1, <3>2
    <3>3. CASE j \in 1 .. Len(pipe) /\ k \in 1 .. Len(pipe)
      BY <1>4, <2>1, <3>3 DEF HolderInv, Single
    <3> QED
      BY <1>5, <3>2, <3>3
  <2>2. files' = files
    BY <1>1
  <2>3. \A y \in Ids : Unworked(y) => Unworked(y)'
    BY <1>9 DEF Unworked
  <2>4. \A y \in Ids : Single(y)'
    BY <1>9, <2>1 DEF HolderInv, Single
  <2> QED
    BY <1>7, <1>8, <1>10, <1>11, <2>2, <2>3, <2>4 DEF HolderInv
<1>15. ContentInv'
  BY <1>1, <1>9, Zenon DEF ContentInv
<1>16. AskInv'
  BY <1>1, Zenon DEF AskInv, Complete
<1>17. KeptInv'
  <2>1. SUFFICES ASSUME ~ctx, stream = "open", NEW y \in asked PROVE Kept(y)'
    BY <1>1 DEF KeptInv
  <2>2. y \in Ids /\ Kept(y)
    BY <2>1 DEF KeptInv, TypeInv
  <2>3. (Complete(y) => Complete(y)') /\ (Ending(y) => Ending(y)') /\ (Asking(y) => Asking(y)')
    BY <1>1 DEF Complete, Ending, Asking
  <2>4. files' = files
    BY <1>1
  <2> QED
    BY <1>9, <1>10, <1>11, <2>2, <2>3, <2>4 DEF Kept
<1> QED
  BY <1>12, <1>13, <1>14, <1>15, <1>16, <1>17

LEMMA ReaderStep ==
  ASSUME TypeInv, WalkInv, PathInv, HolderInv, ContentInv, AskInv, KeptInv, Reader
  PROVE  WalkInv' /\ PathInv' /\ HolderInv' /\ ContentInv' /\ AskInv' /\ KeptInv'
<1>1. CASE ReaderTop
  <2>1. /\ reader' = Exited \/ reader' = [at |-> "recv"]
        /\ UNCHANGED <<walker, files, pipe, worker, stream, stats, asked, data, peer>>
        /\ ctx' = TRUE \/ ctx' = ctx
    BY <1>1, Zenon DEF ReaderTop, ReaderExits, wireVars, peerVars
  <2>2. reader.at = "top" /\ in' = in /\ out' = out
    BY <1>1 DEF ReaderTop, wireVars
  <2> QED
    BY <2>1, <2>2, ReaderQuiet, Zenon
<1>2. CASE ReaderRequest /\ Head(in).id \in DOMAIN files
  BY <1>2, RequestStep
<1>3. CASE ReaderRequest /\ Head(in).id \notin DOMAIN files
  <2>1. /\ reader' = Exited /\ ctx' = TRUE /\ in # <<>> /\ in' = Tail(in) /\ out' = out
        /\ UNCHANGED <<walker, files, pipe, worker, stream, stats, asked, data, peer>>
    BY <1>3, Zenon DEF ReaderRequest, ReaderExits, peerVars
  <2> QED
    BY <2>1, ReaderQuiet
<1>4. CASE ReaderQueue
  BY <1>4, QueueStep
<1>5. CASE ReaderFin
  <2>1. /\ reader' = Exited /\ in # <<>> /\ in' = Tail(in) /\ Head(in) = Fin
        /\ out' = out \/ out' = Append(out, Fin)
        /\ UNCHANGED <<walker, files, pipe, worker, stream, stats, asked, data, peer>>
    BY <1>5 DEF ReaderFin, ReaderExits, SendMsg, peerVars
  <2>2. ctx' = TRUE \/ ctx' = ctx
    BY <1>5, Zenon DEF ReaderFin, ReaderExits, TypeInv
  <2>3. 1 \in 1 .. Len(in) /\ in[1].type = "FIN"
    BY <2>1, TailElements DEF TypeInv, Fin
  <2>4. peer = "finished"
    BY <2>3 DEF AskInv
  <2> QED
    BY <2>1, <2>2, <2>4, ReaderQuiet, Zenon
<1>6. CASE ReaderErr
  <2>1. /\ reader' = Exited /\ ctx' = TRUE /\ in # <<>> /\ in' = Tail(in) /\ out' = out
        /\ UNCHANGED <<walker, files, pipe, worker, stream, stats, asked, data, peer>>
    BY <1>6, Zenon DEF ReaderErr, ReaderExits, peerVars
  <2> QED
    BY <2>1, ReaderQuiet
<1>7. CASE ReaderStreamGone
  <2>1. /\ reader' = Exited /\ ctx' = TRUE /\ in' = in /\ out' = out
        /\ UNCHANGED <<walker, files, pipe, worker, stream, stats, asked, data, peer>>
    BY <1>7, Zenon DEF ReaderStreamGone, ReaderExits, wireVars, peerVars
  <2> QED
    BY <2>1, ReaderQuiet
<1> QED
  BY <1>1, <1>2, <1>3, <1>4, <1>5, <1>6, <1>7 DEF Reader

-----------------------------------------------------------------------------
(***************************************************************************)
(* BuildKit's receiver.                                                    *)
(***************************************************************************)

\* What is left on the stream once its first packet has been taken.
LEMMA Received ==
  ASSUME TypeInv, out # <<>>, out' = Tail(out)
  PROVE  /\ out \in Seq(OutPackets) /\ Head(out) \in OutPackets /\ Len(out) \in Nat \ {0} /\ Head(out) = out[1]
         /\ \A k \in 1 .. Len(out') : out'[k] = out[k + 1] /\ k + 1 \in 1 .. Len(out)
         /\ \A k \in 1 .. Len(out) : k = 1 \/ \E j \in 1 .. Len(out') : out'[j] = out[k]
         /\ \A x \in Ids : \A g, top \in Nat :
              Head(out) \notin DataPackets(x) /\ Follows(out, DataPackets(x), g, top)
                => Follows(out', DataPackets(x), g, top)
<1>1. out \in Seq(OutPackets)
  BY DEF TypeInv
<1>2. /\ Head(out) \in OutPackets /\ Len(out) \in Nat \ {0} /\ Head(out) = out[1]
      /\ \A k \in 1 .. Len(out') : out'[k] = out[k + 1] /\ k + 1 \in 1 .. Len(out)
      /\ \A k \in 1 .. Len(out) : k = 1 \/ (k - 1 \in 1 .. Len(out') /\ out'[k - 1] = out[k])
  BY <1>1, TailElements
<1>3. \A k \in 1 .. Len(out) : k = 1 \/ \E j \in 1 .. Len(out') : out'[j] = out[k]
  BY <1>2
<1>4. \A x \in Ids : \A g, top \in Nat :
        Head(out) \notin DataPackets(x) /\ Follows(out, DataPackets(x), g, top)
          => Follows(out', DataPackets(x), g, top)
  BY <1>1, FollowsTailOther
<1> QED
  BY <1>1, <1>2, <1>3, <1>4

\* The announcements arrive in the order of the walk.
LEMMA ReceivedStats ==
  ASSUME TypeInv, WalkInv, out # <<>>, out' = Tail(out), walker' = walker,
         stats' = IF Head(out).type = "STAT" THEN Append(stats, Head(out).path) ELSE stats
  PROVE  WalkInv' /\ Len(stats) \in Nat /\ Len(stats') \in Nat /\ Len(stats) <= Len(stats')
<1> DEFINE e == walker.entry - 1
<1>1. /\ Len(stats) \in Nat /\ stats \in Seq(Nat) /\ e \in Nat
      /\ Follows(out, StatPackets, Len(stats), e) /\ out \in Seq(OutPackets)
  BY LenProperties DEF TypeInv, WalkInv
<1> HIDE DEF e
<1>2. Head(out) \in OutPackets
  BY Received
<1>3. CASE Head(out).type = "STAT"
  <2>1. Head(out) \in StatPackets /\ Head(out).path \in Nat /\ Num(Head(out)) = Head(out).path
    BY <1>2, <1>3 DEF OutPackets, StatPackets, FilePackets, OtherPackets, Num
  <2>2. Num(Head(out)) = Len(stats) + 1 /\ Follows(Tail(out), StatPackets, Len(stats) + 1, e)
    BY <1>1, <2>1, FollowsTailNext
  <2>3. stats' = Append(stats, Len(stats) + 1)
    BY <1>3, <2>1, <2>2
  <2>4. /\ Len(stats') = Len(stats) + 1 /\ stats'[Len(stats) + 1] = Len(stats) + 1
        /\ \A k \in 1 .. Len(stats) : stats'[k] = stats[k]
    BY <1>1, <2>3, AppendProperties
  <2>5. Follows(out', StatPackets, Len(stats'), walker'.entry - 1)
    BY <2>2, <2>4 DEF e
  <2>6. \A k \in 1 .. Len(stats') : stats'[k] = k
    BY <1>1, <2>4 DEF WalkInv
  <2>7. WalkInv'
    BY <2>5, <2>6 DEF WalkInv
  <2> QED
    BY <1>1, <2>4, <2>7
<1>4. CASE Head(out).type # "STAT"
  <2>1. Head(out) \notin StatPackets
    BY <1>4 DEF StatPackets
  <2>2. Follows(out', StatPackets, Len(stats), e)
    BY <1>1, <2>1, FollowsTailOther
  <2>3. stats' = stats
    BY <1>4
  <2>4. WalkInv'
    BY <2>2, <2>3 DEF WalkInv, e
  <2> QED
    BY <1>1, <2>3, <2>4
<1> QED
  BY <1>3, <1>4

LEMMA ReceiveOther ==
  ASSUME TypeInv, WalkInv, PathInv, HolderInv, ContentInv, AskInv, KeptInv,
         PeerReceives, Head(out).type # "DATA"
  PROVE  WalkInv' /\ PathInv' /\ HolderInv' /\ ContentInv' /\ AskInv' /\ KeptInv'
<1>1. /\ peer = "active" /\ out # <<>> /\ out' = Tail(out)
      /\ UNCHANGED <<walker, files, pipe, worker, reader, ctx, stream, asked, data>>
      /\ stats' = IF Head(out).type = "STAT" THEN Append(stats, Head(out).path) ELSE stats
  BY DEF PeerReceives, sendVars
<1>2. (peer' = peer /\ in' = in) \/ (peer' = "failed" /\ in' = Append(in, Err))
  BY DEF PeerReceives
<1>3. WalkInv' /\ Len(stats) \in Nat /\ Len(stats') \in Nat /\ Len(stats) <= Len(stats')
  BY <1>1, ReceivedStats
<1>4. OutKept
  <2>1. \A x \in Ids : Head(out) \notin DataPackets(x)
    BY DEF DataPackets
  <2>2. \A x \in Ids : \A g, top \in Nat :
          Follows(out, DataPackets(x), g, top) => Follows(out', DataPackets(x), g, top)
    BY <1>1, <2>1, Received
  <2>3. \A k \in 1 .. Len(out') : \E j \in 1 .. Len(out) : out[j] = out'[k]
    BY <1>1, Received
  <2>4. \A k \in 1 .. Len(out) : out[k].type = "DATA" => \E j \in 1 .. Len(out') : out'[j] = out[k]
    BY <1>1, Received
  <2> QED
    BY <2>2, <2>3, <2>4 DEF OutKept
<1>5. \A w, x : Working(w, x)' <=> Working(w, x)
  BY <1>1 DEF Working
<1>6. /\ \A k \in 1 .. Len(in') : in'[k].type \in {"REQ", "FIN"} => \E j \in 1 .. Len(in) : in[j] = in'[k]
      /\ \A k \in 1 .. Len(in) : \E j \in 1 .. Len(in') : in'[j] = in[k]
  <2>1. CASE in' = in
    BY <2>1
  <2>2. CASE in' = Append(in, Err)
    <3>1. Err \in InPackets /\ Err.type = "ERR" /\ in \in Seq(InPackets)
      BY DEF Err, InPackets, TypeInv
    <3>2. /\ Len(in) \in Nat /\ Len(in') = Len(in) + 1 /\ in'[Len(in) + 1] = Err
          /\ \A k \in 1 .. Len(in) : in'[k] = in[k]
      BY <2>2, <3>1, AppendProperties, LenProperties
    <3>3. /\ \A k \in 1 .. Len(in') : k \in 1 .. Len(in) \/ k = Len(in) + 1
          /\ \A k \in 1 .. Len(in) : k \in 1 .. Len(in')
      BY <3>2
    <3> QED
      BY <3>1, <3>2, <3>3
  <2> QED
    BY <1>2, <2>1, <2>2, Zenon
<1>7. Quiet
  <2>1. \A x \in asked : x < Len(stats) => x < Len(stats')
    BY <1>3, Constants DEF TypeInv
  <2> QED
    BY <1>1, <1>4, <1>5, <1>6, <2>1 DEF Quiet
<1>8. Loyal
  BY <1>1, <1>5, <1>6 DEF Loyal, Asking, Queued, Req
<1> QED
  BY <1>1, <1>2, <1>3, <1>6, <1>7, <1>8, QuietFrame, QuietAsks, QuietKept

LEMMA ReceiveData ==
  ASSUME TypeInv, WalkInv, PathInv, HolderInv, ContentInv, AskInv, KeptInv,
         PeerReceives, Head(out).type = "DATA"
  PROVE  WalkInv' /\ PathInv' /\ HolderInv' /\ ContentInv' /\ AskInv' /\ KeptInv'
<1> USE Constants
<1>0. PICK p : p = Head(out)
  OBVIOUS
<1>1. /\ peer = "active" /\ out # <<>> /\ out' = Tail(out) /\ p.type = "DATA"
      /\ UNCHANGED <<walker, files, pipe, worker, reader, ctx, in, stream, stats, asked, peer>>
      /\ data' = [data EXCEPT ![p.id] = Append(data[p.id], p)]
  BY <1>0 DEF PeerReceives, sendVars
<1>2. /\ p \in OutPackets /\ Len(out) \in Nat \ {0} /\ p = out[1]
      /\ \A k \in 1 .. Len(out') : out'[k] = out[k + 1] /\ k + 1 \in 1 .. Len(out)
      /\ \A k \in 1 .. Len(out) : k = 1 \/ \E j \in 1 .. Len(out') : out'[j] = out[k]
      /\ \A y \in Ids : \A g, top \in Nat :
           p \notin DataPackets(y) /\ Follows(out, DataPackets(y), g, top)
             => Follows(out', DataPackets(y), g, top)
  BY <1>0, <1>1, Received
<1>3. PICK x \in Ids : x = p.id
  BY <1>1, <1>2 DEF OutPackets, StatPackets, FilePackets, OtherPackets
<1>4. /\ p \in FilePackets /\ p \in DataPackets(x) /\ Num(p) = p.n /\ p.n \in Nat
      /\ \A y \in Ids : y # x => p \notin DataPackets(y)
  BY <1>1, <1>2, <1>3 DEF OutPackets, StatPackets, FilePackets, OtherPackets, DataPackets, Num
<1>5. x \in asked /\ p.path = x + 1 /\ p.n \in 1 .. EndOfData
  <2>1. 1 \in 1 .. Len(out)
    BY <1>2
  <2> QED
    BY <1>1, <1>2, <1>3, <2>1 DEF PathInv
<1>6. data \in [Ids -> Seq(FilePackets)] /\ \A y \in Ids : Len(data[y]) \in Nat
  BY LenProperties DEF TypeInv
<1>7. data'[x] = Append(data[x], p) /\ \A y \in Ids : y # x => data'[y] = data[y]
  BY <1>1, <1>3, <1>6
<1>8. /\ Len(data'[x]) = Len(data[x]) + 1 /\ data'[x][Len(data[x]) + 1] = p /\ data'[x] # <<>>
      /\ \A k \in 1 .. Len(data[x]) : data'[x][k] = data[x][k]
  <2>1. data[x] \in Seq(FilePackets)
    BY <1>6
  <2>2. /\ Append(data[x], p) # <<>> /\ Len(Append(data[x], p)) = Len(data[x]) + 1
        /\ Append(data[x], p)[Len(data[x]) + 1] = p
        /\ \A k \in 1 .. Len(data[x]) : Append(data[x], p)[k] = data[x][k]
    BY <1>4, <2>1, AppendProperties
  <2> QED
    BY <1>7, <2>2
<1>9. ASSUME NEW top \in Nat, Follows(out, DataPackets(x), Len(data[x]), top)
      PROVE  p.n = Len(data[x]) + 1 /\ Follows(out', DataPackets(x), Len(data'[x]), top)
  <2>1. out \in Seq(OutPackets) /\ Head(out) \in DataPackets(x) /\ Len(data[x]) \in Nat
    BY <1>0, <1>4, <1>6 DEF TypeInv
  <2>2. Num(Head(out)) = Len(data[x]) + 1 /\ Follows(Tail(out), DataPackets(x), Len(data[x]) + 1, top)
    BY <1>1, <1>9, <2>1, FollowsTailNext
  <2> QED
    BY <1>0, <1>1, <1>4, <1>8, <2>2
<1>10. p.n = Len(data[x]) + 1
  BY <1>9 DEF ContentInv
<1>11. WalkInv'
  <2>1. stats' = IF Head(out).type = "STAT" THEN Append(stats, Head(out).path) ELSE stats
    BY DEF PeerReceives
  <2> QED
    BY <1>1, <2>1, ReceivedStats
<1>12. \A w, y : Working(w, y)' <=> Working(w, y)
  BY <1>1 DEF Working
<1>13. \A y : (Queued(y)' <=> Queued(y)) /\ (Piped(y)' <=> Piped(y))
  BY <1>1 DEF Queued, Piped
<1>14. PathInv'
  <2>1. \A k \in 1 .. Len(out') : out'[k].type = "DATA" =>
          out'[k].id \in asked' /\ out'[k].path = out'[k].id + 1 /\ out'[k].n \in 1 .. EndOfData
    BY <1>1, <1>2 DEF PathInv
  <2> QED
    BY <1>1, <1>12, <2>1 DEF PathInv
<1>15. HolderInv'
  <2>1. ~Fresh(x)
    <3>1. SUFFICES ASSUME data[x] = <<>>, Follows(out, DataPackets(x), 0, 0) PROVE FALSE
      BY DEF Fresh
    <3>2. 1 \in 1 .. Len(out) /\ out[1] \in DataPackets(x)
      BY <1>2, <1>4
    <3>3. Num(out[1]) \in (0 + 1) .. 0
      BY <3>1, <3>2 DEF Follows
    <3> QED
      BY <3>3
  <2>2. \A y \in Ids : Fresh(y) => Fresh(y)'
    BY <1>2, <1>4, <1>7, <2>1 DEF Fresh
  <2>3. files' = files /\ pipe' = pipe
    BY <1>1
  <2>4. \A y \in Ids : (Unworked(y) => Unworked(y)') /\ (Single(y) => Single(y)')
    BY <1>12, <2>3, HeldSame
  <2> QED
    BY <1>13, <2>2, <2>3, <2>4 DEF HolderInv
<1>16. ContentInv'
  <2>1. ASSUME NEW y \in Ids
        PROVE  /\ \A k \in 1 .. Len(data'[y]) : data'[y][k].path = y + 1 /\ data'[y][k].n = k
               /\ data'[y] # <<>> => y \in asked'
    <3>1. CASE y = x
      <4>1. \A k \in 1 .. Len(data'[x]) : k \in 1 .. Len(data[x]) \/ k = Len(data[x]) + 1
        BY <1>6, <1>8
      <4>2. \A k \in 1 .. Len(data[x]) : data[x][k].path = x + 1 /\ data[x][k].n = k
        BY DEF ContentInv
      <4> QED
        BY <1>1, <1>5, <1>8, <1>10, <3>1, <4>1, <4>2, SMTT(20)
    <3>2. CASE y # x
      BY <1>1, <1>7, <3>2, SMTT(20) DEF ContentInv
    <3> QED
      BY <3>1, <3>2
  <2>2. ASSUME NEW y \in Ids, NEW top \in Nat, Follows(out, DataPackets(y), Len(data[y]), top)
        PROVE  Follows(out', DataPackets(y), Len(data'[y]), top)
    <3>1. CASE y = x
      BY <1>9, <2>2, <3>1
    <3>2. CASE y # x
      BY <1>2, <1>4, <1>6, <1>7, <2>2, <3>2
    <3> QED
      BY <3>1, <3>2
  <2>3. \A y \in Ids : \E top \in 0 .. EndOfData : Follows(out', DataPackets(y), Len(data'[y]), top)
    BY <2>2 DEF ContentInv
  <2>4. ASSUME NEW y \in Ids, NEW w \in Workers, Working(w, y)'
        PROVE  Follows(out', DataPackets(y), Len(data'[y]), worker'[w].n - 1)
    <3>1. Working(w, y)
      BY <1>12, <2>4
    <3>2. worker[w].n - 1 \in Nat /\ Follows(out, DataPackets(y), Len(data[y]), worker[w].n - 1)
      BY <3>1, SMTT(20) DEF PathInv, ContentInv
    <3> QED
      BY <1>1, <2>2, <3>2
  <2> QED
    BY <2>1, <2>3, <2>4, Zenon DEF ContentInv
<1>17. AskInv'
  BY <1>1 DEF AskInv
<1>18. KeptInv'
  <2>1. SUFFICES ASSUME ~ctx, stream = "open", NEW y \in asked PROVE Kept(y)'
    BY <1>1 DEF KeptInv
  <2>2. y \in Ids /\ Kept(y)
    BY <2>1 DEF KeptInv, TypeInv
  <2>3. Complete(y) => Complete(y)'
    <3>1. CASE y # x
      BY <1>7, <2>2, <3>1 DEF Complete
    <3>2. CASE y = x
      <4>1. SUFFICES ASSUME Complete(x) PROVE FALSE
        BY <3>2
      <4>2. data[x] # <<>> /\ data[x][Len(data[x])].n = EndOfData
        BY <4>1 DEF Complete
      <4>3. Len(data[x]) \in 1 .. Len(data[x])
        BY <1>6, <4>2, EmptySeq
      <4>4. Len(data[x]) = EndOfData
        BY <4>2, <4>3, SMTT(20) DEF ContentInv
      <4> QED
        BY <1>5, <1>6, <1>10, <4>4
    <3> QED
      BY <3>1, <3>2
  <2>4. Ending(y) => Ending(y)' \/ Complete(y)'
    <3>1. SUFFICES ASSUME NEW k \in 1 .. Len(out), out[k].type = "DATA", out[k].id = y, out[k].n = EndOfData
                   PROVE  Ending(y)' \/ Complete(y)'
      BY DEF Ending
    <3>2. CASE k = 1
      <4>1. y = x /\ p.n = EndOfData
        BY <1>2, <1>3, <3>1, <3>2
      <4>2. data'[x] # <<>> /\ data'[x][Len(data'[x])].n = EndOfData
        BY <1>8, <4>1
      <4> QED
        BY <4>1, <4>2 DEF Complete, EndOfData
    <3>3. CASE k # 1
      <4>1. PICK j \in 1 .. Len(out') : out'[j] = out[k]
        BY <1>2, <3>3
      <4> QED
        BY <3>1, <4>1 DEF Ending, EndOfData
    <3> QED
      BY <3>2, <3>3
  <2>5. Asking(y) => Asking(y)'
    BY <1>1 DEF Asking
  <2>6. files' = files
    BY <1>1
  <2> QED
    BY <1>12, <1>13, <2>2, <2>3, <2>4, <2>5, <2>6 DEF Kept
<1> QED
  BY <1>11, <1>14, <1>15, <1>16, <1>17, <1>18

LEMMA AskStep ==
  ASSUME TypeInv, WalkInv, PathInv, HolderInv, ContentInv, AskInv, KeptInv, NEW x \in Ids, PeerAsks(x)
  PROVE  WalkInv' /\ PathInv' /\ HolderInv' /\ ContentInv' /\ AskInv' /\ KeptInv'
<1> USE Constants
<1>1. /\ peer = "active" /\ x < Len(stats) /\ stats[x + 1] \in Regular /\ x \notin asked
      /\ asked' = asked \cup {x} /\ in' = Append(in, Req(x))
      /\ UNCHANGED <<walker, files, pipe, worker, reader, ctx, out, stream, stats, data, peer>>
  BY DEF PeerAsks, sendVars
<1>2. /\ Len(in) \in Nat /\ Len(in') = Len(in) + 1 /\ in'[Len(in) + 1] = Req(x)
      /\ \A k \in 1 .. Len(in) : in'[k] = in[k]
  <2>1. Req(x) \in InPackets /\ in \in Seq(InPackets)
    BY DEF Req, InPackets, TypeInv
  <2> QED
    BY <1>1, <2>1, AppendProperties, LenProperties
<1>3. /\ \A k \in 1 .. Len(in') : k \in 1 .. Len(in) \/ k = Len(in) + 1
      /\ \A k \in 1 .. Len(in) : k \in 1 .. Len(in')
      /\ Len(in) + 1 \in 1 .. Len(in')
  BY <1>2
<1>4. Req(x).type = "REQ" /\ Req(x).id = x
  BY DEF Req
<1>5. x \in DOMAIN files
  <2>1. Len(stats) \in Nat /\ walker.entry \in Nat /\ walker.i \in Nat
    BY LenProperties DEF TypeInv
  <2>2. Len(stats) <= walker.entry - 1 /\ walker.entry - 1 <= walker.i
    BY <2>1 DEF WalkInv, Follows
  <2>3. stats[x + 1] = x + 1
    BY <1>1, <2>1 DEF WalkInv
  <2>4. x < walker.i /\ x + 1 \in Regular
    BY <1>1, <2>1, <2>2, <2>3
  <2> QED
    BY <1>1, <2>4 DEF AskInv
<1>6. \A w, y : Working(w, y)' <=> Working(w, y)
  BY <1>1 DEF Working
<1>7. \A y : (Queued(y)' <=> Queued(y)) /\ (Piped(y)' <=> Piped(y)) /\ (Fresh(y)' <=> Fresh(y))
  BY <1>1 DEF Queued, Piped, Fresh
<1>8. WalkInv'
  BY <1>1 DEF WalkInv
<1>9. PathInv'
  <2>1. \A k \in 1 .. Len(in') : in'[k].type = "REQ" => in'[k].id \in asked'
    BY <1>1, <1>2, <1>3, <1>4, Zenon DEF PathInv
  <2>2. \A y \in asked' : y < Len(stats')
    BY <1>1, Zenon DEF PathInv
  <2> QED
    BY <1>1, <1>6, <2>1, <2>2, SMTT(20) DEF PathInv
<1>10. HolderInv'
  <2>1. files' = files /\ pipe' = pipe
    BY <1>1
  <2>2. \A y \in Ids : (Unworked(y) => Unworked(y)') /\ (Single(y) => Single(y)')
    BY <1>6, <2>1, HeldSame
  <2> QED
    BY <1>7, <2>1, <2>2 DEF HolderInv
<1>11. ContentInv'
  BY <1>1, <1>6, SMTT(20) DEF ContentInv
<1>12. AskInv'
  <2>1. \A k \in 1 .. Len(in') : in'[k].type = "FIN" => peer' = "finished"
    BY <1>1, <1>2, <1>3, <1>4 DEF AskInv
  <2> QED
    BY <1>1, <2>1, Zenon DEF AskInv
<1>13. KeptInv'
  <2>1. SUFFICES ASSUME ~ctx, stream = "open", NEW y \in asked' PROVE Kept(y)'
    BY <1>1 DEF KeptInv
  <2>2. files' = files
    BY <1>1
  <2>3. CASE y = x
    <3>1. Asking(x)'
      BY <1>2, <1>3 DEF Asking, Req
    <3> QED
      BY <1>5, <2>2, <2>3, <3>1 DEF Kept
  <2>4. CASE y # x
    <3>1. y \in Ids /\ Kept(y)
      BY <1>1, <2>1, <2>4 DEF KeptInv, TypeInv
    <3>2. (Complete(y) => Complete(y)') /\ (Ending(y) => Ending(y)')
      BY <1>1 DEF Complete, Ending
    <3>3. Asking(y) => Asking(y)'
      BY <1>2, <1>3 DEF Asking, Req
    <3> QED
      BY <1>6, <1>7, <2>2, <3>1, <3>2, <3>3 DEF Kept
  <2> QED
    BY <2>3, <2>4
<1> QED
  BY <1>8, <1>9, <1>10, <1>11, <1>12, <1>13

LEMMA FinishStep ==
  ASSUME TypeInv, WalkInv, PathInv, HolderInv, ContentInv, AskInv, KeptInv, PeerFinishes
  PROVE  WalkInv' /\ PathInv' /\ HolderInv' /\ ContentInv' /\ AskInv' /\ KeptInv'
<1>1. /\ peer' = "finished" /\ in' = Append(in, Fin) /\ \A x \in asked : Complete(x)
      /\ UNCHANGED <<walker, files, pipe, worker, reader, ctx, out, stream, stats, asked, data>>
  BY DEF PeerFinishes, sendVars
<1>2. Fin \in InPackets /\ Fin.type = "FIN" /\ in \in Seq(InPackets)
  BY DEF Fin, InPackets, TypeInv
<1>3. /\ Len(in) \in Nat /\ Len(in') = Len(in) + 1 /\ in'[Len(in) + 1] = Fin
      /\ \A k \in 1 .. Len(in) : in'[k] = in[k]
  BY <1>1, <1>2, AppendProperties, LenProperties
<1>4. \A k \in 1 .. Len(in') : k \in 1 .. Len(in) \/ k = Len(in) + 1
  BY <1>3
<1>5. \A w, x : Working(w, x)' <=> Working(w, x)
  BY <1>1 DEF Working
<1>6. Quiet
  <2>1. \A k \in 1 .. Len(in') : in'[k].type = "REQ" => \E j \in 1 .. Len(in) : in[j] = in'[k]
    BY <1>2, <1>3, <1>4
  <2> QED
    BY <1>1, <1>5, <2>1, SentNothing DEF Quiet
<1>7. \A x \in asked : Complete(x)'
  BY <1>1, CompleteSame DEF TypeInv
<1>8. AskInv'
  BY <1>1, <1>7 DEF AskInv
<1>9. KeptInv'
  BY <1>1, <1>7 DEF KeptInv, Kept
<1>10. WalkInv'
  BY <1>1 DEF WalkInv
<1> QED
  BY <1>6, <1>8, <1>9, <1>10, QuietFrame

\* A step of none of the parts: the stream breaks, or run returns, or nothing happens.
LEMMA RestStep ==
  ASSUME TypeInv, WalkInv, PathInv, HolderInv, ContentInv, AskInv, KeptInv,
         StreamEnds \/ RunReturns \/ UNCHANGED vars
  PROVE  WalkInv' /\ PathInv' /\ HolderInv' /\ ContentInv' /\ AskInv' /\ KeptInv'
<1>1. UNCHANGED <<walker, files, pipe, worker, reader, ctx, out, in, stats, asked, data, peer>>
  BY Zenon DEF StreamEnds, RunReturns, vars, sendVars, wireVars, peerVars
<1>2. stream' = "gone" \/ stream' = stream
  BY DEF StreamEnds, RunReturns, vars, wireVars
<1>3. \A w, x : Working(w, x)' <=> Working(w, x)
  BY <1>1, Zenon DEF Working
<1>4. Quiet
  BY <1>1, <1>3, SentNothing, Zenon DEF Quiet
<1>5. Loyal
  BY <1>1, <1>3 DEF Loyal, Asking, Queued
<1>6. WalkInv'
  BY <1>1 DEF WalkInv
<1> QED
  BY <1>1, <1>2, <1>4, <1>5, <1>6, QuietFrame, QuietAsks, QuietKept, Zenon

-----------------------------------------------------------------------------
(***************************************************************************)
(* The theorems.                                                           *)
(***************************************************************************)

LEMMA IInvInit == Init => IInv
<1> SUFFICES ASSUME Init PROVE IInv
  OBVIOUS
<1> USE Constants
<1>1. /\ walker = [at |-> "entry", entry |-> 1, i |-> 0] /\ files = <<>> /\ pipe = <<>>
      /\ worker = [w \in Workers |-> Idle] /\ reader = [at |-> "top"] /\ ctx = FALSE
      /\ out = <<>> /\ in = <<>> /\ stream = "open" /\ stats = <<>> /\ asked = {}
      /\ data = [x \in Ids |-> <<>>] /\ peer = "active"
  BY DEF Init
<1>2. DOMAIN files = {} /\ Len(pipe) = 0 /\ Len(out) = 0 /\ Len(in) = 0 /\ Len(stats) = 0
  BY <1>1
<1>3. \A x \in Ids : data[x] = <<>> /\ Len(data[x]) = 0
  BY <1>1
<1>4. \A S : Follows(out, S, 0, 0)
  BY <1>2 DEF Follows
<1>5. \A w \in Workers : \A x \in Ids : ~Working(w, x)
  BY <1>1 DEF Working, Idle
<1>6. TypeInv
  <2>1. files \in [DOMAIN files -> Nat] /\ DOMAIN files \subseteq Ids
    BY <1>1, <1>2
  <2>2. pipe \in Seq(Jobs) /\ out \in Seq(OutPackets) /\ in \in Seq(InPackets) /\ stats \in Seq(Nat)
    BY <1>1
  <2>3. data \in [Ids -> Seq(FilePackets)]
    BY <1>1
  <2> QED
    BY <1>1, <2>1, <2>2, <2>3 DEF TypeInv
<1>7. WalkInv
  BY <1>1, <1>2, <1>4 DEF WalkInv
<1>8. PathInv
  BY <1>1, <1>2, <1>5 DEF PathInv
<1>9. HolderInv
  BY <1>1, <1>2, <1>5 DEF HolderInv, Queued, Piped, Single
<1>10. ContentInv
  BY <1>3, <1>4, <1>5 DEF ContentInv
<1>11. AskInv
  BY <1>1, <1>2 DEF AskInv
<1>12. KeptInv
  BY <1>1 DEF KeptInv
<1> QED
  BY <1>6, <1>7, <1>8, <1>9, <1>10, <1>11, <1>12 DEF IInv

LEMMA IInvStep == IInv /\ [Next]_vars => IInv'
<1> SUFFICES ASSUME TypeInv, WalkInv, PathInv, HolderInv, ContentInv, AskInv, KeptInv, [Next]_vars
             PROVE  IInv'
  BY DEF IInv
<1>1. CASE Walk \/ WalkFails
  BY <1>1, WalkTypes, WalkStep DEF IInv
<1>2. CASE Reader
  BY <1>2, ReaderTypes, ReaderStep DEF IInv
<1>3. CASE PeerReceives
  BY <1>3, PeerTypes, ReceiveOther, ReceiveData DEF IInv, Peer
<1>4. CASE PeerFinishes
  BY <1>4, PeerTypes, FinishStep DEF IInv, Peer
<1>5. CASE StreamEnds \/ RunReturns
  BY <1>5, PeerTypes, RestStep DEF IInv
<1>6. ASSUME NEW id \in Ids, PeerAsks(id) PROVE IInv'
  BY <1>6, PeerTypes, AskStep DEF IInv
<1>7. ASSUME NEW w \in Workers, Worker(w) \/ Host(w) \/ WorkerFails(w) \/ WorkerOpenTorn(w)
      PROVE  IInv'
  <2>1. TypeInv'
    BY <1>7, WorkerTypes
  <2>2. CASE WorkerTake(w)
    BY <2>1, <2>2, TakeStep DEF IInv
  <2>3. CASE WorkerSend(w) \/ HostRead(w)
    BY <2>1, <2>3, SendStep DEF IInv
  <2>4. CASE WorkerExit(w) \/ WorkerOpen(w) \/ HostInfo(w) \/ WorkerFails(w) \/ WorkerOpenTorn(w)
    BY <2>1, <2>4, WorkerQuiet DEF IInv
  <2> QED
    BY <1>7, <2>2, <2>3, <2>4 DEF Worker, Host
<1>8. CASE UNCHANGED vars
  <2>1. TypeInv'
    BY <1>8 DEF TypeInv, vars, sendVars, wireVars, peerVars
  <2> QED
    BY <1>8, <2>1, RestStep DEF IInv
<1> QED
  BY <1>1, <1>2, <1>3, <1>4, <1>5, <1>6, <1>7, <1>8 DEF Next, Peer

LEMMA Invariance == Spec => []IInv
BY IInvInit, IInvStep, PTL DEF Spec

(* What BuildKit holds under an id is the content of the entry it counts   *)
(* under that id, from the first packet on and in order, for any number of *)
(* entries, workers and packets: PeerReceives files each packet of         *)
(* sendFile under the id that the walk gave the entry.                     *)
THEOREM Contents == Spec => []ContentMatches
<1>1. IInv => ContentMatches
  <2> SUFFICES ASSUME TypeInv, WalkInv, PathInv, ContentInv, NEW x \in Ids, NEW k \in DOMAIN data[x]
               PROVE  x < Len(stats) /\ data[x][k].path = stats[x + 1] /\ data[x][k].n = k
    BY DEF IInv, ContentMatches
  <2>1. data[x] \in Seq(FilePackets) /\ Len(stats) \in Nat
    BY LenProperties DEF TypeInv
  <2>2. k \in 1 .. Len(data[x]) /\ data[x] # <<>>
    BY <2>1
  <2>3. x \in asked /\ data[x][k].path = x + 1 /\ data[x][k].n = k
    BY <2>2 DEF ContentInv
  <2>4. x < Len(stats)
    BY <2>3 DEF PathInv
  <2>5. stats[x + 1] = x + 1
    BY <2>1, <2>4, Constants DEF WalkInv
  <2> QED
    BY <2>3, <2>4, <2>5
<1> QED
  BY <1>1, Invariance, PTL

(* While nothing has failed, a request that BuildKit has made is never     *)
(* lost between the files map, queue, sendpipeline, the workers and the    *)
(* stream, and its id is never refused: for any number of workers and any  *)
(* capacity of sendpipeline.                                               *)
THEOREM Requests == Spec => []RequestsKept
<1>1. IInv => RequestsKept
  <2> SUFFICES ASSUME TypeInv, KeptInv, ~ctx, stream = "open", NEW x \in asked
               PROVE  \/ Complete(x)
                      \/ x \in DOMAIN files /\ \E k \in DOMAIN in : in[k] = Req(x)
                      \/ reader.at = "queue" /\ reader.id = x
                      \/ \E k \in DOMAIN pipe : pipe[k].id = x
                      \/ \E w \in Workers : worker[w] \notin {Idle, Exited} /\ worker[w].id = x
                      \/ \E k \in DOMAIN out : out[k].type = "DATA" /\ out[k].id = x /\ out[k].n = EndOfData
    BY DEF IInv, RequestsKept
  <2>1. Kept(x)
    BY DEF KeptInv
  <2>2. DOMAIN in = 1 .. Len(in) /\ DOMAIN pipe = 1 .. Len(pipe) /\ DOMAIN out = 1 .. Len(out)
    BY LenProperties DEF TypeInv
  <2>3. ASSUME NEW w \in Workers, Working(w, x)
        PROVE  worker[w] \notin {Idle, Exited} /\ worker[w].id = x
    BY <2>3 DEF Working, Idle, Exited
  <2> QED
    BY <2>1, <2>2, <2>3 DEF Kept, Asking, Queued, Piped, Ending
<1> QED
  BY <1>1, Invariance, PTL
=============================================================================
