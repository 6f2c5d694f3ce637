------------------------------ MODULE DiffCopy ------------------------------
(***************************************************************************)
(* The sender of FSSyncProxy.DiffCopy: the walk goroutine that announces   *)
(* the files of the context, the goroutine that receives BuildKit's        *)
(* requests, and the workers that send file contents, all in one errgroup  *)
(* and over one stream.  BuildKit's receiver (fsutil) and the host that    *)
(* answers Info and Read requests are external.                            *)
(*                                                                         *)
(* A worker opens a file with FS.Open: in the unpacked cache if the walk   *)
(* has stored the checksum of the context, on the host otherwise.          *)
(*                                                                         *)
(* An entry of the walk stands for its path and content; its id is the     *)
(* number of entries announced before it, which both ends count alone.     *)
(***************************************************************************)
EXTENDS Naturals, Sequences, FiniteSets, Functions

CONSTANTS
  Entries,   \* how many entries the walk yields
  Regular,   \* the entries that are regular files
  Synthetic, \* those of them that are served from memory
  Workers,   \* 64 in the code
  PipeCap,   \* capacity of sendpipeline (128 in the code)
  Chunks     \* DATA packets of a file

ASSUME ConstantsOK ==
  /\ Entries \in Nat /\ Regular \subseteq 1..Entries /\ Synthetic \subseteq Regular
  /\ IsFiniteSet(Workers) /\ Workers # {}
  /\ PipeCap \in Nat \ {0} /\ Chunks \in Nat

VARIABLES
  walker,    \* the walk goroutine: its step, its entry and its counter i
  files,     \* the files map: id to path
  pipe,      \* sendpipeline
  closed,    \* has sendpipeline been closed?
  checksum,  \* has FS.Walk stored the checksum of the unpacked context?
  worker,    \* each worker: idle, opening or sending a file, or exited
  reader,    \* the receiving goroutine
  ctx,       \* is the errgroup's context cancelled?
  out,       \* packets on their way to BuildKit
  in,        \* packets on their way to the sender
  stream,    \* "open" or "gone"
  stats,     \* BuildKit: the entries announced, in order
  last,      \* BuildKit: has the end of the announcements arrived?
  asked,     \* BuildKit: ids requested
  data,      \* BuildKit: the DATA packets of each id
  peer,      \* BuildKit: "active", "finished" or "failed"
  run        \* sender.run: "running", "returned" or "crashed"

sendVars == <<walker, files, pipe, closed, checksum, worker, reader, ctx>>
peerVars == <<stats, last, asked, data, peer>>
wireVars == <<out, in, stream>>
vars == <<sendVars, wireVars, peerVars, run>>

Ids == 0..Entries

Stat(e)        == [type |-> "STAT", path |-> e]
LastStat       == [type |-> "LAST"]
Data(id, e, n) == [type |-> "DATA", id |-> id, path |-> e, n |-> n]
EndOfData      == Chunks + 1   \* the empty DATA packet that ends a file
Fin            == [type |-> "FIN"]
Err            == [type |-> "ERR"]
Req(id)        == [type |-> "REQ", id |-> id]

Idle   == [at |-> "idle"]
Exited == [at |-> "exited"]

Init ==
  /\ walker = [at |-> "entry", entry |-> 1, i |-> 0]
  /\ files = <<>> /\ pipe = <<>> /\ closed = FALSE /\ checksum = FALSE
  /\ worker = [w \in Workers |-> Idle]
  /\ reader = [at |-> "top"]
  /\ ctx = FALSE
  /\ out = <<>> /\ in = <<>> /\ stream = "open"
  /\ stats = <<>> /\ last = FALSE /\ asked = {}
  /\ data = [id \in Ids |-> <<>>] /\ peer = "active"
  /\ run = "running"

\* SendMsg on the shared stream, one packet at a time.
SendMsg(p) == stream = "open" /\ out' = Append(out, p)

-----------------------------------------------------------------------------
(***************************************************************************)
(* sender.walk.                                                            *)
(***************************************************************************)

\* Mutant: the counter moves on before the file is stored.
FileIdShifted == walker.i + 1

\* The id of an entry: how many the walk has announced before it.
FileId == walker.i

\* The walk callback stores a regular file under the next id ...
WalkRegister ==
  /\ walker.at = "entry" /\ walker.entry <= Entries
  /\ files' = IF walker.entry \in Regular
              THEN [x \in DOMAIN files \cup {FileId} |->
                      IF x = FileId THEN walker.entry ELSE files[x]]
              ELSE files
  /\ walker' = [walker EXCEPT !.at = "stat", !.i = @ + 1]
  /\ UNCHANGED <<pipe, closed, checksum, worker, reader, ctx, wireVars, peerVars, run>>

\* ... and announces the entry.
WalkStat ==
  /\ walker.at = "stat"
  /\ SendMsg(Stat(walker.entry))
  /\ walker' = [walker EXCEPT !.at = "entry", !.entry = @ + 1]
  /\ UNCHANGED <<files, pipe, closed, checksum, worker, reader, ctx, in, stream, peerVars, run>>

(* FS.Walk is through with the entries and writes the checksum under its   *)
(* mutex, which Open does not take: the write is a step with a duration.   *)
WalkStores ==
  /\ walker.at = "entry" /\ walker.entry > Entries
  /\ walker' = [walker EXCEPT !.at = "storing"]
  /\ UNCHANGED <<files, pipe, closed, checksum, worker, reader, ctx, wireVars, peerVars, run>>

WalkStored ==
  /\ walker.at = "storing"
  /\ checksum' = TRUE
  /\ walker' = [walker EXCEPT !.at = "last"]
  /\ UNCHANGED <<files, pipe, closed, worker, reader, ctx, wireVars, peerVars, run>>

WalkLast ==
  /\ walker.at = "last"
  /\ SendMsg(LastStat)
  /\ walker' = [walker EXCEPT !.at = "exited"]
  /\ UNCHANGED <<files, pipe, closed, checksum, worker, reader, ctx, in, stream, peerVars, run>>

(* The walk of the context fails (at any entry, or before the first), or   *)
(* SendMsg does: BuildKit is told if the stream still works.               *)
WalkFails ==
  /\ walker.at \in {"entry", "stat", "last"}
  /\ walker' = [walker EXCEPT !.at = "exited"]
  /\ IF stream = "open" THEN SendMsg(Err) ELSE UNCHANGED out
  /\ ctx' = TRUE
  /\ UNCHANGED <<files, pipe, closed, checksum, worker, reader, in, stream, peerVars, run>>

-----------------------------------------------------------------------------
(***************************************************************************)
(* The workers and sendFile.                                               *)
(***************************************************************************)

WorkerUnchanged == UNCHANGED <<walker, files, closed, checksum, reader, in, peerVars>>

WorkerTake(w) ==
  /\ worker[w] = Idle
  /\ pipe # <<>>
  /\ pipe' = Tail(pipe)
  /\ worker' = [worker EXCEPT ![w] =
       IF ctx THEN Exited
       ELSE [at |-> "open", id |-> Head(pipe).id, path |-> Head(pipe).path, n |-> 1]]
  /\ UNCHANGED <<ctx, out, stream, run>> /\ WorkerUnchanged

\* sendpipeline is closed and drained.
WorkerExit(w) ==
  /\ worker[w] = Idle
  /\ pipe = <<>> /\ closed
  /\ worker' = [worker EXCEPT ![w] = Exited]
  /\ UNCHANGED <<pipe, ctx, out, stream, run>> /\ WorkerUnchanged

(* What getChecksum may return to Open: while the walk writes the string,  *)
(* the old value, the new one, or the length of one with the pointer of    *)
(* the other.                                                              *)
ChecksumRead ==
  CASE walker.at = "storing" -> {"empty", "set", "torn"}
    [] walker.at # "storing" /\ checksum -> {"set"}
    [] OTHER -> {"empty"}

(* sendFile starts: the Dockerfile is in memory, a file of the context is  *)
(* opened in the cache, or else its Info is requested from the host.       *)
WorkerOpen(w) ==
  /\ worker[w].at = "open"
  /\ \E from \in IF worker[w].path \in Synthetic THEN {"set"} ELSE ChecksumRead \ {"torn"} :
       worker' = [worker EXCEPT ![w].at = IF from = "set" THEN "sending" ELSE "asking"]
  /\ UNCHANGED <<pipe, ctx, out, stream, run>> /\ WorkerUnchanged

\* Open follows a torn string and takes the whole process down.
WorkerOpenTorn(w) ==
  /\ worker[w].at = "open" /\ worker[w].path \notin Synthetic
  /\ "torn" \in ChecksumRead
  /\ run' = "crashed" /\ stream' = "gone" /\ ctx' = TRUE /\ closed' = TRUE
  /\ worker' = [x \in Workers |-> Exited] /\ reader' = Exited
  /\ walker' = [walker EXCEPT !.at = "exited"]
  /\ UNCHANGED <<files, pipe, checksum, out, in, peerVars>>

\* The host answers the Info request, which no context of the build ends.
HostInfo(w) ==
  /\ worker[w].at = "asking"
  /\ worker' = [worker EXCEPT ![w].at = "reading"]
  /\ UNCHANGED <<pipe, ctx, out, stream, run>> /\ WorkerUnchanged

\* Mutant: the worker asks for the next file before it has ended this one.
AfterPacketNoEnd(w) ==
  IF w.n >= Chunks THEN Idle ELSE [w EXCEPT !.n = @ + 1]

\* The empty packet is the last one of a file.
AfterPacket(w) ==
  IF w.n = EndOfData THEN Idle ELSE [w EXCEPT !.n = @ + 1]

SendData(w) ==
  /\ SendMsg(Data(worker[w].id, worker[w].path, worker[w].n))
  /\ worker' = [worker EXCEPT ![w] = AfterPacket(@)]
  /\ UNCHANGED <<pipe, ctx, stream, run>> /\ WorkerUnchanged

\* One DATA packet of a local file ...
WorkerSend(w) == worker[w].at = "sending" /\ SendData(w)

\* ... and one of a file on the host: File.Read asks for the next bytes.
HostRead(w) == worker[w].at = "reading" /\ SendData(w)

\* The file cannot be opened or read, or SendMsg fails.
WorkerFails(w) ==
  /\ worker[w].at \in {"open", "asking", "reading", "sending"}
  /\ worker' = [worker EXCEPT ![w] = Exited]
  /\ ctx' = TRUE
  /\ UNCHANGED <<pipe, out, stream, run>> /\ WorkerUnchanged

-----------------------------------------------------------------------------
(***************************************************************************)
(* The receiving goroutine and queue.                                      *)
(***************************************************************************)

\* It returns, with an error or not, and closes sendpipeline.
ReaderExits(failed) ==
  /\ reader' = Exited
  /\ closed' = TRUE
  /\ ctx' = (ctx \/ failed)

ReaderTop ==
  /\ reader.at = "top"
  /\ IF ctx THEN ReaderExits(TRUE)
     ELSE reader' = [at |-> "recv"] /\ UNCHANGED <<closed, ctx>>
  /\ UNCHANGED <<walker, files, pipe, checksum, worker, wireVars, peerVars, run>>

\* A request: the id is looked up and used up.
ReaderRequest ==
  /\ reader.at = "recv"
  /\ in # <<>> /\ Head(in).type = "REQ"
  /\ in' = Tail(in)
  /\ LET id == Head(in).id
     IN IF id \in DOMAIN files
        THEN /\ reader' = [at |-> "queue", id |-> id, path |-> files[id]]
             /\ files' = Restrict(files, DOMAIN files \ {id})
             /\ UNCHANGED <<closed, ctx>>
        ELSE ReaderExits(TRUE) /\ UNCHANGED files
  /\ UNCHANGED <<walker, pipe, checksum, worker, out, stream, peerVars, run>>

\* Mutant: queue does not wait for room, the request is dropped.
ReaderQueueOrDrop ==
  /\ reader.at = "queue"
  /\ pipe' = IF Len(pipe) < PipeCap
             THEN Append(pipe, [id |-> reader.id, path |-> reader.path]) ELSE pipe
  /\ reader' = [at |-> "top"]
  /\ UNCHANGED <<walker, files, closed, checksum, worker, ctx, wireVars, peerVars, run>>

\* queue waits for room in sendpipeline, and for nothing else.
ReaderQueue ==
  /\ reader.at = "queue"
  /\ Len(pipe) < PipeCap
  /\ pipe' = Append(pipe, [id |-> reader.id, path |-> reader.path])
  /\ reader' = [at |-> "top"]
  /\ UNCHANGED <<walker, files, closed, checksum, worker, ctx, wireVars, peerVars, run>>

ReaderFin ==
  /\ reader.at = "recv"
  /\ in # <<>> /\ Head(in) = Fin
  /\ in' = Tail(in)
  /\ IF stream = "open" THEN SendMsg(Fin) /\ ReaderExits(FALSE)
     ELSE ReaderExits(TRUE) /\ UNCHANGED out
  /\ UNCHANGED <<walker, files, pipe, checksum, worker, stream, peerVars, run>>

ReaderErr ==
  /\ reader.at = "recv"
  /\ in # <<>> /\ Head(in) = Err
  /\ in' = Tail(in)
  /\ ReaderExits(TRUE)
  /\ UNCHANGED <<walker, files, pipe, checksum, worker, out, stream, peerVars, run>>

\* Mutant: the receiving goroutine tries again when RecvMsg fails.
ReaderStreamGoneRetry ==
  /\ reader.at = "recv"
  /\ stream = "gone"
  /\ reader' = [at |-> "top"]
  /\ UNCHANGED <<walker, files, pipe, closed, checksum, worker, ctx, wireVars, peerVars, run>>

\* RecvMsg fails.
ReaderStreamGone ==
  /\ reader.at = "recv"
  /\ stream = "gone"
  /\ ReaderExits(TRUE)
  /\ UNCHANGED <<walker, files, pipe, checksum, worker, wireVars, peerVars, run>>

\* errgroup's Wait.
RunReturns ==
  /\ run = "running"
  /\ walker.at = "exited" /\ reader = Exited
  /\ \A w \in Workers : worker[w] = Exited
  /\ run' = "returned"
  /\ UNCHANGED <<sendVars, wireVars, peerVars>>

-----------------------------------------------------------------------------
(***************************************************************************)
(* BuildKit's receiver.                                                    *)
(***************************************************************************)

PeerReceives ==
  /\ peer = "active" /\ stream = "open"
  /\ out # <<>>
  /\ out' = Tail(out)
  /\ LET p == Head(out)
     IN /\ stats' = IF p.type = "STAT" THEN Append(stats, p.path) ELSE stats
        /\ last' = (last \/ p.type = "LAST")
        /\ data' = IF p.type = "DATA" THEN [data EXCEPT ![p.id] = Append(@, p)] ELSE data
        /\ peer' = IF p.type = "ERR" THEN "failed" ELSE peer
        /\ in' = IF p.type = "ERR" THEN Append(in, Err) ELSE in
  /\ UNCHANGED <<sendVars, stream, asked, run>>

\* It counts the announced entries and may ask once for a regular file.
PeerAsks(id) ==
  /\ peer = "active" /\ stream = "open"
  /\ id < Len(stats) /\ stats[id + 1] \in Regular
  /\ id \notin asked
  /\ asked' = asked \cup {id}
  /\ in' = Append(in, Req(id))
  /\ UNCHANGED <<sendVars, out, stream, stats, last, data, peer, run>>

Complete(id) == data[id] # <<>> /\ data[id][Len(data[id])].n = EndOfData

PeerFinishes ==
  /\ peer = "active" /\ stream = "open"
  /\ last /\ \A id \in asked : Complete(id)
  /\ peer' = "finished"
  /\ in' = Append(in, Fin)
  /\ UNCHANGED <<sendVars, out, stream, stats, last, asked, data, run>>

\* The solve is cancelled, or the receiver has failed: the stream ends.
StreamEnds ==
  /\ stream = "open"
  /\ stream' = "gone"
  /\ UNCHANGED <<sendVars, out, in, peerVars, run>>

-----------------------------------------------------------------------------
Walk      == WalkRegister \/ WalkStat \/ WalkStores \/ WalkStored \/ WalkLast
Worker(w) == WorkerTake(w) \/ WorkerExit(w) \/ WorkerOpen(w) \/ WorkerSend(w)
Host(w)   == HostInfo(w) \/ HostRead(w)

\* The context of the stream, which ends a worker's reads but not its Info request.
WorkerGone(w) == stream = "gone" /\ worker[w].at # "asking" /\ WorkerFails(w)
Reader    == ReaderTop \/ ReaderRequest \/ ReaderQueue \/ ReaderFin \/ ReaderErr \/ ReaderStreamGone
Peer      == PeerReceives \/ PeerFinishes

Next ==
  \/ Walk \/ WalkFails \/ Reader \/ RunReturns \/ Peer \/ StreamEnds
  \/ \E w \in Workers : Worker(w) \/ Host(w) \/ WorkerFails(w) \/ WorkerOpenTorn(w)
  \/ \E id \in Ids : PeerAsks(id)

Spec == Init /\ [][Next]_vars

(* Goroutines keep running, and a SendMsg or a read on a dead stream       *)
(* fails.  BuildKit reads what it is sent and finishes when it has it all. *)
FairSpec ==
  /\ Spec
  /\ WF_vars(Walk) /\ WF_vars(Reader) /\ WF_vars(RunReturns) /\ WF_vars(Peer)
  /\ WF_vars(stream = "gone" /\ WalkFails)
  /\ \A w \in Workers : WF_vars(Worker(w)) /\ WF_vars(WorkerGone(w))

\* A host that answers the requests of the workers.
HostFairness == \A w \in Workers : WF_vars(Host(w))

-----------------------------------------------------------------------------
(***************************************************************************)
(* Properties.                                                             *)
(***************************************************************************)

(* What BuildKit receives under an id is the content of the entry it knows *)
(* by that id, from the first packet on, in order and nothing twice,       *)
(* although two sides count ids alone and many workers share the stream.   *)
ContentMatches ==
  \A id \in Ids : \A k \in DOMAIN data[id] :
    /\ id < Len(stats) /\ data[id][k].path = stats[id + 1]
    /\ data[id][k].n = k

(* While nothing has failed, every requested file is complete, or queued,  *)
(* or being opened or sent, or its packets are on the way: no request is   *)
(* forgotten, and none is refused as an "invalid file id", because the id  *)
(* is stored before the entry is announced.                                *)
RequestsKept ==
  ~ctx /\ stream = "open" => \A id \in asked :
    \/ Complete(id)
    \/ id \in DOMAIN files /\ \E k \in DOMAIN in : in[k] = Req(id)
    \/ reader.at = "queue" /\ reader.id = id
    \/ \E k \in DOMAIN pipe : pipe[k].id = id
    \/ \E w \in Workers : worker[w] \notin {Idle, Exited} /\ worker[w].id = id
    \/ \E k \in DOMAIN out : out[k].type = "DATA" /\ out[k].id = id /\ out[k].n = EndOfData

\* queue waits for room that no worker is left to make.
QueueStuck ==
  reader.at = "queue" /\ Len(pipe) = PipeCap /\ \A w \in Workers : worker[w] = Exited

\* FS.Open waits for an answer of the host, under a context nobody cancels.
OpenStuck == \E w \in Workers : worker[w].at = "asking"

(* A transfer in which nothing fails comes to its end, provided the host   *)
(* answers for the files that are opened there while the walk goes on.     *)
Finishes == HostFairness => <>(run = "returned" \/ ctx \/ stream = "gone")

(* When BuildKit ends the stream, DiffCopy returns.  Two exceptions: a     *)
(* queue that waits for room after every worker has failed, and an Open    *)
(* that waits for the host.                                                *)
ReturnsWithStream == stream = "gone" ~> (run # "running" \/ QueueStuck \/ OpenStuck)
=============================================================================
