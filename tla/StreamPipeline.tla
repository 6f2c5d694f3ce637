--------------------------- MODULE StreamPipeline ---------------------------
(***************************************************************************)
(* The duplex gRPC stream of one build and everything that shares it: the  *)
(* callers (UnimplementedBaseStage.Request and the walks that register a   *)
(* Demultiplexer themselves), the sendPackets and receivePackets           *)
(* goroutines of StreamPipeline, and one UnimplementedBaseStage.Run        *)
(* goroutine per stage.  The host on the other end is external.            *)
(*                                                                         *)
(* Every call has a fresh uuid, so the call itself is the demux key.  A    *)
(* packet is reduced to the call it answers, its position among the        *)
(* answers of that call, and the stage whose Filter accepts it.            *)
(***************************************************************************)
EXTENDS Naturals, Sequences, FiniteSets

CONSTANTS
  Calls,      \* every operation a build may start on the stream
  Stages,     \* the stages handed to NewPipeline
  StageOf,    \* the stage a call belongs to
  Replies,    \* how many packets a call consumes: 1 for Request, more in a walk
  Walks,      \* calls that register a demux of their own with a no-op closeFn
  LongLived,  \* calls on the build's context, not one cancelled on return
  Detached,   \* calls whose context is not derived from the build's context
  SendCap,    \* capacity of sendCh (64 in the code)
  RecvCap,    \* capacity of a stage's recvCh (4 in the code)
  DemuxCap,   \* capacity of a Demultiplexer's ch (32 in the code)
  Surplus,    \* bound: packets the host sends for each call beyond Replies
  MaxTraffic, \* bound: calls made and packets of the host that answer no call
  NoCall,     \* the id of such a packet
  NoStage     \* the destination of a packet no Filter accepts

ASSUME ConstantsOK ==
  /\ StageOf \in [Calls -> Stages]
  /\ Replies \in [Calls -> Nat \ {0}]
  /\ Walks \subseteq Calls /\ LongLived \subseteq Calls /\ Detached \subseteq Calls
  /\ {SendCap, RecvCap, DemuxCap} \subseteq Nat \ {0}
  /\ Surplus \in [Calls -> Nat] /\ MaxTraffic \in Nat
  /\ NoCall \notin Calls /\ NoStage \notin Stages

VARIABLES
  pc,         \* where each caller is
  cancelled,  \* is the context of the call's demux done?
  got,        \* packets Recv handed to the caller
  demux,      \* calls with an entry in their stage's demux map
  ch,         \* the channel inside each call's Demultiplexer
  sendCh,     \* requests queued for the stream
  sender,     \* is the sendPackets goroutine running?
  asked,      \* requests the host has received
  answered,   \* how many packets the host sent for each call
  noise,      \* how many unrelated packets the host sent
  wire,       \* packets on the stream that Recv has not returned
  stream,     \* "open", "halfclosed" (the host stops sending) or "down"
  reader,     \* the receivePackets goroutine
  recvCh,     \* one queue per stage
  worker,     \* the Run goroutine of each stage
  buildCtx,   \* is PerformBuild's context cancelled?
  pipeCtx,    \* is the pipeline's context cancelled?
  run         \* StreamPipeline.Run: "waiting" or "returned"

callVars   == <<pc, cancelled, got>>
demuxVars  == <<demux, ch>>
sendVars   == <<sendCh, sender>>
hostVars   == <<asked, answered, noise>>
streamVars == <<wire, stream>>
recvVars   == <<reader, recvCh, worker>>
ctxVars    == <<buildCtx, pipeCtx, run>>
vars == <<callVars, demuxVars, sendVars, hostVars, streamVars, recvVars, ctxVars>>

Packet == [id : Calls \cup {NoCall}, n : Nat, dest : Stages \cup {NoStage}]

Answer(c) == [id |-> c, n |-> answered[c] + 1, dest |-> StageOf[c]]

\* A goroutine that handles packets one at a time is between packets, holds
\* one (in the named step of its loop), or has returned.
Idle       == [at |-> "select"]
Exited     == [at |-> "exited"]
Holding(step, p) == [at |-> step, packet |-> p]

Returned(c) == pc[c] \in {"done", "refused", "failed"}

Init ==
  /\ pc = [c \in Calls |-> "idle"]
  /\ cancelled = [c \in Calls |-> FALSE]
  /\ got = [c \in Calls |-> <<>>]
  /\ demux = {}
  /\ ch = [c \in Calls |-> <<>>]
  /\ sendCh = <<>>
  /\ sender = "select"
  /\ asked = {}
  /\ answered = [c \in Calls |-> 0]
  /\ noise = 0
  /\ wire = <<>>
  /\ stream = "open"
  /\ reader = Idle
  /\ recvCh = [s \in Stages |-> <<>>]
  /\ worker = [s \in Stages |-> Idle]
  /\ buildCtx = FALSE
  /\ pipeCtx = FALSE
  /\ run = "waiting"

-----------------------------------------------------------------------------
(***************************************************************************)
(* Callers.                                                                *)
(***************************************************************************)

\* What the bound counts.
Traffic == Cardinality({c \in Calls : pc[c] # "idle"}) + noise

\* Mutant: the Demultiplexer is not stored.
RegisteredNot(c) == demux

\* The entries of the demux maps once call c has registered.
Registered(c) == demux \cup {c}

(* The call creates its Demultiplexer and stores it before it sends        *)
(* anything.  The id is a fresh uuid, so Request's look-up of an existing  *)
(* entry always misses.                                                    *)
Register(c) ==
  /\ pc[c] = "idle" /\ Traffic < MaxTraffic
  /\ pc' = [pc EXCEPT ![c] = "sending"]
  /\ cancelled' = [cancelled EXCEPT ![c] = @ \/ (buildCtx /\ c \notin Detached)]
  /\ demux' = Registered(c)
  /\ UNCHANGED <<got, ch, sendVars, hostVars, streamVars, recvVars, ctxVars>>

\* Send: the request fits into sendCh.
SendQueued(c) ==
  /\ pc[c] = "sending"
  /\ Len(sendCh) < SendCap
  /\ sendCh' = Append(sendCh, c)
  /\ pc' = [pc EXCEPT ![c] = "waiting"]
  /\ UNCHANGED <<cancelled, got, demuxVars, sender, hostVars, streamVars, recvVars, ctxVars>>

(* Send: sendCh stayed full for five seconds.  Request deletes its entry;  *)
(* a walk leaves it to its context.                                        *)
SendTimeout(c) ==
  /\ pc[c] = "sending"
  /\ Len(sendCh) = SendCap
  /\ pc' = [pc EXCEPT ![c] = "refused"]
  /\ demux' = IF c \in Walks THEN demux ELSE demux \ {c}
  /\ UNCHANGED <<cancelled, got, ch, sendVars, hostVars, streamVars, recvVars, ctxVars>>

\* Mutant: the call waits for one packet too many.
EnoughExceeded(c) == Len(got[c]) = Replies[c]

\* The next packet is the last one the call waits for.
Enough(c) == Len(got[c]) + 1 = Replies[c]

\* Demultiplexer.Recv returns a packet; the last one ends the call.
RecvPacket(c) ==
  /\ pc[c] = "waiting"
  /\ ch[c] # <<>>
  /\ got' = [got EXCEPT ![c] = Append(@, Head(ch[c]))]
  /\ ch' = [ch EXCEPT ![c] = Tail(@)]
  /\ pc' = [pc EXCEPT ![c] = IF Enough(c) THEN "done" ELSE @]
  /\ UNCHANGED <<cancelled, demux, sendVars, hostVars, streamVars, recvVars, ctxVars>>

\* Mutant: Recv does not select on its context.
RecvIgnoresCtx(c) == FALSE

\* Demultiplexer.Recv sees its context done: closeFn, then the error.
RecvCtxDone(c) ==
  /\ pc[c] = "waiting"
  /\ cancelled[c]
  /\ pc' = [pc EXCEPT ![c] = "failed"]
  /\ demux' = IF c \in Walks THEN demux ELSE demux \ {c}
  /\ UNCHANGED <<cancelled, got, ch, sendVars, hostVars, streamVars, recvVars, ctxVars>>

\* Mutant: the calls never cancel their context.
NoCancelOnReturn(c) == FALSE

\* The deferred cancel of request and of the walks, after the call returned.
CancelOnReturn(c) ==
  /\ Returned(c)
  /\ c \notin LongLived
  /\ ~cancelled[c]
  /\ cancelled' = [cancelled EXCEPT ![c] = TRUE]
  /\ UNCHANGED <<pc, got, demuxVars, sendVars, hostVars, streamVars, recvVars, ctxVars>>

\* BuildKit gives up on the operation that issued the call.
CancelCall(c) ==
  /\ pc[c] \in {"sending", "waiting"}
  /\ c \notin Detached \cup LongLived
  /\ ~cancelled[c]
  /\ cancelled' = [cancelled EXCEPT ![c] = TRUE]
  /\ UNCHANGED <<pc, got, demuxVars, sendVars, hostVars, streamVars, recvVars, ctxVars>>

-----------------------------------------------------------------------------
(***************************************************************************)
(* The two goroutines of StreamPipeline.Run.                               *)
(***************************************************************************)

\* sendPackets puts the next request on the stream.
SendPacket ==
  /\ sender = "select"
  /\ sendCh # <<>>
  /\ stream # "down"
  /\ sendCh' = Tail(sendCh)
  /\ asked' = asked \cup {Head(sendCh)}
  /\ UNCHANGED <<callVars, demuxVars, sender, answered, noise, streamVars, recvVars, ctxVars>>

\* sendPackets: raw.Send fails, which ends the pipeline.
SendError ==
  /\ sender = "select"
  /\ sendCh # <<>>
  /\ stream = "down"
  /\ sendCh' = Tail(sendCh)
  /\ sender' = "exited"
  /\ pipeCtx' = TRUE
  /\ UNCHANGED <<callVars, demuxVars, hostVars, streamVars, recvVars, buildCtx, run>>

SenderCtxDone ==
  /\ sender = "select"
  /\ pipeCtx
  /\ sender' = "exited"
  /\ UNCHANGED <<callVars, demuxVars, sendCh, hostVars, streamVars, recvVars, ctxVars>>

\* receivePackets: raw.Recv returns a packet.
ReceivePacket ==
  /\ reader = Idle
  /\ stream # "down"
  /\ wire # <<>>
  /\ reader' = Holding("dispatch", Head(wire))
  /\ wire' = Tail(wire)
  /\ UNCHANGED <<callVars, demuxVars, sendVars, hostVars, stream, recvCh, worker, ctxVars>>

\* receivePackets: raw.Recv fails or returns io.EOF; handleReceiveError.
ReceiveError ==
  /\ reader = Idle
  /\ stream = "down" \/ (stream = "halfclosed" /\ wire = <<>>)
  /\ reader' = Exited
  /\ pipeCtx' = TRUE
  /\ UNCHANGED <<callVars, demuxVars, sendVars, hostVars, streamVars, recvCh, worker, buildCtx, run>>

\* Does stage s accept packet p?  A packet names its stage.
Filter(s, p) == p.dest = s

\* dispatch finds the stage that accepts the packet; Process waits for room.
Dispatch ==
  /\ reader.at = "dispatch"
  /\ \E s \in Stages :
       /\ Filter(s, reader.packet)
       /\ Len(recvCh[s]) < RecvCap
       /\ recvCh' = [recvCh EXCEPT ![s] = Append(@, reader.packet)]
  /\ reader' = Idle
  /\ UNCHANGED <<callVars, demuxVars, sendVars, hostVars, streamVars, worker, ctxVars>>

\* dispatch: no stage accepts the packet, which is dropped.
DispatchUnhandled ==
  /\ reader.at = "dispatch"
  /\ \A s \in Stages : ~Filter(s, reader.packet)
  /\ reader' = Idle
  /\ UNCHANGED <<callVars, demuxVars, sendVars, hostVars, streamVars, recvCh, worker, ctxVars>>

-----------------------------------------------------------------------------
(***************************************************************************)
(* UnimplementedBaseStage.Run, one goroutine per stage.                    *)
(***************************************************************************)

\* The demux map of stage s.
Handlers(s) == {c \in demux : StageOf[c] = s}

StageCtxDone(s) ==
  /\ worker[s] = Idle
  /\ pipeCtx
  /\ worker' = [worker EXCEPT ![s] = Exited]
  /\ demux' = demux \ Handlers(s)
  /\ UNCHANGED <<callVars, ch, sendVars, hostVars, streamVars, reader, recvCh, ctxVars>>

StageTake(s) ==
  /\ worker[s] = Idle
  /\ recvCh[s] # <<>>
  /\ worker' = [worker EXCEPT ![s] = Holding("load", Head(recvCh[s]))]
  /\ recvCh' = [recvCh EXCEPT ![s] = Tail(@)]
  /\ UNCHANGED <<callVars, demuxVars, sendVars, hostVars, streamVars, reader, ctxVars>>

\* No handler for the packet's id: the packet is dropped.
StageNoHandler(s) ==
  /\ worker[s].at = "load"
  /\ worker[s].packet.id \notin Handlers(s)
  /\ worker' = [worker EXCEPT ![s] = Idle]
  /\ UNCHANGED <<callVars, demuxVars, sendVars, hostVars, streamVars, reader, recvCh, ctxVars>>

\* The handler's context is done: the entry is deleted, the packet dropped.
StageHandlerClosed(s) ==
  /\ worker[s].at = "load"
  /\ LET c == worker[s].packet.id
     IN c \in Handlers(s) /\ cancelled[c] /\ demux' = demux \ {c}
  /\ worker' = [worker EXCEPT ![s] = Idle]
  /\ UNCHANGED <<callVars, ch, sendVars, hostVars, streamVars, reader, recvCh, ctxVars>>

StageHandlerFound(s) ==
  /\ worker[s].at = "load"
  /\ LET c == worker[s].packet.id IN c \in Handlers(s) /\ ~cancelled[c]
  /\ worker' = [worker EXCEPT ![s].at = "accept"]
  /\ UNCHANGED <<callVars, demuxVars, sendVars, hostVars, streamVars, reader, recvCh, ctxVars>>

\* Mutant: Accept drops the packet when the channel is full.
AcceptOrDrop(s) ==
  /\ worker[s].at = "accept"
  /\ LET c == worker[s].packet.id
     IN ch' = IF Len(ch[c]) < DemuxCap
              THEN [ch EXCEPT ![c] = Append(@, worker[s].packet)] ELSE ch
  /\ worker' = [worker EXCEPT ![s] = Idle]
  /\ UNCHANGED <<callVars, demux, sendVars, hostVars, streamVars, reader, recvCh, ctxVars>>

\* Demultiplexer.Accept blocks until its channel has room ...
Accept(s) ==
  /\ worker[s].at = "accept"
  /\ LET c == worker[s].packet.id
     IN /\ Len(ch[c]) < DemuxCap
        /\ ch' = [ch EXCEPT ![c] = Append(@, worker[s].packet)]
  /\ worker' = [worker EXCEPT ![s] = Idle]
  /\ UNCHANGED <<callVars, demux, sendVars, hostVars, streamVars, reader, recvCh, ctxVars>>

\* ... or the handler's context is done, and the packet is dropped.
AcceptCtxDone(s) ==
  /\ worker[s].at = "accept"
  /\ LET c == worker[s].packet.id
     IN cancelled[c] /\ demux' = IF c \in Walks THEN demux ELSE demux \ {c}
  /\ worker' = [worker EXCEPT ![s] = Idle]
  /\ UNCHANGED <<callVars, ch, sendVars, hostVars, streamVars, reader, recvCh, ctxVars>>

-----------------------------------------------------------------------------
(***************************************************************************)
(* The host and the life of the stream.                                    *)
(***************************************************************************)

HostAnswers(c) ==
  /\ c \in asked
  /\ answered[c] < Replies[c] + Surplus[c]
  /\ stream = "open"
  /\ wire' = Append(wire, Answer(c))
  /\ answered' = [answered EXCEPT ![c] = @ + 1]
  /\ UNCHANGED <<callVars, demuxVars, sendVars, asked, noise, stream, recvVars, ctxVars>>

\* A packet no Filter accepts, or one that answers no known call.
HostNoise(d) ==
  /\ Traffic < MaxTraffic
  /\ stream = "open"
  /\ noise' = noise + 1
  /\ wire' = Append(wire, [id |-> NoCall, n |-> 1, dest |-> d])
  /\ UNCHANGED <<callVars, demuxVars, sendVars, asked, answered, stream, recvVars, ctxVars>>

\* The host stops sending; the stream's context stays alive.
HostHalfCloses ==
  /\ stream = "open"
  /\ stream' = "halfclosed"
  /\ UNCHANGED <<callVars, demuxVars, sendVars, hostVars, wire, recvVars, ctxVars>>

(* build.Build returns, or the host goes away: PerformBuild's context and  *)
(* all contexts derived from it are cancelled and the stream is over.      *)
BuildEnds ==
  /\ ~buildCtx
  /\ buildCtx' = TRUE
  /\ pipeCtx' = TRUE
  /\ stream' = "down"
  /\ cancelled' = [c \in Calls |->
        cancelled[c] \/ (c \notin Detached /\ pc[c] # "idle")]
  /\ UNCHANGED <<pc, got, demuxVars, sendVars, hostVars, wire, recvVars, run>>

\* StreamPipeline.Run: the context is done and the WaitGroup is at zero.
RunReturns ==
  /\ run = "waiting"
  /\ pipeCtx
  /\ sender = "exited" /\ reader = Exited
  /\ \A s \in Stages : worker[s] = Exited
  /\ run' = "returned"
  /\ UNCHANGED <<callVars, demuxVars, sendVars, hostVars, streamVars, recvVars, buildCtx, pipeCtx>>

-----------------------------------------------------------------------------
Caller(c) == SendQueued(c) \/ SendTimeout(c) \/ RecvPacket(c) \/ RecvCtxDone(c) \/ CancelOnReturn(c)
Sender    == SendPacket \/ SendError \/ SenderCtxDone
Reader    == ReceivePacket \/ ReceiveError \/ Dispatch \/ DispatchUnhandled
Worker(s) == \/ StageCtxDone(s) \/ StageTake(s) \/ StageNoHandler(s) \/ StageHandlerClosed(s)
             \/ StageHandlerFound(s) \/ Accept(s) \/ AcceptCtxDone(s)

Next ==
  \/ \E c \in Calls : Register(c) \/ Caller(c) \/ CancelCall(c) \/ HostAnswers(c)
  \/ Sender \/ Reader \/ RunReturns
  \/ \E s \in Stages : Worker(s)
  \/ \E d \in Stages \cup {NoStage} : HostNoise(d)
  \/ HostHalfCloses \/ BuildEnds

Spec == Init /\ [][Next]_vars

\* Goroutines that can run do run; nothing is assumed of the host or of BuildKit.
GoroutineFairness ==
  /\ \A c \in Calls : WF_vars(Caller(c))
  /\ WF_vars(Sender) /\ WF_vars(Reader) /\ WF_vars(RunReturns)
  /\ \A s \in Stages : WF_vars(Worker(s))

FairSpec == Spec /\ GoroutineFairness

\* A host that keeps answering what it was asked.
HostFairness == \A c \in Calls : WF_vars(HostAnswers(c))

-----------------------------------------------------------------------------
\* The packet a goroutine holds; a blank, which answers no call, if it has none.
Blank   == [id |-> NoCall, n |-> 0, dest |-> NoStage]
Slot(g) == IF g.at \in {"select", "exited"} THEN Blank ELSE g.packet

\* What is under way to stage s, and all that call c got or may still get, oldest first.
Lane(s)  == <<Slot(worker[s])>> \o recvCh[s] \o <<Slot(reader)>> \o wire
Trail(c) == got[c] \o ch[c] \o Lane(StageOf[c])

\* Where packets of call c are in q.
Own(q, c) == {i \in DOMAIN q : q[i].id = c}

(* As long as the pipeline runs and the call's context is alive, every     *)
(* packet the host has sent for the call is either consumed or still on    *)
(* its way to it, exactly once and in order: Run and Accept never drop an  *)
(* answer for want of a handler or of room, and the queues of other calls  *)
(* and stages do not disturb its order.                                    *)
NoReplyLost ==
  \A c \in Calls :
    pc[c] \in {"sending", "waiting"} /\ ~cancelled[c] /\ ~pipeCtx =>
      LET q == Trail(c)
      IN /\ {q[i].n : i \in Own(q, c)} = 1 .. answered[c]
         /\ \A i, j \in Own(q, c) : i < j => q[i].n < q[j].n

(* The stage loop never sits on a packet whose caller will not take it: a  *)
(* blocked Accept always ends, because the caller reads on or its context  *)
(* is cancelled when it returns.                                           *)
AcceptUnblocks ==
  \A s \in Stages : worker[s].at = "accept" ~> worker[s].at # "accept"

(* A call whose context is done returns, whatever the host, the stream and *)
(* the pipeline do: Send gives up after its timeout, Recv selects on the   *)
(* context.                                                                *)
CancelledCallsReturn ==
  \A c \in Calls : (cancelled[c] ~> Returned(c))

(* While the pipeline lives and the host answers, every call returns: no   *)
(* stage, queue or other call starves it.                                  *)
AnsweredCallsReturn ==
  HostFairness => \A c \in Calls : (pc[c] = "sending") ~> (Returned(c) \/ pipeCtx)

(* Run (pipeline.go:82) "blocks until the pipeline or its parent context   *)
(* ends": once the context is done, Run returns.                           *)
RunEnds == pipeCtx ~> run = "returned"

-----------------------------------------------------------------------------
Numbers(q) == [i \in DOMAIN q |-> q[i].n]

\* The stage as its users see it.
Promise == INSTANCE RequestReply WITH
  status   <- [c \in Calls |-> CASE pc[c] = "sending" -> "issued"
                                 [] pc[c] = "waiting" -> "pending"
                                 [] OTHER -> pc[c]],
  received <- [c \in Calls |-> Numbers(got[c])]

(* Every behaviour of the callers, queues and goroutines is a behaviour of *)
(* the private, ordered exchange that RequestReply describes.              *)
KeepsPromise == Promise!Spec
=============================================================================
