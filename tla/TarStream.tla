----------------------------- MODULE TarStream ------------------------------
(***************************************************************************)
(* How Receive takes a context tar off its Demultiplexer: the startTar     *)
(* goroutine sorts packets onto errCh, headerCh and dataCh, and Receive    *)
(* reads these in three phases (readTarStreamHeader, readTarHeader,        *)
(* readTarBody), each a select over what may come next.                    *)
(*                                                                         *)
(* A data packet is its number.  What the host sends is external; it may   *)
(* stop early, report an error, or send a packet that does not belong.     *)
(***************************************************************************)
EXTENDS Naturals, Sequences, FiniteSets

CONSTANTS
  MaxPackets  \* bound: packets the host sends

ASSUME ConstantsOK == MaxPackets \in Nat

VARIABLES
  sent,      \* packets the host has sent
  ctx,       \* is the walk's context cancelled?
  tarpc,     \* startTar: its step
  packet,    \* the packet startTar is handling
  taken,     \* how many packets startTar has received
  errCh,     \* buffered, capacity 1: "nil" or "error"
  headerCh,  \* buffered, capacity 1: the complete flag of a header
  chClosed,  \* startTar has returned and closed its channels
  phase,     \* Receive: "stream header", "tar header", "body" or its result
  cached,    \* is the context cached already?
  errNil,    \* readTarBody set its errCh to nil (also readTarStreamHeader)
  written    \* the data packets Receive has consumed

vars == <<sent, ctx, tarpc, packet, taken, errCh, headerCh, chClosed, phase, cached, errNil, written>>

Kinds == {"hash", "data", "error", "other"}
NoPacket == [kind |-> "none", complete |-> FALSE, n |-> 0]

\* How many of the first m packets of q are data.
DataUpTo(q, m) == Cardinality({k \in 1 .. m : q[k].kind = "data"})
DataSent == DataUpTo(sent, Len(sent))

Init ==
  /\ sent = <<>> /\ ctx = FALSE
  /\ tarpc = "recv" /\ packet = NoPacket /\ taken = 0
  /\ errCh = <<>> /\ headerCh = <<>> /\ chClosed = FALSE
  /\ phase = "stream header" /\ cached \in BOOLEAN /\ errNil = FALSE
  /\ written = <<>>

-----------------------------------------------------------------------------
\* The host: after a packet marked complete it sends no more.
Ended == sent # <<>> /\ (sent[Len(sent)].complete \/ sent[Len(sent)].kind = "error")

HostSends(kind, complete) ==
  /\ Len(sent) < MaxPackets /\ ~Ended
  /\ complete => kind \in {"hash", "data"}
  /\ sent' = Append(sent, [kind |-> kind, complete |-> complete,
                           n |-> IF kind = "data" THEN DataSent + 1 ELSE 0])
  /\ UNCHANGED <<ctx, tarpc, packet, taken, errCh, headerCh, chClosed, phase, cached, errNil, written>>

Cancel ==
  /\ ~ctx /\ ctx' = TRUE
  /\ UNCHANGED <<sent, tarpc, packet, taken, errCh, headerCh, chClosed, phase, cached, errNil, written>>

-----------------------------------------------------------------------------
(***************************************************************************)
(* startTar.                                                               *)
(***************************************************************************)

TarUnchanged == UNCHANGED <<sent, ctx, phase, cached, errNil, written>>

\* demux.Recv returns the next packet, and its kind decides what follows.
TarRecv ==
  /\ tarpc = "recv"
  /\ taken < Len(sent)
  /\ packet' = sent[taken + 1]
  /\ taken' = taken + 1
  /\ tarpc' = CASE sent[taken + 1].kind = "hash" -> "header"
                [] sent[taken + 1].kind = "data" -> "data"
                [] sent[taken + 1].kind = "error" -> "fail"
                [] OTHER -> "complain"
  /\ UNCHANGED <<errCh, headerCh, chClosed>> /\ TarUnchanged

\* demux.Recv fails because the context is done.
TarRecvFails ==
  /\ tarpc = "recv" /\ ctx
  /\ tarpc' = "fail"
  /\ UNCHANGED <<packet, taken, errCh, headerCh, chClosed>> /\ TarUnchanged

\* Where startTar goes after it handed on a packet.
AfterPacket == IF packet.complete THEN "finish" ELSE "recv"

TarHeader ==
  /\ tarpc = "header"
  /\ Len(headerCh) < 1
  /\ headerCh' = Append(headerCh, packet.complete)
  /\ tarpc' = AfterPacket
  /\ UNCHANGED <<packet, taken, errCh, chClosed>> /\ TarUnchanged

\* The error that ends the stream.
TarFails ==
  /\ tarpc = "fail"
  /\ Len(errCh) < 1
  /\ errCh' = Append(errCh, "error")
  /\ tarpc' = "close"
  /\ UNCHANGED <<packet, taken, headerCh, chClosed>> /\ TarUnchanged

\* A packet of another type: an error, but the loop goes on.
TarComplains ==
  /\ tarpc = "complain"
  /\ Len(errCh) < 1
  /\ errCh' = Append(errCh, "error")
  /\ tarpc' = "recv"
  /\ UNCHANGED <<packet, taken, headerCh, chClosed>> /\ TarUnchanged

\* The packet was marked complete.
TarFinishes ==
  /\ tarpc = "finish"
  /\ Len(errCh) < 1
  /\ errCh' = Append(errCh, "nil")
  /\ tarpc' = "close"
  /\ UNCHANGED <<packet, taken, headerCh, chClosed>> /\ TarUnchanged

\* Mutant: the channels are left open.
ClosedNot == chClosed

\* The deferred closes.
Closed == TRUE

TarCloses ==
  /\ tarpc = "close"
  /\ tarpc' = "exited"
  /\ chClosed' = Closed
  /\ UNCHANGED <<packet, taken, errCh, headerCh>> /\ TarUnchanged

-----------------------------------------------------------------------------
(***************************************************************************)
(* Receive.                                                                *)
(***************************************************************************)

\* What <-errCh can yield: a buffered value, or nil once it is closed.
ErrReady == errCh # <<>> \/ chClosed
TakenErr == IF errCh = <<>> THEN "nil" ELSE Head(errCh)
TakeErr  == errCh' = IF errCh = <<>> THEN <<>> ELSE Tail(errCh)

ReadsOn == UNCHANGED <<sent, ctx, packet, taken, chClosed, cached>>

(* readTarStreamHeader returns the header.  With the complete flag Receive *)
(* does not read on; without a cached context that is an error.            *)
HeaderArrives ==
  /\ phase = "stream header"
  /\ headerCh # <<>>
  /\ headerCh' = <<>>
  /\ phase' = CASE ~Head(headerCh) -> "tar header"
                [] Head(headerCh) /\ cached -> "ok"
                [] OTHER -> "failed"
  /\ errNil' = FALSE
  /\ UNCHANGED <<tarpc, errCh, written>> /\ ReadsOn

(* readTarStreamHeader looks at errCh: nil, or its end, does not stop it.  *)
(* It never finds both channels closed and empty, since startTar sends a   *)
(* header or an error before it closes them.                               *)
HeaderErr ==
  /\ phase = "stream header"
  /\ ErrReady /\ ~errNil
  /\ TakeErr
  /\ phase' = IF TakenErr = "error" THEN "failed" ELSE phase
  /\ errNil' = (errCh = <<>>)
  /\ UNCHANGED <<tarpc, headerCh, written>> /\ ReadsOn

\* A data packet passes from startTar to Receive, over an unbuffered channel.
DataArrives ==
  /\ tarpc = "data"
  /\ phase \in {"tar header", "body"}
  /\ written' = Append(written, packet.n)
  /\ tarpc' = AfterPacket
  /\ phase' = "body"
  /\ UNCHANGED <<errCh, headerCh, errNil>> /\ ReadsOn

\* readTarHeader: dataCh is closed before any data came.
TarHeaderClosed ==
  /\ phase = "tar header"
  /\ chClosed
  /\ TakeErr
  /\ phase' = "failed"
  /\ UNCHANGED <<tarpc, headerCh, errNil, written>> /\ ReadsOn

\* readTarHeader: errCh is ready, and what it yields is returned as it is.
TarHeaderErr ==
  /\ phase = "tar header"
  /\ ErrReady
  /\ TakeErr
  /\ phase' = IF TakenErr = "error" THEN "failed" ELSE "body"
  /\ UNCHANGED <<tarpc, headerCh, errNil, written>> /\ ReadsOn

\* Mutant: the end of the data is taken for success.
ErrWaitingUnchecked == FALSE

ErrWaiting == ~errNil /\ TakenErr = "error"

\* readTarBody: dataCh is closed; an error may be waiting.
BodyClosed ==
  /\ phase = "body"
  /\ chClosed
  /\ IF errNil THEN UNCHANGED errCh ELSE TakeErr
  /\ phase' = IF ErrWaiting THEN "failed" ELSE "ok"
  /\ UNCHANGED <<tarpc, headerCh, errNil, written>> /\ ReadsOn

\* readTarBody: an error ends it; nil, or a closed errCh, does not.
BodyErr ==
  /\ phase = "body"
  /\ ErrReady /\ ~errNil
  /\ TakeErr
  /\ phase' = IF TakenErr = "error" THEN "failed" ELSE phase
  /\ errNil' = (errCh = <<>>)
  /\ UNCHANGED <<tarpc, headerCh, written>> /\ ReadsOn

Reading == phase \in {"stream header", "tar header", "body"}

\* Mutant: readTarBody does not select on the context.
WatchingHeader == phase \in {"stream header", "tar header"}

Watching == Reading

\* Any of the three selects sees the context done.
CtxDone ==
  /\ Watching /\ ctx
  /\ phase' = "failed"
  /\ UNCHANGED <<tarpc, errCh, headerCh, errNil, written>> /\ ReadsOn

\* The temporary tar cannot be created or written.
WriteFails ==
  /\ phase = "body" /\ ~cached
  /\ phase' = "failed"
  /\ UNCHANGED <<tarpc, errCh, headerCh, errNil, written>> /\ ReadsOn

-----------------------------------------------------------------------------
StartTar == TarRecv \/ TarRecvFails \/ TarHeader \/ TarFails \/ TarComplains \/ TarFinishes \/ TarCloses
Receive  == \/ HeaderArrives \/ HeaderErr \/ DataArrives \/ TarHeaderClosed
            \/ TarHeaderErr \/ BodyClosed \/ BodyErr \/ CtxDone

Next ==
  \/ \E k \in Kinds, b \in BOOLEAN : HostSends(k, b)
  \/ Cancel \/ StartTar \/ Receive \/ WriteFails

Spec == Init /\ [][Next]_vars
FairSpec == Spec /\ WF_vars(StartTar) /\ WF_vars(Receive)

-----------------------------------------------------------------------------
(***************************************************************************)
(* Properties.                                                             *)
(***************************************************************************)

(* When Receive takes the transfer for complete, the host has marked it    *)
(* complete and reported no error, and every data packet was consumed,     *)
(* once and in order: neither the end of the data nor an error is lost in  *)
(* the race between dataCh and errCh.  A packet that does not belong fails *)
(* the transfer too, unless the header says there is nothing to transfer.  *)
TransferExact ==
  phase = "ok" =>
    /\ Ended /\ sent[Len(sent)].complete
    /\ \/ \A k \in DOMAIN sent : sent[k].kind \in {"hash", "data"}
       \/ \E k \in DOMAIN sent : sent[k].kind = "hash" /\ sent[k].complete
    /\ Len(written) = DataSent /\ \A k \in DOMAIN written : written[k] = k

(* A walk whose context is cancelled is not held up by the stream.         *)
CancelEnds == ctx ~> ~Reading

(* A host that sends a hash, then data, and marks the end of it, or         *)
(* reports an error instead, gets an answer: Receive does not wait on.      *)
WellFormed ==
  /\ Ended
  /\ sent[1].kind \in {"hash", "error"}
  /\ \A k \in DOMAIN sent : k > 1 => sent[k].kind \in {"data", "error"}
TransferEnds == WellFormed ~> ~Reading
=============================================================================
