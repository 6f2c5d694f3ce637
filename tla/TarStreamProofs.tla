--------------------------- MODULE TarStreamProofs ---------------------------
(***************************************************************************)
(* Proofs about TarStream, for any number of packets.                      *)
(***************************************************************************)
EXTENDS TarStream, TLAPS, FiniteSetTheorems, SequenceTheorems

Packet == [kind : Kinds, complete : BOOLEAN, n : Nat]

\* What the host has sent: only the last packet is an end, and data is numbered.
HostInv ==
  /\ sent \in Seq(Packet)
  /\ \A k \in DOMAIN sent :
       /\ sent[k].complete => sent[k].kind \in {"hash", "data"}
       /\ k < Len(sent) => ~sent[k].complete /\ sent[k].kind # "error"
       /\ sent[k].kind = "data" => sent[k].n = DataUpTo(sent, k)

\* startTar: which packet it has in hand, and where it is with it.
TarInv ==
  /\ tarpc \in {"recv", "header", "data", "fail", "complain", "finish", "close", "exited"}
  /\ taken \in 0 .. Len(sent)
  /\ taken > 0 => packet = sent[taken]
  /\ tarpc \in {"header", "data", "complain", "finish"} => taken > 0
  /\ tarpc = "header" => packet.kind = "hash"
  /\ tarpc = "data" => packet.kind = "data"
  /\ tarpc = "finish" => packet.complete
  /\ tarpc \in {"recv", "fail", "complain"} /\ taken > 0 => ~packet.complete

\* The two buffered channels and the flag that readTarBody keeps for errCh.
ChannelInv ==
  /\ errCh \in {<<>>, <<"error">>, <<"nil">>}
  /\ headerCh \in {<<>>, <<TRUE>>, <<FALSE>>}
  /\ chClosed \in BOOLEAN /\ errNil \in BOOLEAN
  /\ chClosed => tarpc = "exited"
  /\ errNil => chClosed /\ errCh = <<>>
  /\ headerCh = <<TRUE>> =>
       taken > 0 /\ packet.kind = "hash" /\ packet.complete /\ tarpc \in {"finish", "close", "exited"}

\* The header says that there is nothing to transfer.
CompleteHash == \E k \in DOMAIN sent : sent[k].kind = "hash" /\ sent[k].complete

\* An error that startTar reports is on its way to Receive, or there.
Flagged == errCh = <<"error">> \/ phase = "failed" \/ (phase = "ok" /\ CompleteHash)

(* No error is lost: a packet that does not belong is flagged once it is   *)
(* handled, and startTar ends with a flag or on a complete packet.         *)
ErrorInv ==
  /\ \A k \in 1 .. taken :
       sent[k].kind = "other" /\ ~(k = taken /\ tarpc = "complain") => Flagged
  /\ tarpc \in {"close", "exited"} => Flagged \/ (taken > 0 /\ packet.complete)

\* The packets that startTar has handed on.
HandedOn == IF tarpc = "data" THEN taken - 1 ELSE taken

\* No data is lost, repeated or reordered between the host and the tar.
DataInv ==
  /\ written \in Seq(Nat)
  /\ Len(written) = DataUpTo(sent, HandedOn)
  /\ \A k \in DOMAIN written : written[k] = k

PhaseInv == phase \in {"stream header", "tar header", "body", "ok", "failed"}

IInv == HostInv /\ TarInv /\ ChannelInv /\ ErrorInv /\ DataInv /\ PhaseInv /\ TransferExact

-----------------------------------------------------------------------------
(***************************************************************************)
(* Counting data packets.                                                  *)
(***************************************************************************)

LEMMA CountType ==
  ASSUME NEW q, NEW m \in Nat
  PROVE  /\ IsFiniteSet({k \in 1 .. m : q[k].kind = "data"})
         /\ DataUpTo(q, m) \in Nat
<1>1. IsFiniteSet(1 .. m)
  BY FS_Interval
<1>2. {k \in 1 .. m : q[k].kind = "data"} \in SUBSET (1 .. m)
  OBVIOUS
<1>3. IsFiniteSet({k \in 1 .. m : q[k].kind = "data"})
  BY <1>1, <1>2, FS_Subset
<1> QED
  BY <1>3, FS_CardinalityType DEF DataUpTo

LEMMA CountZero == \A q : DataUpTo(q, 0) = 0
<1> TAKE q
<1>1. {k \in 1 .. 0 : q[k].kind = "data"} = {}
  OBVIOUS
<1> QED
  BY <1>1, FS_EmptySet DEF DataUpTo

LEMMA CountNext ==
  ASSUME NEW q, NEW m \in Nat
  PROVE  DataUpTo(q, m + 1) = DataUpTo(q, m) + IF q[m + 1].kind = "data" THEN 1 ELSE 0
<1> DEFINE D(i) == {k \in 1 .. i : q[k].kind = "data"}
<1>1. IsFiniteSet(D(m)) /\ Cardinality(D(m)) \in Nat
  BY CountType DEF DataUpTo
<1>2. CASE q[m + 1].kind = "data"
  <2>1. D(m + 1) = D(m) \cup {m + 1} /\ m + 1 \notin D(m)
    BY <1>2
  <2>2. Cardinality(D(m) \cup {m + 1}) = Cardinality(D(m)) + 1
    BY <1>1, <2>1, FS_AddElement, Zenon
  <2>3. Cardinality(D(m + 1)) = Cardinality(D(m)) + 1
    BY <2>1, <2>2, Zenon
  <2> QED
    BY <1>2, <2>3 DEF DataUpTo
<1>3. CASE q[m + 1].kind # "data"
  <2>1. D(m + 1) = D(m)
    BY <1>3
  <2>2. Cardinality(D(m + 1)) = Cardinality(D(m))
    BY <2>1, Zenon
  <2> QED
    BY <1>1, <1>3, <2>2 DEF DataUpTo
<1> QED
  BY <1>2, <1>3

LEMMA CountSame ==
  ASSUME NEW q, NEW r, NEW m \in Nat, \A k \in 1 .. m : q[k] = r[k]
  PROVE  DataUpTo(q, m) = DataUpTo(r, m)
<1>1. {k \in 1 .. m : q[k].kind = "data"} = {k \in 1 .. m : r[k].kind = "data"}
  OBVIOUS
<1> QED
  BY <1>1, Zenon DEF DataUpTo

-----------------------------------------------------------------------------
LEMMA IInvInit == Init => IInv
<1> SUFFICES ASSUME Init PROVE IInv
  OBVIOUS
<1>1. sent = <<>>
  BY Zenon DEF Init
<1>2. HostInv
  BY <1>1 DEF HostInv
<1>3. Len(sent) = 0 /\ taken = 0 /\ tarpc = "recv"
  BY Zenon DEF Init
<1>4. TarInv
  BY <1>3 DEF TarInv
<1>5. ChannelInv
  BY Zenon DEF Init, ChannelInv
<1>6. ErrorInv
  BY <1>3 DEF ErrorInv
<1>7. DataInv
  <2>1. HandedOn = 0 /\ written = <<>>
    BY Zenon DEF Init, HandedOn
  <2> QED
    BY <2>1, CountZero DEF DataInv
<1> QED
  BY <1>2, <1>4, <1>5, <1>6, <1>7, Zenon DEF Init, IInv, PhaseInv, TransferExact

\* The host's packet changes nothing of what the others have seen.
LEMMA HostStep ==
  ASSUME HostInv, TarInv, ChannelInv, ErrorInv, DataInv, PhaseInv, TransferExact,
         NEW kind \in Kinds, NEW complete \in BOOLEAN, HostSends(kind, complete)
  PROVE  IInv'
<1> DEFINE p == [kind |-> kind, complete |-> complete,
                 n |-> IF kind = "data" THEN DataSent + 1 ELSE 0]
<1>1. sent \in Seq(Packet) /\ Len(sent) \in Nat
  BY DEF HostInv
<1>2. DataSent \in Nat
  BY <1>1, CountType, Zenon DEF DataSent
<1>3. p \in Packet
  BY <1>2 DEF Packet
<1>4. /\ sent' \in Seq(Packet) /\ Len(sent') = Len(sent) + 1
      /\ \A k \in 1 .. Len(sent) : sent'[k] = sent[k]
      /\ sent'[Len(sent) + 1] = p
  BY <1>1, <1>3, AppendProperties DEF HostSends
<1>5. \A m \in 0 .. Len(sent) : DataUpTo(sent', m) = DataUpTo(sent, m)
  BY <1>1, <1>4, CountSame
<1>6. kind = "data" => p.n = DataUpTo(sent', Len(sent) + 1)
  <2>1. DataUpTo(sent', Len(sent) + 1) = DataUpTo(sent', Len(sent)) + IF p.kind = "data" THEN 1 ELSE 0
    BY <1>1, <1>4, CountNext
  <2>2. DataUpTo(sent', Len(sent)) = DataSent
    BY <1>1, <1>5 DEF DataSent
  <2> QED
    BY <1>2, <2>1, <2>2
<1>7. HostInv'
  <2> SUFFICES ASSUME NEW k \in DOMAIN sent'
               PROVE  /\ sent'[k].complete => sent'[k].kind \in {"hash", "data"}
                      /\ k < Len(sent') => ~sent'[k].complete /\ sent'[k].kind # "error"
                      /\ sent'[k].kind = "data" => sent'[k].n = DataUpTo(sent', k)
    BY <1>4 DEF HostInv
  <2>1. CASE k \in 1 .. Len(sent)
    <3>1. k < Len(sent) => ~sent[k].complete /\ sent[k].kind # "error"
      BY <2>1, <1>1 DEF HostInv
    <3>2. k = Len(sent) => ~sent[k].complete /\ sent[k].kind # "error"
      BY <2>1, <1>1 DEF HostSends, Ended
    <3> QED
      BY <2>1, <3>1, <3>2, <1>1, <1>4, <1>5 DEF HostInv
  <2>2. CASE k = Len(sent) + 1
    BY <2>2, <1>1, <1>4, <1>6 DEF HostSends
  <2> QED
    BY <1>1, <1>4, <2>1, <2>2
<1>8. TarInv'
  BY <1>1, <1>4 DEF HostSends, TarInv
<1>9. ChannelInv'
  BY Zenon DEF HostSends, ChannelInv
<1>10. Flagged => Flagged'
  BY <1>1, <1>4 DEF HostSends, Flagged, CompleteHash
<1>11. ErrorInv'
  BY <1>1, <1>4, <1>10 DEF HostSends, TarInv, ErrorInv
<1>12. DataInv'
  <2>1. HandedOn \in 0 .. Len(sent) /\ HandedOn' = HandedOn
    BY <1>1 DEF HostSends, TarInv, HandedOn
  <2> QED
    BY <1>5, <2>1 DEF HostSends, DataInv
<1>13. phase # "ok" /\ phase' = phase
  BY DEF HostSends, TransferExact
<1> QED
  BY <1>7, <1>8, <1>9, <1>11, <1>12, <1>13, Zenon DEF IInv, PhaseInv, TransferExact

\* startTar: a packet that is received, queued or handed on keeps its place in the count.
LEMMA StartTarStep ==
  ASSUME HostInv, TarInv, ChannelInv, ErrorInv, DataInv, PhaseInv, TransferExact, StartTar
  PROVE  IInv'
<1>1. sent' = sent /\ phase' = phase /\ written' = written /\ errNil' = errNil
  BY DEF StartTar, TarRecv, TarRecvFails, TarHeader, TarFails, TarComplains, TarFinishes, TarCloses, TarUnchanged
<1>2. HostInv' /\ PhaseInv' /\ TransferExact'
  BY <1>1, Zenon DEF HostInv, PhaseInv, TransferExact, Ended, DataSent
<1>3. sent \in Seq(Packet) /\ Len(sent) \in Nat /\ taken \in 0 .. Len(sent)
  BY DEF HostInv, TarInv
<1>4. taken > 0 => packet \in Packet /\ packet = sent[taken]
  BY <1>3 DEF TarInv
<1>5. Flagged /\ (errCh = <<"error">> => errCh' = errCh) => Flagged'
  BY <1>1 DEF Flagged, CompleteHash
<1>6. tarpc # "data" /\ tarpc' # "data" /\ taken' = taken => DataInv'
  BY <1>1 DEF DataInv, HandedOn
<1>7. CASE TarRecv
  <2>1. /\ sent[taken + 1] \in Packet /\ taken' = taken + 1 /\ taken' \in 1 .. Len(sent)
        /\ tarpc = "recv" /\ packet' = sent'[taken']
        /\ errCh' = errCh /\ headerCh' = headerCh /\ chClosed' = chClosed
    BY <1>1, <1>3, <1>7 DEF TarRecv
  <2>2. /\ sent[taken + 1].kind = "hash" => tarpc' = "header"
        /\ sent[taken + 1].kind = "data" <=> tarpc' = "data"
        /\ sent[taken + 1].kind = "error" => tarpc' = "fail"
        /\ sent[taken + 1].kind = "other" => tarpc' = "complain"
    BY <1>7 DEF TarRecv
  <2>3. TarInv'
    BY <1>1, <1>3, <2>1, <2>2 DEF TarInv, HostInv, Packet, Kinds
  <2>4. ChannelInv'
    BY <1>1, <2>1, Zenon DEF ChannelInv
  <2>5. ErrorInv'
    <3>1. \A k \in 1 .. taken : sent[k].kind = "other" => Flagged
      BY <2>1 DEF ErrorInv
    <3> QED
      BY <1>1, <1>3, <1>5, <2>1, <2>2, <2>3, <3>1 DEF ErrorInv, TarInv, Packet, Kinds
  <2>6. DataInv'
    <3>1. DataUpTo(sent, taken + 1) = DataUpTo(sent, taken) + IF sent[taken + 1].kind = "data" THEN 1 ELSE 0
      BY <1>3, CountNext
    <3>2. taken \in Nat
      BY <1>3
    <3>3. DataUpTo(sent, taken) \in Nat
      BY <3>2, CountType, Zenon
    <3>4. DataUpTo(sent, HandedOn') = DataUpTo(sent, taken) /\ HandedOn = taken
      BY <1>3, <2>1, <2>2, <3>1, <3>3 DEF HandedOn
    <3> QED
      BY <1>1, <3>4 DEF DataInv
  <2> QED
    BY <1>2, <2>3, <2>4, <2>5, <2>6 DEF IInv
<1>8. CASE TarRecvFails
  <2> USE <1>8 DEF TarRecvFails
  <2>1. TarInv'
    BY <1>1 DEF TarInv
  <2>2. ChannelInv'
    BY <1>1, Zenon DEF ChannelInv
  <2>3. ErrorInv'
    BY <1>1, <1>5 DEF ErrorInv
  <2> QED
    BY <1>2, <1>6, <2>1, <2>2, <2>3 DEF IInv
<1>9. CASE TarHeader
  <2> USE <1>9 DEF TarHeader, AfterPacket
  <2>1. TarInv'
    BY <1>1, <1>4 DEF TarInv, Packet
  <2>2. ChannelInv'
    <3>1. headerCh = <<>> /\ packet.complete \in BOOLEAN
      BY <1>4 DEF ChannelInv, TarInv, Packet
    <3>2. headerCh' = <<packet.complete>> /\ headerCh'[1] = packet.complete
      BY <3>1
    <3>3. headerCh' \in {<<TRUE>>, <<FALSE>>} /\ (headerCh' = <<TRUE>> => packet.complete = TRUE)
      <4>1. <<TRUE>>[1] = TRUE
        OBVIOUS
      <4>2. CASE packet.complete = TRUE
        BY <4>2, <3>2, Zenon
      <4>3. CASE packet.complete = FALSE
        BY <4>1, <4>3, <3>2, Zenon
      <4> QED
        BY <3>1, <4>2, <4>3, Zenon
    <3>4. taken' = taken /\ packet' = packet /\ taken > 0 /\ packet.kind = "hash" /\ tarpc # "exited"
      BY DEF TarInv
    <3>5. packet.complete = TRUE => tarpc' = "finish"
      OBVIOUS
    <3>6. errCh' = errCh /\ chClosed' = chClosed
      OBVIOUS
    <3>7. ~chClosed /\ ~errNil /\ errCh \in {<<>>, <<"error">>, <<"nil">>}
      BY <3>4 DEF ChannelInv
    <3>8. headerCh' = <<TRUE>> =>
            /\ taken' > 0 /\ packet'.kind = "hash" /\ packet'.complete
            /\ tarpc' \in {"finish", "close", "exited"}
      BY <3>3, <3>4, <3>5
    <3>9. chClosed' = FALSE /\ errNil' = FALSE /\ errCh' \in {<<>>, <<"error">>, <<"nil">>}
      BY <1>1, <3>6, <3>7
    <3> HIDE <1>9
    <3> QED
      BY <3>3, <3>8, <3>9, Zenon DEF ChannelInv
  <2>3. ErrorInv'
    BY <1>1, <1>5 DEF ErrorInv
  <2> QED
    BY <1>2, <1>6, <2>1, <2>2, <2>3 DEF IInv
<1>10. CASE TarFails \/ TarComplains
  <2> USE <1>10 DEF TarFails, TarComplains
  <2>1. errCh' = <<"error">>
    <3>1. errCh = <<>>
      BY DEF ChannelInv
    <3> QED
      BY <3>1
  <2>2. TarInv'
    BY <1>1 DEF TarInv
  <2>3. ChannelInv'
    <3>1. /\ headerCh' = headerCh /\ headerCh \in {<<>>, <<FALSE>>}
          /\ chClosed' = chClosed /\ chClosed = FALSE /\ errNil = FALSE
      BY Zenon DEF ChannelInv
    <3>2. <<FALSE>> # <<TRUE>>
      <4>1. <<FALSE>>[1] = FALSE /\ <<TRUE>>[1] = TRUE
        OBVIOUS
      <4> QED
        BY <4>1, Zenon
    <3> QED
      BY <1>1, <2>1, <3>1, <3>2, Zenon DEF ChannelInv
  <2>4. ErrorInv'
    BY <1>1, <2>1 DEF ErrorInv, Flagged
  <2> QED
    BY <1>2, <1>6, <2>2, <2>3, <2>4 DEF IInv
<1>11. CASE TarFinishes
  <2> USE <1>11 DEF TarFinishes
  <2>1. errCh = <<>> /\ errCh' = <<"nil">>
    <3>1. errCh = <<>>
      BY DEF ChannelInv
    <3> QED
      BY <3>1
  <2>2. TarInv'
    BY <1>1 DEF TarInv
  <2>3. ChannelInv'
    BY <1>1, <2>1, Zenon DEF ChannelInv
  <2>4. ErrorInv'
    BY <1>1, <1>5, <2>1 DEF ErrorInv, TarInv
  <2> QED
    BY <1>2, <1>6, <2>2, <2>3, <2>4 DEF IInv
<1>12. CASE TarCloses
  <2> USE <1>12 DEF TarCloses
  <2>1. TarInv'
    BY <1>1 DEF TarInv
  <2>2. ChannelInv'
    BY <1>1, Zenon DEF ChannelInv, Closed
  <2>3. ErrorInv'
    BY <1>1, <1>5 DEF ErrorInv
  <2> QED
    BY <1>2, <1>6, <2>1, <2>2, <2>3 DEF IInv
<1> QED
  BY <1>7, <1>8, <1>9, <1>10, <1>11, <1>12 DEF StartTar

\* A channel of capacity one.
LEMMA OneElement ==
  \A x : Head(<<x>>) = x /\ Tail(<<x>>) = <<>> /\ <<x>> # <<>>
OBVIOUS

\* Receive takes at most what is on errCh, and sets errNil only once errCh has ended.
LEMMA ChannelFrame ==
  ASSUME ChannelInv, tarpc' = tarpc, taken' = taken, packet' = packet, chClosed' = chClosed,
         headerCh' \in {headerCh, <<>>}, errCh' \in {errCh, <<>>},
         errNil' \in BOOLEAN, errNil' => chClosed /\ errCh' = <<>>
  PROVE  ChannelInv'
<1>1. <<>> # <<TRUE>>
  BY OneElement
<1> QED
  BY <1>1, Zenon DEF ChannelInv

\* Once startTar has handed on a complete packet, the transfer is exact.
LEMMA AllHandedOn ==
  ASSUME HostInv, TarInv, DataInv, taken > 0, packet.complete, tarpc # "data"
  PROVE  /\ Ended /\ sent[Len(sent)].complete /\ taken = Len(sent) /\ taken \in Nat
         /\ sent[taken].kind \in {"hash", "data"}
         /\ Len(written) = DataSent /\ \A k \in DOMAIN written : written[k] = k
<1>1. sent \in Seq(Packet) /\ Len(sent) \in Nat /\ taken \in 1 .. Len(sent)
  BY DEF HostInv, TarInv
<1>2. packet = sent[taken] /\ sent[taken].complete
  BY DEF TarInv
<1>3. taken = Len(sent) /\ sent[taken].kind \in {"hash", "data"}
  BY <1>1, <1>2 DEF HostInv
<1>4. Ended
  BY <1>1, <1>2, <1>3 DEF Ended
<1>5. Len(written) = DataSent /\ \A k \in DOMAIN written : written[k] = k
  BY <1>3 DEF DataInv, HandedOn, DataSent
<1> QED
  BY <1>1, <1>2, <1>3, <1>4, <1>5

(* Receive: the select of a phase takes what there is, and the phase ends   *)
(* well only when no error is left behind.                                  *)
LEMMA ReceiveStep ==
  ASSUME HostInv, TarInv, ChannelInv, ErrorInv, DataInv, PhaseInv, TransferExact,
         Receive \/ WriteFails
  PROVE  IInv'
<1> USE DEF ReadsOn
<1>1. sent' = sent /\ taken' = taken /\ packet' = packet /\ chClosed' = chClosed
  BY Zenon DEF Receive, HeaderArrives, HeaderErr, DataArrives, TarHeaderClosed, TarHeaderErr,
         BodyClosed, BodyErr, CtxDone, WriteFails
<1>2. HostInv'
  BY <1>1 DEF HostInv
<1>3. sent \in Seq(Packet) /\ Len(sent) \in Nat /\ taken \in 0 .. Len(sent)
  BY DEF HostInv, TarInv
<1>4. phase \in {"stream header", "tar header", "body"}
  BY Zenon DEF Receive, HeaderArrives, HeaderErr, DataArrives, TarHeaderClosed, TarHeaderErr,
         BodyClosed, BodyErr, CtxDone, WriteFails, Watching, Reading
<1>5. tarpc' = tarpc => TarInv'
  BY <1>1 DEF TarInv
<1>6. tarpc' = tarpc /\ written' = written => DataInv'
  BY <1>1 DEF DataInv, HandedOn
<1>7. tarpc' = tarpc /\ (Flagged => Flagged') => ErrorInv'
  BY <1>1 DEF ErrorInv
<1>8. CASE HeaderArrives
  <2>1. /\ tarpc' = tarpc /\ written' = written /\ errCh' = errCh /\ headerCh' = <<>>
        /\ headerCh # <<>> /\ errNil' = FALSE
    BY <1>8, Zenon DEF HeaderArrives
  <2>2. ASSUME headerCh = <<TRUE>>
        PROVE  ErrorInv' /\ PhaseInv' /\ TransferExact'
    <3>1. Head(headerCh) = TRUE
      BY <2>2, OneElement, Zenon
    <3>2. phase' \in {"ok", "failed"}
      BY <1>8, <3>1, Zenon DEF HeaderArrives
    <3>3. taken > 0 /\ packet.kind = "hash" /\ packet.complete /\ tarpc # "data"
      BY <2>2 DEF ChannelInv
    <3>4. CompleteHash /\ CompleteHash'
      BY <1>1, <1>3, <3>3 DEF CompleteHash, TarInv
    <3>5. ErrorInv' /\ PhaseInv'
      BY <1>7, <2>1, <3>2, <3>4, Zenon DEF Flagged, PhaseInv
    <3>6. TransferExact'
      BY <1>1, <2>1, <3>3, <3>4, AllHandedOn DEF TransferExact, CompleteHash, Ended, DataSent
    <3> QED
      BY <3>5, <3>6
  <2>3. ASSUME headerCh = <<FALSE>>
        PROVE  ErrorInv' /\ PhaseInv' /\ TransferExact'
    <3>1. Head(headerCh) = FALSE
      BY <2>3, OneElement, Zenon
    <3>2. phase' = "tar header"
      BY <1>8, <3>1, Zenon DEF HeaderArrives
    <3> QED
      BY <1>4, <1>7, <2>1, <3>2, Zenon DEF Flagged, PhaseInv, TransferExact
  <2>4. ChannelInv'
    BY <1>1, <2>1, ChannelFrame, Zenon
  <2>5. ErrorInv' /\ PhaseInv' /\ TransferExact'
    BY <2>1, <2>2, <2>3, Zenon DEF ChannelInv
  <2> QED
    BY <1>2, <1>5, <1>6, <2>1, <2>4, <2>5 DEF IInv
<1>9. CASE HeaderErr \/ BodyErr \/ TarHeaderErr \/ TarHeaderClosed
  <2> USE <1>9 DEF HeaderErr, BodyErr, TarHeaderErr, TarHeaderClosed, TakeErr
  <2>1. tarpc' = tarpc /\ written' = written /\ headerCh' = headerCh
    BY Zenon
  <2>2. errCh' = <<>>
    BY OneElement, Zenon DEF ChannelInv
  <2>3. errNil' = errNil \/ errNil' = (errCh = <<>>)
    BY Zenon
  <2>4. errCh = <<>> => chClosed
    BY Zenon DEF ErrReady
  <2>5. phase' \in {"stream header", "body", "failed"}
    BY <1>4, Zenon
  <2>6. errCh = <<"error">> => phase' = "failed"
    BY OneElement, Zenon DEF TakenErr
  <2>7. ChannelInv'
    <3>1. errNil \in BOOLEAN /\ (errNil => chClosed)
      BY Zenon DEF ChannelInv
    <3>2. errNil' \in BOOLEAN /\ (errNil' => chClosed)
      <4>1. CASE errNil' = errNil
        BY <3>1, <4>1, Zenon
      <4>2. CASE errNil' = (errCh = <<>>)
        BY <2>4, <4>2, Zenon
      <4> QED
        BY <2>3, <4>1, <4>2, Zenon
    <3> QED
      BY <1>1, <2>1, <2>2, <3>2, ChannelFrame, Zenon
  <2>8. ErrorInv'
    BY <1>4, <1>7, <2>1, <2>6, Zenon DEF Flagged
  <2> QED
    BY <1>2, <1>5, <1>6, <2>1, <2>5, <2>7, <2>8, Zenon DEF IInv, PhaseInv, TransferExact
<1>10. CASE DataArrives
  <2>1. /\ tarpc = "data" /\ tarpc' \in {"recv", "finish"} /\ (tarpc' = "finish" <=> packet.complete)
        /\ phase' = "body" /\ written' = Append(written, packet.n)
        /\ errCh' = errCh /\ headerCh' = headerCh /\ errNil' = errNil
    BY <1>10, Zenon DEF DataArrives, AfterPacket
  <2>2. taken \in 1 .. Len(sent) /\ packet = sent[taken] /\ packet.kind = "data"
    BY <1>3, <2>1 DEF TarInv
  <2>3. packet \in Packet
    BY <1>3, <2>2
  <2>4. TarInv'
    BY <1>1, <2>1, <2>2 DEF TarInv
  <2>5. ChannelInv'
    <3>1. chClosed = FALSE /\ errNil = FALSE /\ headerCh # <<TRUE>>
      BY <2>1, Zenon DEF ChannelInv
    <3> QED
      BY <1>1, <2>1, <3>1, Zenon DEF ChannelInv
  <2>6. ErrorInv'
    BY <1>1, <1>4, <2>1, Zenon DEF ErrorInv, Flagged
  <2>7. DataInv'
    <3>1. taken - 1 \in Nat /\ taken = (taken - 1) + 1
      BY <1>3, <2>2
    <3>2. DataUpTo(sent, taken) = DataUpTo(sent, taken - 1) + 1
      BY <2>2, <3>1, CountNext
    <3>3. packet.n = DataUpTo(sent, taken)
      BY <1>3, <2>2 DEF HostInv
    <3>4. Len(written) = DataUpTo(sent, taken - 1) /\ written \in Seq(Nat)
      BY <2>1 DEF DataInv, HandedOn
    <3>5. packet.n \in Nat
      BY <2>3 DEF Packet
    <3>6. /\ written' \in Seq(Nat) /\ Len(written') = Len(written) + 1
          /\ \A k \in 1 .. Len(written) : written'[k] = written[k]
          /\ written'[Len(written) + 1] = packet.n
      BY <2>1, <3>4, <3>5, AppendProperties
    <3>7. HandedOn' = taken
      BY <1>1, <2>1 DEF HandedOn
    <3> QED
      BY <1>1, <3>2, <3>3, <3>4, <3>6, <3>7, SMTT(20) DEF DataInv
  <2> QED
    BY <1>2, <2>1, <2>4, <2>5, <2>6, <2>7, Zenon DEF IInv, PhaseInv, TransferExact
<1>11. CASE BodyClosed
  <2> USE <1>11 DEF BodyClosed
  <2>1. tarpc' = tarpc /\ written' = written /\ headerCh' = headerCh /\ errNil' = errNil /\ phase' \in {"ok", "failed"}
    OBVIOUS
  <2>2. errCh' = <<>>
    BY DEF ChannelInv, TakeErr
  <2>3. errCh = <<"error">> => phase' = "failed"
    BY DEF ErrWaiting, TakenErr, ChannelInv
  <2>4. ChannelInv'
    BY <1>1, <2>1, <2>2, ChannelFrame, Zenon DEF ChannelInv
  <2>5. ErrorInv'
    BY <1>7, <2>1, <2>3 DEF Flagged
  <2>6. TransferExact'
    <3> SUFFICES ASSUME phase' = "ok"
                 PROVE  TransferExact'
      BY DEF TransferExact
    <3>1. ~Flagged /\ tarpc = "exited"
      BY <2>3 DEF Flagged, ChannelInv
    <3>2. taken > 0 /\ packet.complete
      BY <3>1 DEF ErrorInv
    <3>3. \A k \in DOMAIN sent : sent[k].kind \in {"hash", "data"}
      <4> SUFFICES ASSUME NEW k \in 1 .. Len(sent)
                   PROVE  sent[k].kind \in {"hash", "data"}
        BY <1>3
      <4>1. sent[k] \in Packet /\ sent[k].kind # "other"
        BY <1>3, <3>1, <3>2, AllHandedOn DEF ErrorInv
      <4>2. sent[k].kind # "error"
        BY <1>3, <3>1, <3>2, AllHandedOn DEF HostInv
      <4> QED
        BY <4>1, <4>2 DEF Packet, Kinds
    <3> QED
      BY <1>1, <2>1, <3>1, <3>2, <3>3, AllHandedOn DEF TransferExact, Ended, DataSent
  <2> QED
    BY <1>2, <1>5, <1>6, <2>1, <2>4, <2>5, <2>6 DEF IInv, PhaseInv
<1>12. CASE CtxDone \/ WriteFails
  <2> USE <1>12 DEF CtxDone, WriteFails
  <2>1. ChannelInv'
    <3>1. UNCHANGED <<tarpc, errCh, headerCh, errNil>> /\ errNil \in BOOLEAN /\ (errNil => chClosed /\ errCh = <<>>)
      BY DEF ChannelInv
    <3> QED
      BY <1>1, <3>1, ChannelFrame
  <2> QED
    BY <1>2, <1>5, <1>6, <1>7, <2>1, Zenon DEF IInv, PhaseInv, TransferExact, Flagged
<1> QED
  BY <1>8, <1>9, <1>10, <1>11, <1>12 DEF Receive

LEMMA IInvStep == IInv /\ [Next]_vars => IInv'
<1> SUFFICES ASSUME HostInv, TarInv, ChannelInv, ErrorInv, DataInv, PhaseInv, TransferExact,
                    [Next]_vars
             PROVE  IInv'
  BY DEF IInv
<1>1. CASE Cancel \/ UNCHANGED vars
  <2>1. UNCHANGED <<sent, tarpc, packet, taken, errCh, headerCh, chClosed, phase, errNil, written>>
    BY <1>1 DEF Cancel, vars
  <2>2. HostInv' /\ TarInv' /\ PhaseInv'
    BY <2>1, Zenon DEF HostInv, TarInv, PhaseInv
  <2>3. ChannelInv' /\ ErrorInv'
    BY <2>1, Zenon DEF ChannelInv, ErrorInv, Flagged, CompleteHash
  <2>4. DataInv' /\ TransferExact'
    BY <2>1 DEF DataInv, HandedOn, TransferExact, Ended, DataSent
  <2> QED
    BY <2>2, <2>3, <2>4 DEF IInv
<1> QED
  BY <1>1, HostStep, StartTarStep, ReceiveStep DEF Next

(* Receive takes a transfer for complete only when it is: nothing that the *)
(* host sent is lost, repeated or reordered, and no error of the host or   *)
(* of startTar is missed, for any number of packets and any interleaving   *)
(* of startTar, Receive and the cancellation.                              *)
THEOREM Exact == Spec => []TransferExact
<1>1. IInv => TransferExact
  BY DEF IInv
<1> QED
  BY <1>1, IInvInit, IInvStep, PTL DEF Spec
=============================================================================
