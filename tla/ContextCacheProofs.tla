------------------------- MODULE ContextCacheProofs -------------------------
(***************************************************************************)
(* Proofs about ContextCache, for any number of receivers, digests and     *)
(* files, and about the shim that is restarted over such a cache,          *)
(* Supervisor, which comes last.                                           *)
(***************************************************************************)
EXTENDS ContextCache, Supervisor, TLAPS

\* The steps of publishTar between its lock and its unlock.
Holding(r) == pc[r] \in {"recheck", "unpack", "rename"}

\* The lock of a digest belongs to the receiver that is publishing it.
LockInv ==
  /\ \A r \in Receivers : Holding(r) => lock[want[r]] = r
  /\ \A r \in Receivers, d \in Digests : lock[d] = r => Holding(r) /\ want[r] = d

(* How far a receiver has come says what its tar and its temporary         *)
(* directory hold, and that nobody else fills the entry it publishes.      *)
ReceiverInv(r) ==
  /\ pc[r] = "idle" => want[r] = None
  /\ pc[r] \notin {"idle", "failed", "crashed"} => want[r] \in Digests
  /\ pc[r] \in {"idle", "done", "failed"} => tar[r] = None
  /\ pc[r] \in {"lock", "recheck", "unpack", "rename"} => tar[r] = want[r]
  /\ pc[r] \notin {"unpack", "rename", "crashed"} => temp[r] = Absent
  /\ pc[r] = "unpack" => \E n \in 0..Files : temp[r] = Dir(want[r], n, FALSE)
  /\ pc[r] = "rename" => temp[r] = Dir(want[r], Files, TRUE)
  /\ pc[r] \in {"unpack", "rename"} => entry[want[r]] = Absent
  /\ pc[r] \in {"walk", "done"} => Present(want[r])
  /\ pc[r] \in {"chunk", "body"} /\ cached[r] => Present(want[r])
  /\ pc[r] = "done" => seen[r] = Files

IInv ==
  /\ TypeOK /\ OnlyVerified /\ LockInv
  /\ \A r \in Receivers : ReceiverInv(r)
  /\ \A d \in told : Present(d)

\* The shapes a directory of the cache takes have the type of a directory.
LEMMA DirTypes ==
  /\ Absent \in Directory /\ Foreign \in Directory
  /\ \A of \in Digests \cup {Garbage, None}, n \in 0..Files, b \in BOOLEAN :
       Dir(of, n, b) \in Directory
BY ConstantsOK DEF Absent, Foreign, Dir, Directory

\* What unpacking a file, or writing the marker, does to a directory.
LEMMA DirSteps ==
  ASSUME NEW of, NEW n, NEW m
  PROVE  /\ [Dir(of, n, FALSE) EXCEPT !.files = m] = Dir(of, m, FALSE)
         /\ [Dir(of, n, FALSE) EXCEPT !.marker = TRUE] = Dir(of, n, TRUE)
<1>1. \A x, y : [Dir(of, n, x) EXCEPT !.marker = y] = Dir(of, n, y)
  BY DEF Dir
<1>2. \A x, y : [Dir(of, n, x) EXCEPT !.files = y] = Dir(of, y, x)
  BY DEF Dir
<1> QED
  BY <1>1, <1>2, Zenon

\* Both steps keep the type of a directory.
LEMMA DirUpdates ==
  ASSUME NEW x \in Directory
  PROVE  /\ x.files \in 0..Files
         /\ \A n \in 0..Files : [x EXCEPT !.files = n] \in Directory
         /\ [x EXCEPT !.marker = TRUE] \in Directory
BY Zenon DEF Directory

\* Every step of the receivers keeps the types of their variables.
LEMMA TypeStep ==
  ASSUME IInv, [Next]_vars
  PROVE  TypeOK'
<1> USE DEF TypeOK, IInv
<1>1. ASSUME NEW r \in Receivers, NEW d \in Digests, NEW b \in BOOLEAN, ReceiveHeader(r, d, b)
     PROVE  TypeOK'
  <2>1. Present(d) \in BOOLEAN
    BY DEF Present
  <2>2. pc'[r] \in {"failed", "walk", "chunk"}
    BY <1>1 DEF ReceiveHeader
  <2> QED
    BY <1>1, <2>1, <2>2 DEF ReceiveHeader
<1>2. ASSUME NEW r \in Receivers, NEW c \in Digests \cup {Garbage}, ReadTarBody(r, c)
     PROVE  TypeOK'
  BY <1>2 DEF ReadTarBody
<1>3. ASSUME NEW r \in Receivers, WriteTar(r)
     PROVE  TypeOK'
  BY <1>3 DEF WriteTar, Goes
<1>4. ASSUME NEW r \in Receivers, VerifyTarHash(r)
     PROVE  TypeOK'
  BY <1>4 DEF VerifyTarHash, Goes
<1>5. ASSUME NEW r \in Receivers, TryLock(r)
     PROVE  TypeOK'
  BY <1>5, Zenon DEF TryLock, Goes
<1>6. ASSUME NEW r \in Receivers, AlreadyPublished(r)
     PROVE  TypeOK'
  BY <1>6, Zenon DEF AlreadyPublished, Goes
<1>7. ASSUME NEW r \in Receivers, PrepareDir(r)
     PROVE  TypeOK'
  <2>0. 0 \in 0..Files /\ tar[r] \in Digests \cup {Garbage, None}
    BY ConstantsOK
  <2>1. Absent \in Directory /\ Dir(tar[r], 0, FALSE) \in Directory
    BY <2>0, DirTypes, Zenon
  <2> QED
    BY <1>7, <2>1, Zenon DEF PrepareDir, Goes
<1>8. ASSUME NEW r \in Receivers, UnpackFile(r)
     PROVE  TypeOK'
  <2>0. temp[r].files \in 0..Files
    BY DirUpdates, Zenon
  <2>1. temp[r].files + 1 \in 0..Files
    BY <1>8, <2>0, ConstantsOK DEF UnpackFile
  <2> QED
    BY <1>8, <2>1, DirUpdates, Zenon DEF UnpackFile
<1>9. ASSUME NEW r \in Receivers, WriteMarker(r)
     PROVE  TypeOK'
  BY <1>9, DirUpdates DEF WriteMarker, Goes
<1>10. ASSUME NEW r \in Receivers, Publish(r)
     PROVE  TypeOK'
  BY <1>10, DirTypes, Zenon DEF Publish, Goes
<1>11. ASSUME NEW r \in Receivers, WalkFile(r)
     PROVE  TypeOK'
  <2>1. want[r] \in Digests
    BY <1>11, Zenon DEF WalkFile, ReceiverInv
  <2>2. entry[want[r]].files \in 0..Files
    BY <2>1, DirUpdates, Zenon
  <2>3. seen[r] \in 0..Files
    OBVIOUS
  <2>4. seen[r] + 1 \in 0..Files
    BY <1>11, <2>2, <2>3, ConstantsOK DEF WalkFile
  <2> QED
    BY <1>11, <2>4 DEF WalkFile
<1>12. ASSUME NEW r \in Receivers, WalkDone(r)
     PROVE  TypeOK'
  BY <1>12 DEF WalkDone, Goes
<1>13. ASSUME NEW r \in Receivers, Fails(r)
     PROVE  TypeOK'
  BY <1>13, DirTypes DEF Fails
<1>14. ASSUME NEW d \in Digests, LookupContext(d)
     PROVE  TypeOK'
  BY <1>14 DEF LookupContext
<1>15. CASE Crash
  BY <1>15 DEF Crash
<1>16. CASE UNCHANGED vars
  BY <1>16 DEF vars
<1> HIDE DEF TypeOK, IInv
<1>17. ASSUME NEW r \in Receivers, Advance(r)
       PROVE  TypeOK'
  BY <1>2, <1>3, <1>4, <1>5, <1>6, <1>7, <1>8, <1>9, <1>10, <1>11, <1>12, <1>13, <1>17, Zenon
  DEF Advance, VerifyTarHashFails
<1>18. ASSUME NEW r \in Receivers, Trouble(r)
       PROVE  TypeOK'
  BY <1>13, <1>18, Zenon DEF Trouble, HeaderFails, TransferFails, LockFails, PublishFails, WalkFails
<1> QED
  BY <1>1, <1>14, <1>15, <1>16, <1>17, <1>18, Zenon DEF Next

\* The cache starts without complete entries, and nothing is under way.
LEMMA IInvInit == Init => IInv
<1> SUFFICES ASSUME Init PROVE IInv
  OBVIOUS
<1> USE DEF Init
<1>1. TypeOK
  <2>1. 1 \in 0..Files /\ 0 \in 0..Files /\ Garbage \in Digests \cup {Garbage, None}
    BY ConstantsOK
  <2>2. {Absent, Foreign, Dir(Garbage, 1, FALSE)} \subseteq Directory
    BY <2>1, DirTypes, Zenon
  <2> QED
    BY <2>1, <2>2, Zenon DEF TypeOK
<1>2. \A d \in Digests : ~Present(d)
  BY DEF Present, Absent, Foreign, Dir
<1>3. LockInv
  BY ConstantsOK DEF LockInv, Holding
<1>4. \A r \in Receivers : ReceiverInv(r)
  BY Zenon DEF ReceiverInv
<1> QED
  BY <1>1, <1>2, <1>3, <1>4, Zenon DEF IInv, OnlyVerified

(* A complete entry survives every step: publishTar looks under the lock   *)
(* before it removes what is in its way, and the rename finds the entry    *)
(* absent.                                                                 *)
LEMMA PublishedStep ==
  ASSUME IInv, [Next]_vars
  PROVE  \A d \in Digests : Present(d) => entry'[d] = entry[d] /\ Present(d)'
<1> USE DEF IInv, TypeOK, Present
<1>1. CASE UNCHANGED entry
  BY <1>1
<1>2. ASSUME NEW r \in Receivers, PrepareDir(r)
     PROVE  \A d \in Digests : Present(d) => entry'[d] = entry[d] /\ Present(d)'
  BY <1>2 DEF PrepareDir
<1>3. ASSUME NEW r \in Receivers, Publish(r)
     PROVE  \A d \in Digests : Present(d) => entry'[d] = entry[d] /\ Present(d)'
  <2>1. want[r] \in Digests /\ entry[want[r]] = Absent
    BY <1>3, Zenon DEF Publish, Goes, ReceiverInv
  <2>2. ~Present(want[r])
    BY <2>1 DEF Absent
  <2>3. \A d \in Digests \ {want[r]} : entry'[d] = entry[d]
    BY <1>3, <2>1 DEF Publish
  <2> QED
    BY <2>2, <2>3
<1> QED
  BY <1>1, <1>2, <1>3
  DEF vars, Next, Advance, Trouble, ReceiveHeader, ReadTarBody, WriteTar, VerifyTarHash, TryLock,
      AlreadyPublished, UnpackFile, WriteMarker, WalkFile, WalkDone, Fails, LookupContext, Crash,
      VerifyTarHashFails, HeaderFails, TransferFails, LockFails, PublishFails, WalkFails

\* What belongs to receiver q does not change.
Same(q) ==
  /\ pc'[q] = pc[q] /\ want'[q] = want[q] /\ cached'[q] = cached[q]
  /\ tar'[q] = tar[q] /\ temp'[q] = temp[q] /\ seen'[q] = seen[q]

\* A step of one receiver leaves the invariant of the others alone.
LEMMA OthersKept ==
  ASSUME NEW q \in Receivers, ReceiverInv(q), Same(q),
         \A d \in Digests : Present(d) => Present(d)',
         Holding(q) => entry'[want[q]] = entry[want[q]]
  PROVE  ReceiverInv(q)'
<1>1. ASSUME want[q] \in Digests, Present(want[q])
      PROVE  Present(want[q])'
  BY <1>1 DEF Same, Present
<1> QED
  BY <1>1, Zenon DEF ReceiverInv, Same, Holding

\* Every step of the receivers keeps the invariant.
LEMMA IInvStep ==
  ASSUME IInv, [Next]_vars
  PROVE  IInv'
<1>0. TypeOK' /\ \A d \in Digests : Present(d) => entry'[d] = entry[d] /\ Present(d)'
  BY TypeStep, PublishedStep
<1> USE ConstantsOK, <1>0 DEF IInv, TypeOK
<1>1. ASSUME NEW r \in Receivers, NEW d \in Digests, NEW b \in BOOLEAN, ReceiveHeader(r, d, b)
     PROVE  IInv'
  <2> USE <1>1
  <2>1. OnlyVerified'
    BY Zenon DEF OnlyVerified, Present, ReceiveHeader
  <2>2. LockInv'
    BY DEF LockInv, Holding, ReceiverInv, ReceiveHeader
  <2>3. ASSUME NEW q \in Receivers PROVE ReceiverInv(q)'
    <3>1. CASE q # r
      <4>1. Same(q)
        BY <3>1 DEF Same, ReceiveHeader
      <4>2. Holding(q) => entry'[want[q]] = entry[want[q]]
        BY <3>1 DEF Holding, ReceiveHeader
      <4> QED
        BY <4>1, <4>2, OthersKept
    <3>2. ReceiverInv(r)'
      <4>1. pc'[r] = "walk" => Present(d)'
        BY <1>0 DEF ReceiveHeader, Present
      <4>2. pc'[r] = "chunk" /\ cached'[r] => Present(d)'
        BY <1>0 DEF ReceiveHeader, Present
      <4>3. pc'[r] \in {"walk", "failed", "chunk"} /\ want'[r] = d /\ tar'[r] = None /\ temp'[r] = Absent
        BY Zenon DEF ReceiveHeader, ReceiverInv
      <4> QED
        BY <4>1, <4>2, <4>3, Zenon DEF ReceiverInv, Present
    <3> QED
      BY <3>1, <3>2
  <2>4. \A x \in told' : Present(x)'
    BY DEF Present, ReceiveHeader
  <2> QED
    BY <2>1, <2>2, <2>3, <2>4
<1>2. ASSUME NEW r \in Receivers, NEW c \in Digests \cup {Garbage}, ReadTarBody(r, c)
     PROVE  IInv'
  <2> USE <1>2 DEF ReadTarBody
  <2>1. OnlyVerified'
    BY Zenon DEF OnlyVerified, Present
  <2>2. LockInv'
    BY DEF LockInv, Holding, ReceiverInv
  <2>3. ASSUME NEW q \in Receivers PROVE ReceiverInv(q)'
    <3>1. CASE q # r
      <4>1. Same(q)
        BY <3>1 DEF Same
      <4>2. Holding(q) => entry'[want[q]] = entry[want[q]]
        BY <3>1 DEF Holding
      <4> QED
        BY <4>1, <4>2, OthersKept
    <3>2. ReceiverInv(r)'
      <4>0. want[r] \in Digests /\ want'[r] = want[r] /\ temp'[r] = Absent
        BY Zenon DEF ReceiverInv
      <4>1. CASE cached[r]
        <5>0. pc[r] \in {"chunk", "body"} /\ ReceiverInv(r)
          OBVIOUS
        <5>1. pc'[r] = "walk"
          BY <4>1
        <5>2. Present(want[r])
          BY ONLY <4>1, <5>0, Zenon DEF ReceiverInv
        <5>3. Present(want[r])'
          BY <4>0, <5>2 DEF Present
        <5> QED
          BY <4>0, <5>1, <5>3 DEF ReceiverInv
      <4>2. CASE ~cached[r]
        <5>1. pc'[r] = "verify"
          BY <4>2
        <5> QED
          BY <4>0, <5>1 DEF ReceiverInv
      <4> QED
        BY <4>1, <4>2
    <3> QED
      BY <3>1, <3>2
  <2>4. \A x \in told' : Present(x)'
    BY DEF Present
  <2> QED
    BY <2>1, <2>2, <2>3, <2>4
<1>3. ASSUME NEW r \in Receivers, WriteTar(r)
     PROVE  IInv'
  <2> USE <1>3 DEF WriteTar, Goes
  <2>1. OnlyVerified'
    BY Zenon DEF OnlyVerified, Present
  <2>2. LockInv'
    BY DEF LockInv, Holding, ReceiverInv
  <2>3. ASSUME NEW q \in Receivers PROVE ReceiverInv(q)'
    <3>1. CASE q # r
      <4>1. Same(q)
        BY <3>1 DEF Same
      <4>2. Holding(q) => entry'[want[q]] = entry[want[q]]
        BY <3>1 DEF Holding
      <4> QED
        BY <4>1, <4>2, OthersKept
    <3>2. ReceiverInv(r)'
      BY ConstantsOK, ZenonT(30) DEF ReceiverInv, Present
    <3> QED
      BY <3>1, <3>2
  <2>4. \A x \in told' : Present(x)'
    BY DEF Present
  <2> QED
    BY <2>1, <2>2, <2>3, <2>4
<1>4. ASSUME NEW r \in Receivers, VerifyTarHash(r)
     PROVE  IInv'
  <2> USE <1>4 DEF VerifyTarHash, Goes
  <2>1. OnlyVerified'
    BY Zenon DEF OnlyVerified, Present
  <2>2. LockInv'
    BY DEF LockInv, Holding, ReceiverInv
  <2>3. ASSUME NEW q \in Receivers PROVE ReceiverInv(q)'
    <3>1. CASE q # r
      <4>1. Same(q)
        BY <3>1 DEF Same
      <4>2. Holding(q) => entry'[want[q]] = entry[want[q]]
        BY <3>1 DEF Holding
      <4> QED
        BY <4>1, <4>2, OthersKept
    <3>2. ReceiverInv(r)'
      BY ConstantsOK, ZenonT(30) DEF ReceiverInv, Present
    <3> QED
      BY <3>1, <3>2
  <2>4. \A x \in told' : Present(x)'
    BY DEF Present
  <2> QED
    BY <2>1, <2>2, <2>3, <2>4
<1>5. ASSUME NEW r \in Receivers, TryLock(r)
     PROVE  IInv'
  <2> USE <1>5 DEF TryLock, Goes
  <2>1. OnlyVerified'
    BY Zenon DEF OnlyVerified, Present
  <2>2. LockInv'
    BY DEF LockInv, Holding, ReceiverInv
  <2>3. ASSUME NEW q \in Receivers PROVE ReceiverInv(q)'
    <3>1. CASE q # r
      <4>1. Same(q)
        BY <3>1 DEF Same
      <4>2. Holding(q) => entry'[want[q]] = entry[want[q]]
        BY <3>1 DEF Holding
      <4> QED
        BY <4>1, <4>2, OthersKept
    <3>2. ReceiverInv(r)'
      BY ConstantsOK, Zenon DEF ReceiverInv, Present
    <3> QED
      BY <3>1, <3>2
  <2>4. \A x \in told' : Present(x)'
    BY DEF Present
  <2> QED
    BY <2>1, <2>2, <2>3, <2>4
<1>6. ASSUME NEW r \in Receivers, AlreadyPublished(r)
     PROVE  IInv'
  <2> USE <1>6 DEF AlreadyPublished, Goes
  <2>1. OnlyVerified'
    BY Zenon DEF OnlyVerified, Present
  <2>2. LockInv'
    BY DEF LockInv, Holding, ReceiverInv
  <2>3. ASSUME NEW q \in Receivers PROVE ReceiverInv(q)'
    <3>1. CASE q # r
      <4>1. Same(q)
        BY <3>1 DEF Same
      <4>2. Holding(q) => entry'[want[q]] = entry[want[q]]
        BY <3>1 DEF Holding
      <4> QED
        BY <4>1, <4>2, OthersKept
    <3>2. ReceiverInv(r)'
      BY ConstantsOK, ZenonT(30) DEF ReceiverInv, Present
    <3> QED
      BY <3>1, <3>2
  <2>4. \A x \in told' : Present(x)'
    BY DEF Present
  <2> QED
    BY <2>1, <2>2, <2>3, <2>4
<1>7. ASSUME NEW r \in Receivers, PrepareDir(r)
     PROVE  IInv'
  <2> USE <1>7 DEF PrepareDir, Goes
  <2>0. want[r] \in Digests /\ entry'[want[r]] = Absent
    BY DEF ReceiverInv
  <2>1. OnlyVerified'
    <3>1. \A d \in Digests \ {want[r]} : entry'[d] = entry[d]
      BY <2>0
    <3>2. entry'[want[r]].kind # "dir"
      BY <2>0 DEF Absent
    <3>3. ASSUME NEW x \in Digests, Present(x)' PROVE entry'[x] = Dir(x, Files, TRUE)
      <4>1. x # want[r]
        BY <3>2, <3>3 DEF Present
      <4>2. entry'[x] = entry[x]
        BY <3>1, <4>1
      <4>3. Present(x)
        BY <3>3, <4>2, Zenon DEF Present
      <4> QED
        BY <4>2, <4>3, Zenon DEF OnlyVerified
    <3> QED
      BY <3>3, Zenon DEF OnlyVerified
  <2>2. LockInv'
    BY DEF LockInv, Holding, ReceiverInv
  <2>3. ASSUME NEW q \in Receivers PROVE ReceiverInv(q)'
    <3>1. CASE q # r
      <4>1. Same(q)
        BY <3>1 DEF Same
      <4>2. Holding(q) => entry'[want[q]] = entry[want[q]]
        BY <3>1 DEF LockInv, Holding, ReceiverInv
      <4> QED
        BY <4>1, <4>2, OthersKept
    <3>2. ReceiverInv(r)'
      <4>0. 0 \in 0..Files
        BY ConstantsOK
      <4>1. tar[r] = want[r]
        BY Zenon DEF ReceiverInv
      <4>2. temp'[r] = Dir(want[r], 0, FALSE)
        BY <4>1
      <4>3. pc'[r] = "unpack" /\ want'[r] = want[r] /\ tar'[r] = want[r]
        BY <4>1
      <4> QED
        BY <2>0, <4>0, <4>2, <4>3, ZenonT(30) DEF ReceiverInv
    <3> QED
      BY <3>1, <3>2
  <2>4. \A x \in told' : Present(x)'
    BY DEF Present
  <2> QED
    BY <2>1, <2>2, <2>3, <2>4, Zenon
<1>8. ASSUME NEW r \in Receivers, UnpackFile(r)
     PROVE  IInv'
  <2> USE <1>8 DEF UnpackFile
  <2>1. OnlyVerified'
    BY Zenon DEF OnlyVerified, Present
  <2>2. LockInv'
    BY DEF LockInv, Holding, ReceiverInv
  <2>3. ASSUME NEW q \in Receivers PROVE ReceiverInv(q)'
    <3>1. CASE q # r
      <4>1. Same(q)
        BY <3>1 DEF Same
      <4>2. Holding(q) => entry'[want[q]] = entry[want[q]]
        BY <3>1 DEF Holding
      <4> QED
        BY <4>1, <4>2, OthersKept
    <3>2. ReceiverInv(r)'
      <4>1. PICK k \in 0..Files : temp[r] = Dir(want[r], k, FALSE)
        BY Zenon DEF ReceiverInv
      <4>2. temp[r].files = k
        BY <4>1 DEF Dir
      <4>3. k + 1 \in 0..Files
        BY <4>2
      <4>4. temp'[r] = [Dir(want[r], k, FALSE) EXCEPT !.files = k + 1]
        BY <4>1, <4>2, Zenon
      <4>5. temp'[r] = Dir(want[r], k + 1, FALSE)
        BY ONLY <4>4, DirSteps, Zenon
      <4> QED
        BY <4>3, <4>5, Zenon DEF ReceiverInv
    <3> QED
      BY <3>1, <3>2
  <2>4. \A x \in told' : Present(x)'
    BY DEF Present
  <2> QED
    BY <2>1, <2>2, <2>3, <2>4
<1>9. ASSUME NEW r \in Receivers, WriteMarker(r)
     PROVE  IInv'
  <2> USE <1>9 DEF WriteMarker, Goes
  <2>1. OnlyVerified'
    BY Zenon DEF OnlyVerified, Present
  <2>2. LockInv'
    BY DEF LockInv, Holding, ReceiverInv
  <2>3. ASSUME NEW q \in Receivers PROVE ReceiverInv(q)'
    <3>1. CASE q # r
      <4>1. Same(q)
        BY <3>1 DEF Same
      <4>2. Holding(q) => entry'[want[q]] = entry[want[q]]
        BY <3>1 DEF Holding
      <4> QED
        BY <4>1, <4>2, OthersKept
    <3>2. ReceiverInv(r)'
      <4>1. PICK k \in 0..Files : temp[r] = Dir(want[r], k, FALSE)
        BY Zenon DEF ReceiverInv
      <4>2. k = Files
        BY <4>1 DEF Dir
      <4>3. temp'[r] = [Dir(want[r], Files, FALSE) EXCEPT !.marker = TRUE]
        BY <4>1, <4>2
      <4>4. temp'[r] = Dir(want[r], Files, TRUE)
        BY ONLY <4>3, DirSteps, Zenon
      <4> QED
        BY <4>4, Zenon DEF ReceiverInv
    <3> QED
      BY <3>1, <3>2
  <2>4. \A x \in told' : Present(x)'
    BY DEF Present
  <2> QED
    BY <2>1, <2>2, <2>3, <2>4
<1>10. ASSUME NEW r \in Receivers, Publish(r)
     PROVE  IInv'
  <2> USE <1>10 DEF Publish, Goes
  <2>0. want[r] \in Digests /\ temp[r] = Dir(want[r], Files, TRUE)
    BY Zenon DEF ReceiverInv
  <2>1. OnlyVerified'
    <3>1. entry'[want[r]] = Dir(want[r], Files, TRUE)
      BY <2>0
    <3>2. \A d \in Digests \ {want[r]} : entry'[d] = entry[d]
      BY <2>0
    <3>3. ASSUME NEW x \in Digests, Present(x)' PROVE entry'[x] = Dir(x, Files, TRUE)
      <4>1. CASE x = want[r]
        BY <3>1, <4>1
      <4>2. CASE x # want[r]
        <5>1. entry'[x] = entry[x]
          BY <3>2, <4>2, Zenon
        <5>2. Present(x)
          BY <3>3, <5>1, Zenon DEF Present
        <5> QED
          BY <5>1, <5>2, Zenon DEF OnlyVerified
      <4> QED
        BY <4>1, <4>2, Zenon
    <3> QED
      BY <3>3, Zenon DEF OnlyVerified
  <2>2. LockInv'
    BY DEF LockInv, Holding, ReceiverInv
  <2>3. ASSUME NEW q \in Receivers PROVE ReceiverInv(q)'
    <3>1. CASE q # r
      <4>1. Same(q)
        BY <3>1 DEF Same
      <4>2. Holding(q) => entry'[want[q]] = entry[want[q]]
        BY <3>1 DEF LockInv, Holding, ReceiverInv
      <4> QED
        BY <4>1, <4>2, OthersKept
    <3>2. ReceiverInv(r)'
      <4>1. entry'[want[r]] = Dir(want[r], Files, TRUE)
        BY <2>0
      <4>2. Present(want[r])'
        BY <4>1, <2>0 DEF Present, Dir
      <4> QED
        BY <2>0, <4>2 DEF ReceiverInv
    <3> QED
      BY <3>1, <3>2
  <2>4. \A x \in told' : Present(x)'
    BY DEF Present
  <2> QED
    BY <2>1, <2>2, <2>3, <2>4
<1>11. ASSUME NEW r \in Receivers, WalkFile(r)
     PROVE  IInv'
  <2> USE <1>11 DEF WalkFile
  <2>1. OnlyVerified'
    BY Zenon DEF OnlyVerified, Present
  <2>2. LockInv'
    BY DEF LockInv, Holding, ReceiverInv
  <2>3. ASSUME NEW q \in Receivers PROVE ReceiverInv(q)'
    <3>1. CASE q # r
      <4>1. Same(q)
        BY <3>1 DEF Same
      <4>2. Holding(q) => entry'[want[q]] = entry[want[q]]
        BY <3>1 DEF Holding
      <4> QED
        BY <4>1, <4>2, OthersKept
    <3>2. ReceiverInv(r)'
      BY ConstantsOK, Zenon DEF ReceiverInv, Present
    <3> QED
      BY <3>1, <3>2
  <2>4. \A x \in told' : Present(x)'
    BY DEF Present
  <2> QED
    BY <2>1, <2>2, <2>3, <2>4
<1>12. ASSUME NEW r \in Receivers, WalkDone(r)
     PROVE  IInv'
  <2> USE <1>12 DEF WalkDone, Goes
  <2>1. OnlyVerified'
    BY Zenon DEF OnlyVerified, Present
  <2>2. LockInv'
    BY DEF LockInv, Holding, ReceiverInv
  <2>3. ASSUME NEW q \in Receivers PROVE ReceiverInv(q)'
    <3>1. CASE q # r
      <4>1. Same(q)
        BY <3>1 DEF Same
      <4>2. Holding(q) => entry'[want[q]] = entry[want[q]]
        BY <3>1 DEF Holding
      <4> QED
        BY <4>1, <4>2, OthersKept
    <3>2. ReceiverInv(r)'
      <4>1. want[r] \in Digests /\ Present(want[r])
        BY Zenon DEF ReceiverInv
      <4>2. entry[want[r]] = Dir(want[r], Files, TRUE)
        BY <4>1, Zenon DEF OnlyVerified
      <4>3. seen[r] = Files
        BY <4>2 DEF Dir
      <4>4. Present(want[r])'
        BY <4>1 DEF Present
      <4> QED
        BY <4>1, <4>3, <4>4, Zenon DEF ReceiverInv
    <3> QED
      BY <3>1, <3>2
  <2>4. \A x \in told' : Present(x)'
    BY DEF Present
  <2> QED
    BY <2>1, <2>2, <2>3, <2>4
<1>13. ASSUME NEW r \in Receivers, Fails(r)
     PROVE  IInv'
  <2> USE <1>13 DEF Fails
  <2>1. OnlyVerified'
    BY Zenon DEF OnlyVerified, Present
  <2>2. LockInv'
    <3>1. ASSUME NEW q \in Receivers, Holding(q)' PROVE lock'[want'[q]] = q
      <4>1. q # r /\ Holding(q)
        BY <3>1 DEF Holding
      <4>2. lock[want[q]] = q /\ want[q] \in Digests
        BY <4>1, Zenon DEF LockInv, ReceiverInv, Holding
      <4> QED
        BY <4>1, <4>2
    <3>2. ASSUME NEW q \in Receivers, NEW d \in Digests, lock'[d] = q
          PROVE  Holding(q)' /\ want'[q] = d
      <4>1. lock[d] = q /\ q # r
        BY <3>2, ConstantsOK
      <4> QED
        BY <4>1 DEF LockInv, Holding
    <3> QED
      BY <3>1, <3>2 DEF LockInv
  <2>3. ASSUME NEW q \in Receivers PROVE ReceiverInv(q)'
    <3>1. CASE q # r
      <4>1. Same(q)
        BY <3>1 DEF Same
      <4>2. Holding(q) => entry'[want[q]] = entry[want[q]]
        BY <3>1 DEF Holding
      <4> QED
        BY <4>1, <4>2, OthersKept
    <3>2. ReceiverInv(r)'
      BY ConstantsOK DEF ReceiverInv, Present
    <3> QED
      BY <3>1, <3>2
  <2>4. \A x \in told' : Present(x)'
    BY DEF Present
  <2> QED
    BY <2>1, <2>2, <2>3, <2>4
<1>14. ASSUME NEW d \in Digests, LookupContext(d)
     PROVE  IInv'
  <2> USE <1>14 DEF LookupContext
  <2>1. OnlyVerified'
    BY Zenon DEF OnlyVerified, Present
  <2>2. LockInv'
    BY DEF LockInv, Holding, ReceiverInv
  <2>3. \A q \in Receivers : ReceiverInv(q)'
    BY OthersKept DEF Same
  <2>4. \A x \in told' : Present(x)'
    BY DEF Present
  <2> QED
    BY <2>1, <2>2, <2>3, <2>4
<1>15. CASE Crash
  <2> USE <1>15 DEF Crash
  <2>1. OnlyVerified'
    BY Zenon DEF OnlyVerified, Present
  <2>2. LockInv'
    <3>1. \A q \in Receivers : ~Holding(q)'
      BY DEF Holding, Active
    <3>2. \A q \in Receivers, d \in Digests : lock'[d] # q
      BY ConstantsOK
    <3> QED
      BY <3>1, <3>2 DEF LockInv
  <2>3. \A q \in Receivers : ReceiverInv(q)'
    BY ZenonT(30) DEF ReceiverInv, Active, Present
  <2>4. \A x \in told' : Present(x)'
    BY DEF Present
  <2> QED
    BY <2>1, <2>2, <2>3, <2>4
<1>16. CASE UNCHANGED vars
  <2> USE <1>16 DEF vars
  <2>1. OnlyVerified' /\ \A x \in told' : Present(x)'
    BY Zenon DEF OnlyVerified, Present
  <2>2. LockInv'
    BY DEF LockInv, Holding
  <2>3. \A q \in Receivers : ReceiverInv(q)'
    BY OthersKept DEF Same
  <2> QED
    BY <2>1, <2>2, <2>3
<1> HIDE ConstantsOK, <1>0 DEF IInv, TypeOK
<1>17. ASSUME NEW r \in Receivers, Advance(r)
       PROVE  IInv'
  BY <1>2, <1>3, <1>4, <1>5, <1>6, <1>7, <1>8, <1>9, <1>10, <1>11, <1>12, <1>13, <1>17, Zenon
  DEF Advance, VerifyTarHashFails
<1>18. ASSUME NEW r \in Receivers, Trouble(r)
       PROVE  IInv'
  BY <1>13, <1>18, Zenon DEF Trouble, HeaderFails, TransferFails, LockFails, PublishFails, WalkFails
<1> QED
  BY <1>1, <1>14, <1>15, <1>16, <1>17, <1>18, Zenon DEF Next

-----------------------------------------------------------------------------
(* Receivers, their locks and the cache directory satisfy the inductive    *)
(* invariant in every reachable state, crashes included.                   *)
THEOREM Invariance == Spec => []IInv
<1>1. Init => IInv
  BY IInvInit
<1>2. IInv /\ [Next]_vars => IInv'
  BY IInvStep
<1> QED
  BY <1>1, <1>2, PTL DEF Spec

\* The variables of the receivers and of the cache keep their types.
THEOREM TypeCorrect == Spec => []TypeOK
<1>1. IInv => TypeOK
  BY DEF IInv
<1> QED
  BY <1>1, Invariance, PTL

(* Whatever checkCache accepts was unpacked completely from a tar with the *)
(* digest in its name, for any number of concurrent receivers and crashes. *)
THEOREM Verified == Spec => []OnlyVerified
<1>1. IInv => OnlyVerified
  BY DEF IInv
<1> QED
  BY <1>1, Invariance, PTL

(* A Receive that has returned has removed its temporary tar and directory *)
(* and holds no lock.                                                      *)
THEOREM Clean == Spec => []CleanReturn
<1>1. ASSUME IInv, NEW r \in Receivers, pc[r] \in {"done", "failed"}
      PROVE  tar[r] = None /\ temp[r] = Absent /\ \A d \in Digests : lock[d] # r
  <2>1. tar[r] = None /\ temp[r] = Absent
    BY <1>1, Zenon DEF IInv, ReceiverInv
  <2>2. ~Holding(r)
    BY <1>1 DEF Holding
  <2> QED
    BY <1>1, <2>1, <2>2 DEF IInv, LockInv
<1>2. IInv => CleanReturn
  BY <1>1 DEF CleanReturn
<1> QED
  BY <1>2, Invariance, PTL

\* No step removes or replaces a complete cache entry.
THEOREM Stays == Spec => PublishedStays
<1>1. IInv /\ [Next]_vars => [\A d \in Digests : Present(d) => entry'[d] = entry[d]]_vars
  BY PublishedStep
<1> QED
  BY <1>1, Invariance, PTL DEF Spec, PublishedStays

(* A context LookupContext has reported is found by a later Receive that   *)
(* gets no tar for it.                                                     *)
THEOREM Kept == Spec => LookupKept
<1>1. ASSUME IInv, [Next]_vars, NEW r \in Receivers, pc[r] = "idle", pc'[r] = "failed"
      PROVE  want'[r] \notin told
  <2> USE <1>1, ConstantsOK DEF IInv, TypeOK
  <2>1. ASSUME NEW d \in Digests, NEW b \in BOOLEAN, ReceiveHeader(r, d, b)
        PROVE  want'[r] \notin told
    <3>1. ~Present(d)
      BY <2>1 DEF ReceiveHeader, Present
    <3> QED
      BY <2>1, <3>1 DEF ReceiveHeader
  <2>2. CASE Fails(r)
    BY <2>2, Zenon DEF Fails, ReceiverInv
  <2>3. ASSUME NEW q \in Receivers, NEW d \in Digests, NEW b \in BOOLEAN, ReceiveHeader(q, d, b)
        PROVE  q = r
    BY <2>3 DEF ReceiveHeader
  <2>4. ASSUME NEW q \in Receivers, Fails(q)
        PROVE  q = r
    BY <2>4 DEF Fails
  <2>5. ~UNCHANGED pc
    OBVIOUS
  <2>6. ASSUME NEW q \in Receivers, NEW to, pc' = [pc EXCEPT ![q] = to], to # "failed"
        PROVE  FALSE
    BY <2>6
  <2>7. ~Crash
    BY DEF Crash, Active
  <2>8. ASSUME NEW q \in Receivers, NEW c \in Digests \cup {Garbage}, ReadTarBody(q, c)
        PROVE  FALSE
    BY <2>6, <2>8 DEF ReadTarBody
  <2>9. ASSUME NEW q \in Receivers, Advance(q)
        PROVE  Fails(q)
    BY <2>5, <2>6, <2>8, <2>9, Zenon
    DEF Advance, WriteTar, VerifyTarHash, VerifyTarHashFails, TryLock, AlreadyPublished,
      PrepareDir, UnpackFile, WriteMarker, Publish, WalkFile, WalkDone, Goes
  <2>10. ASSUME NEW q \in Receivers, Trouble(q)
        PROVE  Fails(q)
    BY <2>10 DEF Trouble, HeaderFails, TransferFails, LockFails, PublishFails, WalkFails
  <2> QED
    BY <2>1, <2>2, <2>3, <2>4, <2>5, <2>7, <2>9, <2>10 DEF Next, vars, LookupContext
<1>2. IInv /\ [Next]_vars => [\A r \in Receivers :
        pc[r] = "idle" /\ pc'[r] = "failed" => want'[r] \notin told]_vars
  BY <1>1
<1> QED
  BY <1>2, Invariance, PTL DEF Spec, LookupKept

-----------------------------------------------------------------------------
\* The refinement mapping, named.
Published == {d \in Digests : Present(d)}
Outcome == [r \in Receivers |->
  IF pc[r] \in {"failed", "crashed"} THEN "failed"
  ELSE IF pc[r] # "done" THEN "none"
  ELSE IF seen[r] = Files THEN want[r] ELSE "torn"]

\* Nothing is published and no walk has ended.
LEMMA StoreInit == Init => Store!Init
<1> SUFFICES ASSUME Init PROVE Published = {} /\ Outcome = [r \in Receivers |-> "none"]
  BY DEF Store!Init, Published, Outcome
<1>1. \A d \in Digests : ~Present(d)
  BY DEF Init, Present, Absent, Foreign, Dir
<1> QED
  BY <1>1 DEF Init, Published, Outcome

(* Only the rename publishes, only WalkDone delivers, and a failure or a   *)
(* crash ends walks that had not ended; every other step stutters.         *)
LEMMA StoreStep ==
  ASSUME IInv, IInv', [Next]_vars
  PROVE  [Store!Next]_(Store!vars)
<1> USE DEF IInv, TypeOK
<1>1. ASSUME UNCHANGED Published, UNCHANGED Outcome
      PROVE  [Store!Next]_(Store!vars)
  BY <1>1 DEF Store!vars, Published, Outcome
<1>2. ASSUME NEW d \in Digests, Published' = Published \cup {d}, UNCHANGED Outcome
      PROVE  [Store!Next]_(Store!vars)
  BY <1>2 DEF Store!Next, Store!Publish, Published, Outcome
<1>3. ASSUME NEW R \in SUBSET Receivers, UNCHANGED Published,
             \A r \in R : Outcome[r] = "none",
             Outcome' = [r \in Receivers |-> IF r \in R THEN "failed" ELSE Outcome[r]]
      PROVE  [Store!Next]_(Store!vars)
  BY <1>3, Zenon DEF Store!Next, Store!Fail, Published, Outcome
<1>4. ASSUME NEW r \in Receivers, NEW d \in Digests, UNCHANGED Published, d \in Published,
             Outcome[r] = "none", Outcome' = [Outcome EXCEPT ![r] = d]
      PROVE  [Store!Next]_(Store!vars)
  BY <1>4, Zenon DEF Store!Next, Store!Deliver, Published, Outcome
<1>5. ASSUME UNCHANGED entry PROVE UNCHANGED Published
  BY <1>5 DEF Published, Present
<1>6. ASSUME NEW r \in Receivers, NEW to, pc' = [pc EXCEPT ![r] = to],
             pc[r] \notin {"failed", "crashed", "done"}, to \notin {"failed", "crashed", "done"},
             \A q \in Receivers : pc[q] = "done" => seen'[q] = seen[q] /\ want'[q] = want[q]
      PROVE  UNCHANGED Outcome
  BY <1>6 DEF Outcome
<1>7. ASSUME NEW r \in Receivers, pc' = [pc EXCEPT ![r] = "failed"], UNCHANGED <<entry, seen>>,
             pc[r] \notin {"failed", "crashed", "done"},
             \A q \in Receivers \ {r} : want'[q] = want[q]
      PROVE  [Store!Next]_(Store!vars)
  <2>1. Outcome' = [q \in Receivers |-> IF q \in {r} THEN "failed" ELSE Outcome[q]]
    BY <1>7 DEF Outcome
  <2>2. Outcome[r] = "none"
    BY <1>7 DEF Outcome
  <2>3. {r} \in SUBSET Receivers /\ UNCHANGED Published /\ \A q \in {r} : Outcome[q] = "none"
    BY <1>5, <1>7, <2>2
  <2> QED
    BY <1>3, <2>1, <2>3, Zenon
<1>8. ASSUME NEW r \in Receivers, NEW d \in Digests, NEW b \in BOOLEAN, ReceiveHeader(r, d, b)
      PROVE  [Store!Next]_(Store!vars)
  <2>1. CASE pc'[r] = "failed"
    BY <1>7, <1>8, <2>1, Zenon DEF ReceiveHeader
  <2>2. CASE pc'[r] # "failed"
    <3>1. PICK to : pc' = [pc EXCEPT ![r] = to] /\ to \in {"walk", "chunk"}
      BY <1>8, <2>2, Zenon DEF ReceiveHeader
    <3>2. UNCHANGED Outcome
      BY <1>6, <1>8, <3>1, Zenon DEF ReceiveHeader
    <3> QED
      BY <1>1, <1>5, <1>8, <3>2 DEF ReceiveHeader
  <2> QED
    BY <2>1, <2>2
<1>9. ASSUME NEW r \in Receivers, Publish(r)
      PROVE  [Store!Next]_(Store!vars)
  <2>1. want[r] \in Digests /\ temp[r] = Dir(want[r], Files, TRUE)
    BY <1>9, Zenon DEF Publish, Goes, ReceiverInv
  <2>2. entry'[want[r]] = Dir(want[r], Files, TRUE)
    BY <1>9, <2>1 DEF Publish
  <2>3. \A d \in Digests \ {want[r]} : entry'[d] = entry[d]
    BY <1>9, <2>1 DEF Publish
  <2>4. Present(want[r])'
    BY <1>9, <2>2 DEF Present, Dir, Publish
  <2>5. Published' = Published \cup {want[r]}
    <3>1. entry'[want[r]].kind = "dir" /\ entry'[want[r]].marker
      BY <2>2 DEF Dir
    <3> QED
      BY <2>1, <2>3, <3>1 DEF Published, Present
  <2>6. UNCHANGED Outcome
    BY <1>6, <1>9, Zenon DEF Publish, Goes
  <2> QED
    BY <1>2, <2>1, <2>5, <2>6
<1>10. ASSUME NEW r \in Receivers, PrepareDir(r)
       PROVE  [Store!Next]_(Store!vars)
  <2>1. want[r] \in Digests /\ ~Present(want[r])
    BY <1>10 DEF PrepareDir, Goes, ReceiverInv
  <2>2. entry'[want[r]].kind = "absent"
    BY <1>10, <2>1 DEF PrepareDir, Absent
  <2>3. \A d \in Digests \ {want[r]} : entry'[d] = entry[d]
    BY <1>10, <2>1 DEF PrepareDir
  <2>4. UNCHANGED Published
    BY <2>1, <2>2, <2>3 DEF Published, Present
  <2>5. UNCHANGED Outcome
    BY <1>6, <1>10, Zenon DEF PrepareDir, Goes
  <2> QED
    BY <1>1, <2>4, <2>5
<1>11. ASSUME NEW r \in Receivers, WalkDone(r)
       PROVE  [Store!Next]_(Store!vars)
  <2>1. pc'[r] = "done" /\ seen'[r] = Files /\ want'[r] = want[r]
    BY <1>11, Zenon DEF WalkDone, Goes, ReceiverInv
  <2>2. want[r] \in Digests /\ want[r] \in Published
    BY <1>11, Zenon DEF WalkDone, Goes, ReceiverInv, Published
  <2>3. Outcome[r] = "none" /\ Outcome' = [Outcome EXCEPT ![r] = want[r]]
    BY <1>11, <2>1, Zenon DEF WalkDone, Goes, Outcome
  <2> QED
    BY <1>4, <1>5, <1>11, <2>2, <2>3, Zenon DEF WalkDone
<1>12. CASE Crash
  <2> DEFINE R == {r \in Receivers : Active(r) }
  <2>1. Outcome' = [r \in Receivers |-> IF r \in R THEN "failed" ELSE Outcome[r]]
    BY <1>12, Zenon DEF Crash, Active, Outcome
  <2>2. \A r \in R : Outcome[r] = "none"
    BY DEF Active, Outcome
  <2> QED
    BY <1>3, <1>5, <1>12, <2>1, <2>2, Zenon DEF Crash
<1>13. ASSUME NEW r \in Receivers, NEW c \in Digests \cup {Garbage}, ReadTarBody(r, c)
       PROVE  [Store!Next]_(Store!vars)
  BY <1>1, <1>5, <1>6, <1>13 DEF ReadTarBody
<1>14. ASSUME NEW r \in Receivers, Advance(r)
       PROVE  [Store!Next]_(Store!vars)
  <2>1. CASE WriteTar(r)
    BY <1>1, <1>5, <1>6, <2>1, Zenon DEF WriteTar, Goes
  <2>2. CASE VerifyTarHash(r)
    BY <1>1, <1>5, <1>6, <2>2, Zenon DEF VerifyTarHash, Goes
  <2>3. CASE VerifyTarHashFails(r)
    BY <1>7, <2>3, Zenon DEF VerifyTarHashFails, Fails
  <2>4. CASE TryLock(r)
    BY <1>1, <1>5, <1>6, <2>4, Zenon DEF TryLock, Goes
  <2>5. CASE AlreadyPublished(r)
    BY <1>1, <1>5, <1>6, <2>5, Zenon DEF AlreadyPublished, Goes
  <2>6. CASE UnpackFile(r)
    <3>1. UNCHANGED Outcome
      BY <2>6 DEF UnpackFile, Outcome
    <3> QED
      BY <1>1, <1>5, <2>6, <3>1 DEF UnpackFile
  <2>7. CASE WriteMarker(r)
    BY <1>1, <1>5, <1>6, <2>7, Zenon DEF WriteMarker, Goes
  <2>8. CASE WalkFile(r)
    <3>1. UNCHANGED Outcome
      BY <2>8 DEF WalkFile, Outcome
    <3> QED
      BY <1>1, <1>5, <2>8, <3>1 DEF WalkFile
  <2> QED
    BY <1>9, <1>10, <1>11, <1>13, <1>14, <2>1, <2>2, <2>3, <2>4, <2>5, <2>6, <2>7, <2>8 DEF Advance
<1>15. ASSUME NEW r \in Receivers, Trouble(r)
       PROVE  [Store!Next]_(Store!vars)
  BY <1>7, <1>15
  DEF Trouble, HeaderFails, TransferFails, LockFails, PublishFails, WalkFails, Fails
<1>16. ASSUME UNCHANGED <<pc, want, seen, entry>>
       PROVE  [Store!Next]_(Store!vars)
  <2>1. UNCHANGED Outcome
    BY <1>16 DEF Outcome
  <2> QED
    BY <1>1, <1>5, <1>16, <2>1
<1> QED
  BY <1>8, <1>12, <1>14, <1>15, <1>16 DEF Next, vars, LookupContext

(* Receive and publishTar implement a content-addressed store: published   *)
(* contexts only grow, and a walk delivers all of one or fails.            *)
THEOREM Refinement == Spec => ImplementsStore
<1>1. Init => Store!Init
  BY StoreInit
<1>2. IInv /\ IInv' /\ [Next]_vars => [Store!Next]_(Store!vars)
  BY StoreStep
<1> QED
  BY <1>1, <1>2, Invariance, PTL DEF Spec, ImplementsStore, Store!Spec

-----------------------------------------------------------------------------
(***************************************************************************)
(* The shim as a process: Supervisor, for any number of starts and of      *)
(* attempts to listen.                                                     *)
(***************************************************************************)

(* While the shim runs, buildkitd runs untold only where Start waits for   *)
(* it; RunE, about to return, has a report of the server, or Start has     *)
(* reported, or has never begun.  A process that is down has no            *)
(* goroutines.                                                             *)
PartsInv ==
  /\ main \in {"down", "prepare", "run", "return"}
  /\ Down => start = "none" /\ server = "none"
  /\ main = "prepare" => start = "none"
  /\ ~Down /\ buildkitd = "running" => start = "wait"
  /\ main = "return" => reporter = "server" \/ start \in {"none", "report"}

ShimInv == PartsInv /\ SocketFree /\ BuildkitdTold

\* A container in which the shim was never started.
LEMMA ShimInvInit == ShimInit => ShimInv
BY DEF ShimInit, ShimInv, PartsInv, SocketFree, BuildkitdTold, Down

\* Every step of main, the signal handler and the two goroutines keeps the invariant.
LEMMA ShimInvStep ==
  ASSUME ShimInv, [ShimNext]_shimVars
  PROVE  ShimInv'
<1> USE DEF ShimInv, PartsInv, SocketFree, BuildkitdTold, Down
<1>1. CASE StartShim
  BY <1>1 DEF StartShim, diskVars
<1>2. ASSUME NEW enableQemu \in BOOLEAN, Prepare(enableQemu)
      PROVE  ShimInv'
  BY <1>2, Zenon DEF Prepare, PreparedSocket
<1>3. CASE PrepareFails
  BY <1>3 DEF PrepareFails, partVars, diskVars
<1>4. ASSUME NEW part \in {"buildkit", "server"}, TakeReport(part)
      PROVE  ShimInv'
  BY <1>4 DEF TakeReport, partVars, diskVars
<1>5. CASE MainReturns
  BY <1>5 DEF MainReturns, Gone, diskVars
<1>6. CASE Killed \/ ExitOnTimer
  BY <1>6 DEF Killed, ExitOnTimer, Gone, diskVars
<1>7. CASE SendSignal \/ HandleSignal
  BY <1>7 DEF SendSignal, HandleSignal, partVars, diskVars
<1>8. CASE Configure \/ ParseRegistryMirrorFails \/ Save \/ StartFails
  BY <1>8 DEF Configure, ParseRegistryMirrorFails, Save, StartFails, StartUnchanged, diskVars
<1>9. CASE StartProcess
  BY <1>9 DEF StartProcess, StartUnchanged, diskVars
<1>10. CASE BuildkitdExits
  BY <1>10 DEF BuildkitdExits, StartUnchanged, diskVars
<1>11. CASE StartCancelled \/ StartWaited
  BY <1>11 DEF StartCancelled, StartWaited, Terminated, StartUnchanged, diskVars
<1>12. CASE ListenUnix \/ ServerFails
  BY <1>12 DEF ListenUnix, ServerFails, ServerUnchanged
<1>13. CASE ListenVSock
  BY <1>13 DEF ListenVSock, ServerUnchanged
<1>14. CASE PortFreed
  BY <1>14 DEF PortFreed, partVars
<1>15. CASE UNCHANGED shimVars
  BY <1>15 DEF shimVars
<1> QED
  BY <1>1, <1>2, <1>3, <1>4, <1>5, <1>6, <1>7, <1>8, <1>9, <1>10, <1>11, <1>12, <1>13, <1>14, <1>15, Zenon
  DEF ShimNext, Reports

\* So it holds however often the shim is started.
LEMMA ShimInvariance == ShimSpec => []ShimInv
BY ShimInvInit, ShimInvStep, PTL DEF ShimSpec

(* A started shim finds no file where it binds its unix socket, however    *)
(* often and wherever it was killed before: prepareUnixSocket.             *)
THEOREM SocketIsFree == ShimSpec => []SocketFree
BY ShimInvariance, PTL DEF ShimInv

(* The shim leaves a buildkitd running that has no SIGTERM only after a    *)
(* kill, after the one-second timer, or when the server reported first:    *)
(* Start signals the subprocess before it reports.                         *)
THEOREM Told == ShimSpec => []BuildkitdTold
BY ShimInvariance, PTL DEF ShimInv
=============================================================================
