---------------------------- MODULE ContextCache ----------------------------
(***************************************************************************)
(* Receiver.Receive and publishTar: concurrent walks of one or more builds *)
(* receive context tars, verify them, unpack them under a per-digest file  *)
(* lock into a temporary directory and rename that into the shared,        *)
(* content-addressed cache, from where the context is walked.  The shim    *)
(* may be killed at any point; files stay, the kernel drops the locks.     *)
(*                                                                         *)
(* A tar is reduced to the digest of its bytes, a directory to the tar it  *)
(* was unpacked from, the number of its files, and its completion marker.  *)
(***************************************************************************)
EXTENDS Naturals

CONSTANTS
  Receivers,  \* Receive calls; each runs at most once
  Digests,    \* context digests the host uses
  Garbage,    \* the digest of a tar damaged on the way
  Files,      \* files in a context tar
  None

ASSUME ConstantsOK ==
  /\ Files \in Nat \ {0}
  /\ Garbage \notin Digests /\ None \notin Digests \cup {Garbage} \cup Receivers
  /\ {"none", "failed"} \cap Digests = {}

VARIABLES
  pc,       \* where each Receive call is
  want,     \* the digest in its stream header
  cached,   \* its first look at the cache
  tar,      \* its temporary tar file: the digest of the bytes, or None
  temp,     \* its temporary directory
  seen,     \* files its walk has handed on
  entry,    \* the cache directory of each digest
  lock,     \* who holds <digest>.lock
  told      \* digests LookupContext has reported as present

vars == <<pc, want, cached, tar, temp, seen, entry, lock, told>>

Dir(of, files, marker) == [kind |-> "dir", of |-> of, files |-> files, marker |-> marker]
Absent == [kind |-> "absent", of |-> None, files |-> 0, marker |-> FALSE]
\* Something checkCache refuses to read: not a directory, or an odd marker.
Foreign == [kind |-> "foreign", of |-> None, files |-> 0, marker |-> FALSE]

Directory == [kind : {"absent", "dir", "foreign"}, of : Digests \cup {Garbage, None},
              files : 0..Files, marker : BOOLEAN]

\* checkCache: a directory counts only with its completion marker.
Present(d) == entry[d].kind = "dir" /\ entry[d].marker

Active(r) == pc[r] \notin {"idle", "done", "failed", "crashed"}

(* The cache may hold directories without a marker from an interrupted     *)
(* removal or an older version, and paths it must not touch.               *)
Init ==
  /\ pc = [r \in Receivers |-> "idle"]
  /\ want = [r \in Receivers |-> None]
  /\ cached = [r \in Receivers |-> FALSE]
  /\ tar = [r \in Receivers |-> None]
  /\ temp = [r \in Receivers |-> Absent]
  /\ seen = [r \in Receivers |-> 0]
  /\ entry \in [Digests -> {Absent, Foreign, Dir(Garbage, 1, FALSE)}]
  /\ lock = [d \in Digests |-> None]
  /\ told = {}

-----------------------------------------------------------------------------
\* Mutant: publishTar does not remove its temporary directory.
FailsLeavingTemp(r) ==
  /\ pc' = [pc EXCEPT ![r] = "failed"]
  /\ tar' = [tar EXCEPT ![r] = None]
  /\ lock' = [d \in Digests |-> IF lock[d] = r THEN None ELSE lock[d]]
  /\ UNCHANGED <<want, cached, temp, seen, entry, told>>

\* Mutant: publishTar does not unlock when it fails.
FailsLocked(r) ==
  /\ pc' = [pc EXCEPT ![r] = "failed"]
  /\ tar' = [tar EXCEPT ![r] = None]
  /\ temp' = [temp EXCEPT ![r] = Absent]
  /\ UNCHANGED <<want, cached, seen, entry, lock, told>>

\* Receive returns with an error; its deferred functions clean up.
Fails(r) ==
  /\ pc' = [pc EXCEPT ![r] = "failed"]
  /\ tar' = [tar EXCEPT ![r] = None]
  /\ temp' = [temp EXCEPT ![r] = Absent]
  /\ lock' = [d \in Digests |-> IF lock[d] = r THEN None ELSE lock[d]]
  /\ UNCHANGED <<want, cached, seen, entry, told>>

Goes(r, from, to) ==
  /\ pc[r] = from
  /\ pc' = [pc EXCEPT ![r] = to]

\* Mutant: a complete header is believed without a look at the cache.
ReceiveHeaderTrusting(r, d, complete) ==
  /\ pc[r] = "idle"
  /\ want' = [want EXCEPT ![r] = d]
  /\ cached' = [cached EXCEPT ![r] = Present(d)]
  /\ pc' = [pc EXCEPT ![r] = IF complete THEN "walk" ELSE "chunk"]
  /\ UNCHANGED <<tar, temp, seen, entry, lock, told>>

(* The stream header names digest d, and the cache is looked up.  With     *)
(* complete set the host sends no tar, because the context is cached.      *)
ReceiveHeader(r, d, complete) ==
  /\ pc[r] = "idle"
  /\ want' = [want EXCEPT ![r] = d]
  /\ cached' = [cached EXCEPT ![r] = Present(d)]
  /\ pc' = [pc EXCEPT ![r] =
       CASE entry[d].kind = "foreign" -> "failed"
         [] entry[d].kind # "foreign" /\ complete -> IF Present(d) THEN "walk" ELSE "failed"
         [] OTHER -> "chunk"]
  /\ UNCHANGED <<tar, temp, seen, entry, lock, told>>

\* No header arrives, or it names something that is no digest.
HeaderFails(r) == pc[r] = "idle" /\ Fails(r)

(* The first chunk of the tar.  Without a cached context it starts a       *)
(* temporary file; with one it is dropped.                                 *)
WriteTar(r) ==
  /\ Goes(r, "chunk", "body")
  /\ tar' = [tar EXCEPT ![r] = IF cached[r] THEN None ELSE Garbage]
  /\ UNCHANGED <<want, cached, temp, seen, entry, lock, told>>

\* The rest of the tar arrives, damaged or not.
ReadTarBody(r, content) ==
  /\ pc[r] = "body"
  /\ IF cached[r]
     THEN pc' = [pc EXCEPT ![r] = "walk"] /\ UNCHANGED tar
     ELSE pc' = [pc EXCEPT ![r] = "verify"] /\ tar' = [tar EXCEPT ![r] = content]
  /\ UNCHANGED <<want, cached, temp, seen, entry, lock, told>>

\* The stream breaks, the host reports an error, or the walk is cancelled.
TransferFails(r) == pc[r] \in {"chunk", "body"} /\ Fails(r)

\* Mutant: the digest is not compared.
VerifyNothing(r) ==
  /\ Goes(r, "verify", "lock")
  /\ UNCHANGED <<want, cached, tar, temp, seen, entry, lock, told>>

VerifyTarHash(r) ==
  /\ Goes(r, "verify", "lock")
  /\ tar[r] = want[r]
  /\ UNCHANGED <<want, cached, tar, temp, seen, entry, lock, told>>

VerifyTarHashFails(r) == pc[r] = "verify" /\ tar[r] # want[r] /\ Fails(r)

-----------------------------------------------------------------------------
(***************************************************************************)
(* publishTar.                                                             *)
(***************************************************************************)

TryLock(r) ==
  /\ Goes(r, "lock", "recheck")
  /\ lock[want[r]] = None
  /\ lock' = [lock EXCEPT ![want[r]] = r]
  /\ UNCHANGED <<want, cached, tar, temp, seen, entry, told>>

LockFails(r) == pc[r] = "lock" /\ Fails(r)

\* Somebody else published the context in the meantime.
AlreadyPublished(r) ==
  /\ Goes(r, "recheck", "walk")
  /\ Present(want[r])
  /\ lock' = [lock EXCEPT ![want[r]] = None]
  /\ UNCHANGED <<want, cached, tar, temp, seen, entry, told>>

\* Mutant: no second look at the cache under the lock.
PrepareUnchecked(r) ==
  /\ Goes(r, "recheck", "unpack")
  /\ entry' = [entry EXCEPT ![want[r]] = Absent]
  /\ temp' = [temp EXCEPT ![r] = Dir(tar[r], 0, FALSE)]
  /\ UNCHANGED <<want, cached, tar, seen, lock, told>>

\* What is in the way is removed, and a fresh temporary directory is made.
PrepareDir(r) ==
  /\ Goes(r, "recheck", "unpack")
  /\ ~Present(want[r]) /\ entry[want[r]].kind # "foreign"
  /\ entry' = [entry EXCEPT ![want[r]] = Absent]
  /\ temp' = [temp EXCEPT ![r] = Dir(tar[r], 0, FALSE)]
  /\ UNCHANGED <<want, cached, tar, seen, lock, told>>

\* Mutant: the unpack loop runs past the end of the archive.
UnpackTooMany(r) ==
  /\ pc[r] = "unpack"
  /\ temp[r].files <= Files
  /\ temp' = [temp EXCEPT ![r].files = @ + 1]
  /\ UNCHANGED <<pc, want, cached, tar, seen, entry, lock, told>>

UnpackFile(r) ==
  /\ pc[r] = "unpack"
  /\ temp[r].files < Files
  /\ temp' = [temp EXCEPT ![r].files = @ + 1]
  /\ UNCHANGED <<pc, want, cached, tar, seen, entry, lock, told>>

WriteMarker(r) ==
  /\ Goes(r, "unpack", "rename")
  /\ temp[r].files = Files
  /\ temp' = [temp EXCEPT ![r].marker = TRUE]
  /\ UNCHANGED <<want, cached, tar, seen, entry, lock, told>>

\* The rename publishes the directory in one step; the lock is released.
Publish(r) ==
  /\ Goes(r, "rename", "walk")
  /\ entry' = [entry EXCEPT ![want[r]] = temp[r]]
  /\ temp' = [temp EXCEPT ![r] = Absent]
  /\ lock' = [lock EXCEPT ![want[r]] = None]
  /\ UNCHANGED <<want, cached, tar, seen, told>>

\* A bad archive, a full disk, a cancelled context: nothing is published.
PublishFails(r) == pc[r] \in {"recheck", "unpack", "rename"} /\ Fails(r)

-----------------------------------------------------------------------------
(***************************************************************************)
(* walkCachedContext, without any lock.                                    *)
(***************************************************************************)

WalkFile(r) ==
  /\ pc[r] = "walk"
  /\ seen[r] < entry[want[r]].files
  /\ seen' = [seen EXCEPT ![r] = @ + 1]
  /\ UNCHANGED <<pc, want, cached, tar, temp, entry, lock, told>>

WalkDone(r) ==
  /\ Goes(r, "walk", "done")
  /\ seen[r] = entry[want[r]].files
  /\ tar' = [tar EXCEPT ![r] = None]
  /\ UNCHANGED <<want, cached, temp, seen, entry, lock, told>>

WalkFails(r) == pc[r] = "walk" /\ Fails(r)

\* LookupContext answers the host.
LookupContext(d) ==
  /\ Present(d)
  /\ told' = told \cup {d}
  /\ UNCHANGED <<pc, want, cached, tar, temp, seen, entry, lock>>

\* The shim is killed: every Receive under way stops where it is.
Crash ==
  /\ \E r \in Receivers : Active(r)
  /\ pc' = [r \in Receivers |-> IF Active(r) THEN "crashed" ELSE pc[r]]
  /\ lock' = [d \in Digests |-> None]
  /\ UNCHANGED <<want, cached, tar, temp, seen, entry, told>>

\* The steps a Receive takes when nothing goes wrong.
Advance(r) ==
  \/ WriteTar(r) \/ \E c \in Digests \cup {Garbage} : ReadTarBody(r, c)
  \/ VerifyTarHash(r) \/ VerifyTarHashFails(r)
  \/ TryLock(r) \/ AlreadyPublished(r) \/ PrepareDir(r)
  \/ UnpackFile(r) \/ WriteMarker(r) \/ Publish(r) \/ WalkFile(r) \/ WalkDone(r)

Trouble(r) == HeaderFails(r) \/ TransferFails(r) \/ LockFails(r) \/ PublishFails(r) \/ WalkFails(r)

Next ==
  \/ \E r \in Receivers, d \in Digests, b \in BOOLEAN : ReceiveHeader(r, d, b)
  \/ \E r \in Receivers : Advance(r) \/ Trouble(r)
  \/ \E d \in Digests : LookupContext(d)
  \/ Crash

Spec == Init /\ [][Next]_vars

\* The host keeps sending, and the goroutine of a Receive keeps running.
FairSpec == Spec /\ \A r \in Receivers : WF_vars(Advance(r))

-----------------------------------------------------------------------------
(***************************************************************************)
(* Properties.                                                             *)
(***************************************************************************)

\* Every variable of the receivers and of the cache directory has its type.
TypeOK ==
  /\ pc \in [Receivers -> {"idle", "chunk", "body", "verify", "lock", "recheck", "unpack",
                            "rename", "walk", "done", "failed", "crashed"}]
  /\ want \in [Receivers -> Digests \cup {None}]
  /\ cached \in [Receivers -> BOOLEAN]
  /\ tar \in [Receivers -> Digests \cup {Garbage, None}]
  /\ temp \in [Receivers -> Directory]
  /\ seen \in [Receivers -> 0..Files]
  /\ entry \in [Digests -> Directory]
  /\ lock \in [Digests -> Receivers \cup {None}]
  /\ told \subseteq Digests

(* A cache entry that checkCache accepts holds every file of the tar with  *)
(* that digest, whatever was damaged, interrupted or raced before.         *)
OnlyVerified == \A d \in Digests : Present(d) => entry[d] = Dir(d, Files, TRUE)

(* publishTar never removes or replaces an entry that is complete: walks   *)
(* and FS.Open read it without a lock.                                     *)
PublishedStays == [][\A d \in Digests : Present(d) => entry'[d] = entry[d]]_vars

(* Once LookupContext has told the host that a context is present, a walk  *)
(* for which the host sends no tar is not refused.                         *)
LookupKept == [][\A r \in Receivers :
                   pc[r] = "idle" /\ pc'[r] = "failed" => want'[r] \notin told]_vars

(* A Receive that has returned, with or without an error, leaves no        *)
(* temporary tar or directory behind and holds no lock.                    *)
CleanReturn ==
  \A r \in Receivers : pc[r] \in {"done", "failed"} =>
    tar[r] = None /\ temp[r] = Absent /\ \A d \in Digests : lock[d] # r

(* A Receive that waits for the lock of its digest gets its turn and       *)
(* returns, unless the shim dies: whoever holds the lock gives it back.    *)
LockWaitEnds == \A r \in Receivers :
  pc[r] = "lock" ~> pc[r] \in {"done", "failed", "crashed"}

(* What the walks deliver is what a content-addressed store would deliver. *)
Store == INSTANCE ContextStore WITH
  published <- {d \in Digests : Present(d)},
  outcome <- [r \in Receivers |->
    IF pc[r] \in {"failed", "crashed"} THEN "failed"
    ELSE IF pc[r] # "done" THEN "none"
    ELSE IF seen[r] = Files THEN want[r] ELSE "torn"]
ImplementsStore == Store!Spec
=============================================================================
