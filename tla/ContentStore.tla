---------------------------- MODULE ContentStore ----------------------------
(***************************************************************************)
(* One call of the ContentStoreProxy: Info, Update or Delete, which send a *)
(* request and convert the answer; one that would write, which is refused; *)
(* or Walk, whose goroutine turns packets into infos on a buffered channel *)
(* and reports the end on an unbuffered one, while Walk calls fn for what  *)
(* it finds until the end is reported.                                     *)
(* The host is external.                                                   *)
(*                                                                         *)
(* Metadata is a function from keys to values, a label's key being a pair. *)
(* A time is its seconds and their fraction, the zero time Zero.           *)
(***************************************************************************)
EXTENDS Naturals, Sequences, Functions

CONSTANTS
  Infos,      \* how many infos the host sends in a Walk
  InfoCap,    \* capacity of infoCh (32 in the code)
  LabelKeys,  \* the labels an info may have
  InfoSizes, Times

ASSUME StoreConstantsOK == Infos \in Nat \ {0} /\ InfoCap \in Nat \ {0} /\ Times \subseteq Nat \X Nat

VARIABLES
  op,      \* "walk", "info", "update", "delete" or "ingest"
  call,    \* a call other than Walk: its step, its argument, the metadata of
           \* the host's answer and its result
  sent,    \* infos the host has sent; the last one is marked complete
  broken,  \* the host reported an error, or sent what cannot be converted
  ctx,     \* is the context of the call cancelled?
  recv,    \* the goroutine of Walk: "recv", "info", "end", "fail" or "exited"
  taken,   \* infos the goroutine has received
  infoCh,
  seen,    \* the infos fn was called with
  walk     \* Walk: "select", "ok" or "failed"

walkVars == <<sent, broken, recv, taken, infoCh, seen, walk>>
storeVars == <<op, call, ctx, walkVars>>

-----------------------------------------------------------------------------
(***************************************************************************)
(* infoTransformer.                                                        *)
(***************************************************************************)

Zero == <<0, 0>>
Info == [size : InfoSizes, created : Times, updated : Times,
         labels : UNION {[K -> {"value"}] : K \in SUBSET LabelKeys}]

\* The key of a label in the metadata.
Label(k) == <<"__label:", k>>

\* time.RFC3339 has no fraction of a second.
Format(t) == <<t[1], 0>>

\* TransformFromContentInfo.
Fields == {<<"size">>, <<"created_at">>, <<"updated_at">>}

FromInfo(i) ==
  [key \in Fields \cup {Label(k) : k \in DOMAIN i.labels} |->
     IF key = <<"size">> THEN i.size
     ELSE IF key = <<"created_at">> THEN Format(i.created)
     ELSE IF key = <<"updated_at">> THEN Format(i.updated) ELSE "value"]

TimeAt(md, key) == IF key \in DOMAIN md THEN md[key] ELSE Zero

TransformCreatedTimestamp(md) == TimeAt(md, <<"created_at">>)

\* Mutant: both times come from the same field.
TransformUpdatedCopied(md) == TimeAt(md, <<"created_at">>)

TransformUpdatedTimestamp(md) == TimeAt(md, <<"updated_at">>)

\* TransformSize: without a size the info cannot be converted.
HasSize(md) == <<"size">> \in DOMAIN md

\* TransformIntoContentInfo.
IntoInfo(md) ==
  [size |-> md[<<"size">>], created |-> TransformCreatedTimestamp(md),
   updated |-> TransformUpdatedTimestamp(md),
   labels |-> [k \in {k \in LabelKeys : Label(k) \in DOMAIN md} |-> md[Label(k)]]]

-----------------------------------------------------------------------------
(***************************************************************************)
(* Info, Update and Delete.                                                *)
(***************************************************************************)

Nothing == <<>>

StoreInit ==
  /\ op \in {"walk", "info", "update", "delete", "ingest"}
  /\ call = [at |-> "idle", arg |-> Nothing, answer |-> Nothing, result |-> Nothing]
  /\ ctx = FALSE /\ sent = 0 /\ broken = FALSE
  /\ recv = "recv" /\ taken = 0 /\ infoCh = <<>>
  /\ seen = <<>> /\ walk = "select"

Request(arg) ==
  /\ op \in {"info", "update", "delete"} /\ call.at = "idle"
  /\ call' = [call EXCEPT !.at = "request", !.arg = arg]
  /\ UNCHANGED <<op, ctx, walkVars>>

\* What the host may have for a digest: an info, or one with fields missing.
Metadata == {Restrict(FromInfo(i), DOMAIN FromInfo(i) \ keys) :
  i \in Info, keys \in {{}, {<<"size">>}, {<<"created_at">>, <<"updated_at">>}}}

AnsweredWith(md) == call' = [call EXCEPT !.at = "answered", !.answer = md]

\* The host carries out the request; an Update is answered with what it then has.
HostAnswers ==
  /\ call.at = "request"
  /\ \/ op = "info" /\ \E md \in Metadata : AnsweredWith(md)
     \/ op = "update" /\ AnsweredWith(FromInfo(call.arg))
     \/ op = "delete" /\ AnsweredWith(Nothing)
  /\ UNCHANGED <<op, ctx, walkVars>>

\* The host answers with an error, the request cannot be sent, or it is cancelled.
RequestFails ==
  /\ call.at = "request"
  /\ call' = [call EXCEPT !.at = "failed"]
  /\ UNCHANGED <<op, ctx, walkVars>>

\* The answer to an Info or an Update is converted.
InfoReturns ==
  /\ call.at = "answered" /\ op \in {"info", "update"}
  /\ call' = IF HasSize(call.answer)
             THEN [call EXCEPT !.at = "ok", !.result = IntoInfo(call.answer)]
             ELSE [call EXCEPT !.at = "failed"]
  /\ UNCHANGED <<op, ctx, walkVars>>

DeleteReturns ==
  /\ call.at = "answered" /\ op = "delete"
  /\ call' = [call EXCEPT !.at = "ok"]
  /\ UNCHANGED <<op, ctx, walkVars>>

\* Writer, Status, ListStatuses and Abort are refused without asking the host.
Unsupported ==
  /\ op = "ingest" /\ call.at = "idle"
  /\ call' = [call EXCEPT !.at = "failed"]
  /\ UNCHANGED <<op, ctx, walkVars>>

-----------------------------------------------------------------------------
(***************************************************************************)
(* Walk.                                                                   *)
(***************************************************************************)

HostSends ==
  /\ op = "walk" /\ sent < Infos /\ ~broken
  /\ sent' = sent + 1
  /\ UNCHANGED <<op, call, broken, ctx, recv, taken, infoCh, seen, walk>>

HostFails ==
  /\ op = "walk" /\ sent < Infos /\ ~broken
  /\ broken' = TRUE
  /\ UNCHANGED <<op, call, sent, ctx, recv, taken, infoCh, seen, walk>>

\* The caller cancels, or Walk has returned (its deferred cancel).
Cancel ==
  /\ ~ctx /\ ctx' = TRUE
  /\ UNCHANGED <<op, call, walkVars>>

\* processor.Recv and the transformer yield an info ...
RecvInfo ==
  /\ recv = "recv" /\ taken < sent
  /\ taken' = taken + 1
  /\ recv' = "info"
  /\ UNCHANGED <<op, call, sent, broken, ctx, infoCh, seen, walk>>

\* Mutant: the goroutine does not report an error of the host.
AfterErrorQuiet == IF ctx THEN "fail" ELSE "exited"

AfterError == "fail"

\* ... or an error: of the context, of the host or of the conversion.
RecvFails ==
  /\ op = "walk" /\ recv = "recv"
  /\ ctx \/ (broken /\ taken = sent)
  /\ recv' = AfterError
  /\ UNCHANGED <<op, call, sent, broken, ctx, taken, infoCh, seen, walk>>

\* Mutant: the goroutine looks at Complete before it hands on the info.
QueuedUnlessLast == IF taken = Infos THEN infoCh ELSE Append(infoCh, taken)

Queued == Append(infoCh, taken)

QueueInfo ==
  /\ recv = "info"
  /\ Len(infoCh) < InfoCap
  /\ infoCh' = Queued
  /\ recv' = IF taken = Infos THEN "end" ELSE "recv"
  /\ UNCHANGED <<op, call, sent, broken, ctx, taken, seen, walk>>

\* Walk's select takes an info, and fn accepts or rejects it.
CallFn(ok) ==
  /\ walk = "select" /\ infoCh # <<>>
  /\ infoCh' = Tail(infoCh)
  /\ seen' = Append(seen, Head(infoCh))
  /\ walk' = IF ok THEN "select" ELSE "failed"
  /\ UNCHANGED <<op, call, sent, broken, ctx, recv, taken>>

\* Walk's select takes what the goroutine reports; both go on at once.
WalkEnds ==
  /\ walk = "select" /\ recv \in {"end", "fail"}
  /\ walk' = IF recv = "end" THEN "ok" ELSE "failed"
  /\ recv' = "exited"
  /\ UNCHANGED <<op, call, sent, broken, ctx, taken, infoCh, seen>>

-----------------------------------------------------------------------------
Recv == RecvInfo \/ RecvFails \/ QueueInfo
Walk == CallFn(TRUE) \/ WalkEnds

StoreNext ==
  \/ (\E i \in Info : Request(i)) \/ HostAnswers \/ RequestFails \/ InfoReturns
  \/ DeleteReturns \/ Unsupported
  \/ HostSends \/ HostFails \/ Cancel \/ Recv \/ Walk \/ CallFn(FALSE)

StoreSpec == StoreInit /\ [][StoreNext]_storeVars

\* The two goroutines run; the host answers until it is done or has failed.
StoreFairSpec == StoreSpec /\ WF_storeVars(Recv) /\ WF_storeVars(Walk) /\ WF_storeVars(HostSends)

-----------------------------------------------------------------------------
(* An info survives the way to the host and back: Update returns the size  *)
(* and the labels it was called with, whatever the labels are called, and  *)
(* the times up to the second, which is all that RFC3339 keeps.            *)
UpdateKeeps ==
  op = "update" /\ call.at = "ok" =>
    call.result = [size |-> call.arg.size, labels |-> call.arg.labels,
                   created |-> Format(call.arg.created), updated |-> Format(call.arg.updated)]

(* fn sees the host's infos in order and none twice, and the ones it has   *)
(* not seen are those still in infoCh or in the goroutine's hands: these   *)
(* are what a Walk that succeeds may leave out, although "if no filters    *)
(* are given all items will be walked" (containerd's content.Store).       *)
InfosKept ==
  seen \o infoCh \o (IF recv = "info" THEN <<taken>> ELSE <<>>) = [k \in 1..taken |-> k]

(* Walk returns: the host finishes, fails, or the context is cancelled.    *)
WalkReturns == op = "walk" => <>(walk # "select")
=============================================================================
