---------------------------- MODULE RequestReply ----------------------------
(***************************************************************************)
(* What a stage promises the code above it (fssync, content store,         *)
(* resolver, stdio): a call is a private, ordered exchange with the host.  *)
(* A call is refused before the host hears of it, or it is put to the host *)
(* at most once; the caller then sees the host's packets for this call, in *)
(* the order they were sent, none missing and none twice, until it has all *)
(* it waits for or gives up.                                               *)
(***************************************************************************)
EXTENDS Naturals, Sequences

CONSTANTS Calls, Replies

VARIABLES status, asked, answered, received

vars == <<status, asked, answered, received>>

Status == {"idle", "issued", "refused", "pending", "done", "failed"}

Init ==
  /\ status = [c \in Calls |-> "idle"]
  /\ asked = {}
  /\ answered = [c \in Calls |-> 0]
  /\ received = [c \in Calls |-> <<>>]

Move(c, from, to) == status[c] = from /\ status' = [status EXCEPT ![c] = to]

Issue(c)  == Move(c, "idle", "issued") /\ UNCHANGED <<asked, answered, received>>
Admit(c)  == Move(c, "issued", "pending") /\ UNCHANGED <<asked, answered, received>>
Refuse(c) == Move(c, "issued", "refused") /\ UNCHANGED <<asked, answered, received>>
GiveUp(c) == Move(c, "pending", "failed") /\ UNCHANGED <<asked, answered, received>>

\* The request reaches the host, perhaps after the caller gave up.
Ask(c) ==
  /\ status[c] \in {"pending", "failed"}
  /\ c \notin asked
  /\ asked' = asked \cup {c}
  /\ UNCHANGED <<status, answered, received>>

HostAnswers(c) ==
  /\ c \in asked
  /\ answered' = [answered EXCEPT ![c] = @ + 1]
  /\ UNCHANGED <<status, asked, received>>

\* The caller gets the first packet it has not seen yet.
Deliver(c) ==
  LET k == Len(received[c]) + 1
  IN /\ status[c] = "pending"
     /\ k <= answered[c]
     /\ received' = [received EXCEPT ![c] = Append(@, k)]
     /\ status' = [status EXCEPT ![c] = IF k = Replies[c] THEN "done" ELSE @]
     /\ UNCHANGED <<asked, answered>>

Next == \E c \in Calls :
  Issue(c) \/ Admit(c) \/ Refuse(c) \/ GiveUp(c) \/ Ask(c) \/ HostAnswers(c) \/ Deliver(c)

Spec == Init /\ [][Next]_vars
=============================================================================
