---------------------------- MODULE ContextStore ----------------------------
(***************************************************************************)
(* What the content-addressed context cache promises: a set of published   *)
(* contexts that only grows, and walks that either hand BuildKit all files *)
(* of a published context or fail.                                         *)
(***************************************************************************)
EXTENDS Naturals

CONSTANTS Receivers, Digests

VARIABLES
  published,  \* digests whose context is in the store
  outcome     \* of each walk: "none", "failed" or the digest it delivered

vars == <<published, outcome>>

Init == published = {} /\ outcome = [r \in Receivers |-> "none"]

Publish(d) == published' = published \cup {d} /\ UNCHANGED outcome

Deliver(r, d) ==
  /\ outcome[r] = "none"
  /\ d \in published
  /\ outcome' = [outcome EXCEPT ![r] = d]
  /\ UNCHANGED published

\* One walk fails, or a crash ends several.
Fail(R) ==
  /\ \A r \in R : outcome[r] = "none"
  /\ outcome' = [r \in Receivers |-> IF r \in R THEN "failed" ELSE outcome[r]]
  /\ UNCHANGED published

Next ==
  \/ \E d \in Digests : Publish(d)
  \/ \E r \in Receivers, d \in Digests : Deliver(r, d)
  \/ \E R \in SUBSET Receivers : Fail(R)

Spec == Init /\ [][Next]_vars
=============================================================================
