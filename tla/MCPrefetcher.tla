---------------------------- MODULE MCPrefetcher ----------------------------
(***************************************************************************)
(* Small instances of Prefetcher: Overlapping has two reads that meet on a *)
(* chunk while the window moves past the first one; AllRequests has every  *)
(* read of a content of two chunks, one past its end included.             *)
(***************************************************************************)
EXTENDS Prefetcher, TLC

Overlapping == {[first |-> 0, last |-> 1, kind |-> "inside"],
                [first |-> 1, last |-> 1, kind |-> "inside"]}
AllRequests == Request
Symmetry    == Permutations(Ops) \cup Permutations(Closers)
=============================================================================
