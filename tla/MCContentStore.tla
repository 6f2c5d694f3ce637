--------------------------- MODULE MCContentStore ---------------------------
(***************************************************************************)
(* ContentStore for TLC: times with and without a fraction of a second, a  *)
(* label called like a field of the info.                                  *)
(***************************************************************************)
EXTENDS ContentStore

MCTimes == {<<0, 0>>, <<3, 0>>, <<3, 1>>}
=============================================================================
