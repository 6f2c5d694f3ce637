----------------------------- MODULE MCDiffCopy -----------------------------
(***************************************************************************)
(* DiffCopy for TLC: a walk with a directory and regular files.            *)
(***************************************************************************)
EXTENDS DiffCopy

CONSTANT Directories

MCRegular == (1..Entries) \ Directories
=============================================================================
