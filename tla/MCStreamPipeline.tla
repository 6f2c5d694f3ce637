-------------------------- MODULE MCStreamPipeline --------------------------
(***************************************************************************)
(* Small instances of StreamPipeline: a walk of two packets, an Open whose *)
(* context is not derived from the build, both on the fssync stage, and a  *)
(* stdio write, which leaves its demux on the build's context.             *)
(***************************************************************************)
EXTENDS StreamPipeline

CONSTANTS walk, open, write, fssync, stdio

MCStages   == {StageOf[c] : c \in Calls}
MCStageOf  == [c \in Calls |-> IF c = write THEN stdio ELSE fssync]
MCReplies  == [c \in Calls |-> IF c = walk THEN 2 ELSE 1]
MCWalks    == Calls \cap {walk}
MCLongLived == Calls \cap {write}
MCSurplus  == [c \in Calls |-> IF c = open THEN 2 ELSE 0]
MCDetached == Calls \cap {open}
=============================================================================
