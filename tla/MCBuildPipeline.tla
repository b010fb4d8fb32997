--------------------------- MODULE MCBuildPipeline ---------------------------
(***************************************************************************)
(* BuildPipeline for TLC.  Two worker loops are what main.rs starts, and   *)
(* the least number at which two builds of one instance overlap.           *)
(***************************************************************************)
EXTENDS BuildPipeline, TLC

CONSTANTS w1, w2

MCWorker == {w1, w2}
MCSymmetry == Permutations(MCWorker)
=============================================================================
