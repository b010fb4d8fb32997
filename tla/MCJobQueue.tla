---------------------------- MODULE MCJobQueue ----------------------------
(***************************************************************************)
(* Instances of JobQueue for TLC: two processes with a worker loop each,   *)
(* one well-formed job and one whose dispatch fails.                       *)
(***************************************************************************)
EXTENDS JobQueue, TLC

CONSTANTS r1, r2

MCReplica == {r1, r2}
MCBadJob == {2}
MCSymmetry == Permutations(MCReplica)
=============================================================================
