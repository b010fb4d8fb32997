---------------------------- MODULE MCAppRemoval ----------------------------
(***************************************************************************)
(* AppRemoval for TLC.  Two requests are the least number that overlap.    *)
(* Nothing is declared symmetric, because the run checks liveness.         *)
(***************************************************************************)
EXTENDS AppRemoval

CONSTANTS r1, r2, i1, b1, n1

MCRequest == {r1, r2}
MCApp == {i1}
MCDatabase == {b1}
MCFqdn == {n1}
=============================================================================
