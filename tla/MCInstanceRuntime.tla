-------------------------- MODULE MCInstanceRuntime --------------------------
(***************************************************************************)
(* InstanceRuntime for TLC.                                                *)
(***************************************************************************)
EXTENDS InstanceRuntime

CONSTANTS p1, u1

MCProber == {p1}
MCUser == {u1}
=============================================================================
