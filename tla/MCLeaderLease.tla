--------------------------- MODULE MCLeaderLease ---------------------------
(***************************************************************************)
(* Instances of LeaderLease for TLC: two processes; a tick is 5 seconds,   *)
(* so the lease lasts 6 ticks, is renewed every 2, and a query may take 3. *)
(***************************************************************************)
EXTENDS LeaderLease, TLC

CONSTANTS r1, r2

MCReplica == {r1, r2}
=============================================================================
