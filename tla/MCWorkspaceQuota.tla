--------------------------- MODULE MCWorkspaceQuota ---------------------------
(* Instances of WorkspaceQuota for TLC. *)
EXTENDS WorkspaceQuota

CONSTANTS q1, q2, a1, d1, f1

MCRequests == {q1, q2}
MCApps == {a1}
MCDbs == {d1}
MCFns == {f1}
=============================================================================
