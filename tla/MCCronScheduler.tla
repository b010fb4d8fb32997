--------------------------- MODULE MCCronScheduler ---------------------------
EXTENDS CronScheduler, TLC

CONSTANTS r1, r2, p1, p2, e1

RequestsMC == {r1, r2}
ProcessesMC == {p1, p2}
ExecsMC == {e1}
Symmetry == Permutations(RequestsMC) \cup Permutations(ProcessesMC)
=============================================================================
