----------------------------- MODULE MCEnvPool -----------------------------
EXTENDS EnvPool, TLC

CONSTANTS r1, r2, t1, t2

RequestsMC == {r1, r2}
ReloadsMC == {t1, t2}
ResourcesMC == {"sql", "redis", "bucket"}
Symmetry == Permutations(RequestsMC) \cup Permutations(ReloadsMC)
=============================================================================
