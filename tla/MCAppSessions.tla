---------------------------- MODULE MCAppSessions ----------------------------
EXTENDS AppSessions, TLC

CONSTANTS s1, s2, r1, r2, custom, default, appid

ServicesMC == {s1, s2}
RequestsMC == {r1, r2}
KeysMC == {default, appid, custom}
RetiredMC == {custom}
Symmetry == Permutations(RequestsMC) \cup Permutations(ServicesMC)
=============================================================================
