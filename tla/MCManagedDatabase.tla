-------------------------- MODULE MCManagedDatabase --------------------------
EXTENDS ManagedDatabase, TLC

CONSTANTS r1, r2

RequestsMC == {r1, r2}
Symmetry == Permutations(RequestsMC)
=============================================================================
