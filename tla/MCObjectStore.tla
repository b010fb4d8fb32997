--------------------------- MODULE MCObjectStore ---------------------------
EXTENDS ObjectStore, TLC

CONSTANTS r1, r2

RequestsMC == {r1, r2}
ProvidersMC == {"local", "s3"}
Symmetry == Permutations(RequestsMC)
=============================================================================
