----------------------------- MODULE MCSecrets -----------------------------
EXTENDS SecretsInvariant, TLC
Symmetry == Permutations(Request \ SeededEnvs)
=============================================================================
