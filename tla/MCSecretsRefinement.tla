------------------------ MODULE MCSecretsRefinement ------------------------
EXTENDS SecretsRefinement, TLC
Symmetry == Permutations(Request \ SeededEnvs)
=============================================================================
