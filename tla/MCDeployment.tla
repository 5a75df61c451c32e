---------------------------- MODULE MCDeployment ----------------------------
EXTENDS Deployment, TLC
Symmetry == Permutations(Runner)
=============================================================================
