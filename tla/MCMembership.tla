---------------------------- MODULE MCMembership ----------------------------
EXTENDS Membership, TLC
Symmetry == Permutations(Request) \cup Permutations(User)
=============================================================================
