-------------------------- MODULE MCRefreshTokens --------------------------
EXTENDS RefreshTokens, TLC
Symmetry == Permutations(Request) \cup Permutations(User)
=============================================================================
