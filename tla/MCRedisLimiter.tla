--------------------------- MODULE MCRedisLimiter ---------------------------
EXTENDS RedisLimiter, TLC
Symmetry == Permutations(Client)
=============================================================================
