---------------------------- MODULE RateLimitMC ----------------------------
EXTENDS RateLimit, TLC

Symmetry == Permutations(Keys)
=============================================================================
