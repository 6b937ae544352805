--------------------------- MODULE MCRateLimiter ---------------------------
EXTENDS RateLimiter, TLC

Symmetry == Permutations(Ids) \cup Permutations(Requests)
=============================================================================
