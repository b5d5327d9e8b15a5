--------------------------- MODULE MCRateLimiter ---------------------------
EXTENDS RateLimiter, TLC

CONSTANTS t1, t2

MCAskers == {t1, t2}
Symmetric == Permutations(MCAskers)
=============================================================================
