--------------------------- MODULE MCRuntimeRules ---------------------------
EXTENDS RuntimeRules, TLC

CONSTANTS p1, p2

GoroutineSymmetry == Permutations(Publishers)
=============================================================================
