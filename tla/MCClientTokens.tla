--------------------------- MODULE MCClientTokens ----------------------------
EXTENDS ClientTokens, TLC

CONSTANTS t1, t2, c1, c2

ClientSymmetry == Permutations(Tabs) \cup Permutations(Calls)
=============================================================================
