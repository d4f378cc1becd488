-------------------------- MODULE MCUserMobility --------------------------
EXTENDS UserMobility, TLC
CONSTANTS w1, w2, r1, r2, r3
Symmetry == Permutations(Workers) \cup Permutations(Requests)
=============================================================================
