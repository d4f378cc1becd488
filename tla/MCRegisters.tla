----------------------------- MODULE MCRegisters -----------------------------
EXTENDS Registers, TLC
CONSTANTS c1, c2, alice, p1, p2, r1, r2, r3, r4
Symmetry == Permutations(Connections) \cup Permutations(Persons)
                \cup Permutations(Pages) \cup Permutations(Requests)
=============================================================================
