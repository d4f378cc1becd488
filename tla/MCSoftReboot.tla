---------------------------- MODULE MCSoftReboot ----------------------------
EXTENDS SoftReboot, TLC

Symmetry == Permutations(Users) \cup Permutations(Workers)
==============================================================================
