------------------------------ MODULE MCDistLock -----------------------------
EXTENDS DistLock, TLC
CONSTANTS a, b
Symmetry == Permutations(Locks)
=============================================================================
