------------------------------- MODULE MCSaga --------------------------------
EXTENDS Saga, TLC
CONSTANTS a, b
Symmetry == Permutations(Instances)
=============================================================================
