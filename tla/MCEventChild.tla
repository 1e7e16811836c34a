---------------------------- MODULE MCEventChild ----------------------------
EXTENDS EventChild, TLC

Symmetry == Permutations(Workers) \union Permutations(Conns)
=============================================================================
