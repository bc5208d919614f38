-------------------------------- MODULE MC_Tree --------------------------------
EXTENDS Tree, TLC

CONSTANTS a, b, v1

MC_Name == {a, b}
MC_Value == {v1}

MC_Symmetry == Permutations(MC_Name)
=============================================================================
