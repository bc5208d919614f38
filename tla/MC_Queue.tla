------------------------------- MODULE MC_Queue -------------------------------
EXTENDS Queue, TLC

CONSTANTS m1, m2

MC_Msg == {m1, m2}

MC_Symmetry == Permutations(MC_Msg)
=============================================================================
