---------------------------- MODULE MC_Service ----------------------------
EXTENDS Service, TLC

CONSTANTS c1, c2, k1, k2

\* bound on the replica messages in flight at once (safety runs)
CONSTANT MaxInFlight

MC_Command == {c1, c2}
MC_Client == {k1, k2}
MC_OneClient == {k1}
MC_Replica == 0 .. 2
MC_Symmetry == Permutations(MC_Command) \cup Permutations(MC_Client)
\* A state constraint: sound for invariants, but it hides the behaviours
\* it cuts from TLC's liveness checking, so the liveness runs go without.
InFlightBound == Cardinality(msgs) <= MaxInFlight
=============================================================================
