-------------------------------- MODULE MC_VR --------------------------------
(* Model-checking instance of VR: three replicas, two commands.            *)
EXTENDS VR, TLC

CONSTANTS c1, c2

\* bound on the requests and replies in flight at once (safety runs)
CONSTANT MaxInFlight

MC_Command == {c1, c2}
MC_Replica == 0 .. 2

\* Commands are interchangeable; replica numbers are not (master = view % N).
MC_Symmetry == Permutations(MC_Command)

\* A state constraint: sound for invariants, but it hides the behaviours
\* it cuts from TLC's liveness checking, so the liveness runs go without.
InFlightBound == Cardinality(msgs) <= MaxInFlight
=============================================================================
