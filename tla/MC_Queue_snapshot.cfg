CONSTANTS
    m1 = m1
    m2 = m2
    Msg <- MC_Msg
    MaxCmds = 4
    MaxSnaps = 1
    UseCopyOnWrite = TRUE
SPECIFICATION Spec
SYMMETRY MC_Symmetry
INVARIANT SnapshotConsistent
CHECK_DEADLOCK FALSE
