CONSTANTS
    c1 = c1
    c2 = c2
    Command <- MC_Command
    Replica <- MC_Replica
    MaxView = 1
    MaxOp = 1
    MaxNonce = 1
    MaxCrash = 1
    MaxLoss = 1
    MaxRenewals = 1
    MaxInFlight = 3
CONSTRAINT InFlightBound
SYMMETRY MC_Symmetry
SPECIFICATION Spec
INVARIANTS
    TypeOK
    OpCoversCommit
CHECK_DEADLOCK FALSE
