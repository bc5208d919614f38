CONSTANTS
    c1 = c1
    c2 = c2
    Command <- MC_Command
    Replica <- MC_Replica
    MaxView = 1
    MaxOp = 1
    MaxNonce = 1
    MaxCrash = 0
    MaxLoss = 0
    MaxRenewals = 1
    MaxInFlight = 4
SYMMETRY MC_Symmetry
CONSTRAINT InFlightBound
SPECIFICATION Spec
INVARIANT DurableAck
CHECK_DEADLOCK FALSE
