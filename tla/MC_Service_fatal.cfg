CONSTANTS
    c1 = c1
    c2 = c2
    k1 = k1
    k2 = k2
    Command <- MC_Command
    Client <- MC_Client
    Replica <- MC_Replica
    MaxView = 2
    MaxOp = 2
    MaxNonce = 1
    MaxCrash = 1
    MaxLoss = 0
    MaxRenewals = 1
    MaxInFlight = 4
    MaxCalls = 2
SYMMETRY MC_Symmetry
CONSTRAINT InFlightBound
SPECIFICATION ServiceSpec
INVARIANT NoFatal
CHECK_DEADLOCK FALSE
