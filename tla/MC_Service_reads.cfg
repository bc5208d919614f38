CONSTANTS
    c1 = c1
    c2 = c2
    k1 = k1
    k2 = k2
    Command <- MC_Command
    Client <- MC_Client
    Replica <- MC_Replica
    MaxView = 1
    MaxOp = 1
    MaxNonce = 1
    MaxCrash = 0
    MaxLoss = 0
    MaxRenewals = 1
    MaxInFlight = 4
    MaxCalls = 1
SYMMETRY MC_Symmetry
CONSTRAINT InFlightBound
SPECIFICATION ServiceSpec
PROPERTY LocalReadsUnderLease
CHECK_DEADLOCK FALSE
