CONSTANTS
    c1 = c1
    c2 = c2
    Command <- MC_Command
    Replica <- MC_Replica
    MaxView = 2
    MaxOp = 0
    MaxNonce = 1
    MaxCrash = 1
    MaxLoss = 0
    MaxRenewals = 0
    MaxInFlight = 0
SPECIFICATION VCFairSpec
PROPERTY ViewChangeCompletes
CHECK_DEADLOCK FALSE
