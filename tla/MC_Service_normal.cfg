CONSTANTS
    c1 = c1
    c2 = c2
    k1 = k1
    k2 = k2
    Command <- MC_Command
    Client <- MC_OneClient
    Replica <- MC_Replica
    MaxView = 0
    MaxOp = 1
    MaxNonce = 1
    MaxCrash = 1
    MaxLoss = 0
    MaxRenewals = 0
    MaxInFlight = 3
    MaxCalls = 1

SPECIFICATION ServiceFairSpec
INVARIANTS
    AckedIsReplicated
PROPERTY HandlersReturn
CHECK_DEADLOCK FALSE
