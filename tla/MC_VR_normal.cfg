CONSTANTS
    c1 = c1
    c2 = c2
    Command <- MC_Command
    Replica <- MC_Replica
    MaxView = 0
    MaxOp = 2
    MaxNonce = 1
    MaxCrash = 0
    MaxLoss = 0
    MaxRenewals = 0
    MaxInFlight = 4
SPECIFICATION FairSpec
INVARIANTS
    AppliedAgreement
    AppliedIsCommittedLog
PROPERTIES
    CommitMonotone
    EventuallyCommitted
    ImplementsCommandLog
CHECK_DEADLOCK FALSE
