CONSTANTS
    Effect = {e1}
    EffectLimit = 1
    Task <- MCTask
    Priority <- MCPriority
    Deadline <- MCDeadline
    MaxSteps <- MCMaxSteps
    Cpu <- MCCpu
    Mem <- MCMem
    Background <- MCBackground
    Offer <- MCOffer
    Steps = {1, 2}
    CheckpointId = {a, b}
    CarefulHost = FALSE
    MaxRev = 4
    MaxFaults = 1
    MaxExternal = 1
SPECIFICATION Spec
SYMMETRY MCSymmetry
INVARIANTS
    TypeOK
    AtMostOneLease
    ProjectionBehindStore
    FreshLeaseEpochs
    ChargesMatchWork
    OverrunBoundedByFaults
    OnlyNewestTokenAccepted
PROPERTIES
    SaveUnderExactLease
    FinalRowsStay
CHECK_DEADLOCK FALSE
