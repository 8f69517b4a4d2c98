CONSTANTS
    Effect = {e1}
    EffectLimit = 1
    Task <- MCTask
    Priority <- MCPriority
    Deadline <- MCDeadline
    MaxSteps <- MCMaxSteps
    Cpu <- MCCpu
    Mem <- MCMem
    Background <- MCBackground
    Offer <- MCOffer
    Steps = {1, 2}
    CheckpointId = {a, b}
    CarefulHost = TRUE
    MaxRev = 5
    MaxFaults = 1
    MaxExternal = 0
SPECIFICATION Spec
SYMMETRY MCSymmetry
INVARIANTS
    BudgetNotResetByRecovery
CHECK_DEADLOCK FALSE
