CONSTANTS
    Effect = {e1}
    EffectLimit = 1
    Task <- MCTask
    Priority <- MCPriority
    Deadline <- MCDeadline
    MaxSteps <- MCMaxSteps
    Cpu <- MCCpu
    Mem <- MCMem
    Background <- MCBackground
    Offer <- MCCalmOffer
    Steps = {1}
    CheckpointId = {"a"}
    CarefulHost = TRUE
    MaxRev = 20
    MaxFaults = 1
    MaxExternal = 1
SPECIFICATION FairSpec
PROPERTIES
    EveryTaskSettles
CHECK_DEADLOCK FALSE
