CONSTANTS
    Targets <- MCTargets
    Accumulation = 2
    MaxSteps = 3
    Cadence = 2
    MaxFaults = 5
SPECIFICATION FairSpec
INVARIANTS
    TypeOK
    CountsTellBatches
PROPERTIES
    ImplementsOnePass
    PlanCompletes
CHECK_DEADLOCK FALSE
