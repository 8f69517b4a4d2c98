CONSTANTS
    Runner = {p, q}
    TTL = {1, 2}
    MaxTime = 2
    MaxCalls = 2
    MaxFaults = 1
SPECIFICATION Spec
SYMMETRY MCSymmetry
INVARIANTS
    CleanFailureMeansNoWrite
CHECK_DEADLOCK FALSE
