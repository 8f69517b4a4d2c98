CONSTANTS
    Runner = {p, q}
    TTL = {1, 2}
    MaxTime = 2
    MaxCalls = 2
    MaxFaults = 1
SPECIFICATION Spec
SYMMETRY MCSymmetry
INVARIANTS
    TypeOK
    CommittedIsWritten
    RejectedOnlyIfOvertaken
PROPERTIES
    ImplementsLeaseChain
CHECK_DEADLOCK FALSE
