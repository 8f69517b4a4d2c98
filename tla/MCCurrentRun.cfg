CONSTANTS
    Client = {c,d}
    Manifest = {m,n}
    Run = {r}
    MaxTip = 2
    MaxCalls = 2
    MaxFaults = 1
SPECIFICATION Spec
SYMMETRY MCSymmetry
INVARIANTS
    TypeOK
    ActiveWasHeld
    BoundLeaseWasHeld
    LeaseNeverGoesBack
PROPERTIES
    ImplementsRunSelection
CHECK_DEADLOCK FALSE
