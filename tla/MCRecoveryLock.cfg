CONSTANTS
    Process = {a, b}
    Name = {m, n}
    ParentDir = {d, e}
    RootDir = {r, s}
    Nowhere = nowhere
    MaxMoves = 2
SPECIFICATION FairSpec
INVARIANTS
    TypeOK
    OnePerPath
    OnePerRoot
PROPERTIES
    EveryCallEnds
CHECK_DEADLOCK FALSE
