CONSTANTS
    Process = {a, b}
    Name = {m, n}
    Tree = {s, t, u}
    File = {manifest, weights}
    Manifest = manifest
    Nothing = nothing
    MaxFaults = 2
SPECIFICATION Spec
SYMMETRY MCSymmetry
INVARIANTS
    TypeOK
    ReturnedSaveSurvives
    LoadIsOneSave
CHECK_DEADLOCK FALSE
