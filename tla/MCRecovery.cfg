CONSTANTS
    Content = {a, b}
    Stamp = {s, t}
    LastGeneration = 3
    Keep = {1, 2}
    MaxFaults = 2
SPECIFICATION FairSpec
INVARIANTS
    TypeOK
    CurrentResolves
    RetainedRestorable
PROPERTIES
    ImplementsLastKnownGood
    PublishingGoesOn
    GarbageGoes
CHECK_DEADLOCK FALSE
