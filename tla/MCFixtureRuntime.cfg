CONSTANTS
    Effect = {own}
    EffectLimit = 1
    Own = own
    Host = {h1, h2}
    MaxFaults = 2
    MaxExternal = 2
SPECIFICATION FairSpec
INVARIANTS
    TypeOK
PROPERTIES
    ImplementsLifecycle
    LateResultRefused
    ReservedSettles
CHECK_DEADLOCK FALSE
