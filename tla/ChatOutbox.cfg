SPECIFICATION FairSpec
CONSTANTS
    Worker = {w1, w2}
    None = None
    Run = {r1, r2}
    MaxMessages = 2
    Batch = 1
    MaxFaults = 1
INVARIANTS
    TypeOK
    IdleHoldsNothing
PROPERTIES
    ImplementsAtLeastOnce
    Drains
