SPECIFICATION FairSpec
CONSTANTS
    Caller = {c1, c2, c3}
    Threshold = 3
    ResetTimeout = 2
    MaxRetries = 2
INVARIANTS
    ClosedBelowThreshold
    ShedsLoad
PROPERTIES
    Recovers
