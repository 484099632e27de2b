SPECIFICATION FairSpec
CONSTANTS
    Node = {n1, n2, n3}
    None = None
    TTL = 4
    MaxLag = 1
INVARIANTS
    LeaderHoldsLock
PROPERTIES
    ImplementsLease
    NoRenewalStealsTheLock
    Failover
