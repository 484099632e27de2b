SPECIFICATION Spec
CONSTANTS
    Server = {s1}
    Request = {r1, r2}
    None = None
    Policies = {1, 3}
    CheckCapacity = 2
    RedisToken = 2
    MemoryToken = 1
    MaxDrift = 1
    KeyTTL = 8
INVARIANTS
    TypeOK
    WithinBurst
    RetryAfterHolds
