SPECIFICATION Spec
CONSTANTS
    r1 = r1
    r2 = r2
    r3 = r3
    Request = {r1, r2, r3}
    KeyOf <- MCKeyOf
    None = None
    NoData = NoData
    MaxRetries = 3
    Order = {o1, o2}
    MaxSends = 5
    Node = {n1, n2, n3}
    MaxEvents = 6
    Amount = {2}
    Time = {0, 1}
    MaxLog = 3
    Id = {i1, i2, i3}
    CacheSize = 2
    FreshTTL = 2
    StaleLimit = 5
    Latency = 2
    MaxFetches = 3
    Window = 3
    Limit = 2
    Costs = {1, 2}
    MaxFailures = 2
    Code = {c1, c2}
    Url = {u1, u2}
    NoEntry = NoEntry
    Ttls <- MCTtls
    DefaultTTL = 2
    MaxTTL = 4
    Second = 2
    Servers = 3
    MaxQueueSize = 3
    Posts = 5
    Score = {0, 1, 2}
    TopN = 4
    PageSize = {1, 2}
INVARIANTS
    TypeOK
    OneTrueOutcomePerKey
    ExactlyOnce
    ClockCondition
    ReplayAgrees
    RefreshInTime
    WindowBound
    LinksHold
    SpreadsLoad
    PagesComplete
PROPERTIES
    TimeTravel
CHECK_DEADLOCK FALSE
