SPECIFICATION SidesSpec
CONSTANTS
    Key = {k1, k2, k3, k4}
    Value = {v1, v2}
    Null = Null
    Capacity = 3
    TTLs = {0, 1}
    a = a
    b = b
    c = c
    Node = {a, b, c}
    NoNode = NoNode
    Hashes <- MCHashes
    KeyHash <- MCKeyHash
    Retired = {a}
    Closing = {b}
    Check = {c1, c2}
    Threshold = 2
    Replicas = 2
INVARIANTS
    WellLinked
    RoutesClockwise
PROPERTIES
    ImplementsRecencyCache
    OnlyItsKeysMove
    ReplicasSurvive
    DeadNodesLeave
