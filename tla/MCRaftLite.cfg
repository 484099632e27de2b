SPECIFICATION Spec
CONSTANTS
    a = a
    b = b
    c = c
    Node = {a, b, c}
    Nil = Nil
    Command = {x, y}
    PeerSets <- MCPeerSets
    MaxTerm = 4
    MaxLog = 2
INVARIANTS
    ElectionSafety
    LogsFollowElections
    MeshAgreement
    CommittedSurvives
PROPERTIES
    StaleLeaderCannotCommit
CHECK_DEADLOCK FALSE
