SPECIFICATION FairSpec
CONSTANTS
    User = {u1, u2}
    Room = {room1, room2}
    DefaultRoom = room1
    None = None
    MaxConns = 2
    MaxMessages = 5
    MaxBuffer = 2
INVARIANTS
    NoSilentLoss
    OpenIsRouted
PROPERTIES
    ImplementsLossyFeed
    Delivers
CHECK_DEADLOCK FALSE
