SPECIFICATION Spec
CONSTANTS
    Client = {alice, bob}
    WallTime = {0, 1}
    MaxMessages = 3
INVARIANTS
    CausesFirst
CHECK_DEADLOCK FALSE
