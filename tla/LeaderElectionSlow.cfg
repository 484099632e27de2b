SPECIFICATION Spec
CONSTANTS
    Node = {n1, n2}
    None = None
    TTL = 4
    MaxLag = 3
PROPERTIES
    NoRenewalStealsTheLock
