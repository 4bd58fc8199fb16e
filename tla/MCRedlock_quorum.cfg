SPECIFICATION Spec
CONSTANTS
    Node = {n1, n2, n3}
    Client = {c1, c2}
    NoValue = NoValue
    TTL = 2
    MaxSafe = 2
    Drift = 1
    Skew = 1
    MaxNow = 1
    MaxTries = 1
    MaxFaults = 1
    FirstFence = 1
SYMMETRY Symmetry
INVARIANTS
    MutualExclusion
    LaterTokensLarger
CHECK_DEADLOCK FALSE
