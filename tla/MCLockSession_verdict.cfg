SPECIFICATION Spec
CONSTANTS
    Caller = {c1, c2}
    Nobody = Nobody
    Backends = {"memory", "redlock"}
    TTL = 3
    Drift = 1
    Interval = 1
    Renewing = {c1}
    MaxHold = 2
    MaxNow = 7
INVARIANT LostOnlyIfLapsed
CHECK_DEADLOCK FALSE
