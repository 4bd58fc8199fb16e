SPECIFICATION Spec
CONSTANTS
    Request = {r1, r2}
    Fingerprint <- SameFingerprint
    Circumstances <- HangUpsOnly
    ReserveAttempts = 2
    MaxFaults = 0
CHECK_DEADLOCK FALSE
INVARIANT OneRunning
