SPECIFICATION Spec
CONSTANTS
    Saga = {s1}
    Owner = {o1, o2, o3}
    NoOwner = NoOwner
    NoSaga = NoSaga
    N = 3
    Kind <- EachKind
    MaxAttempts = 2
    BatchSize = 2
    Unaware = {}
    MaxFaults = 2
INVARIANTS
    SnapshotFresh
    AlwaysResumable
    CompensationComplete
    PivotCommits
PROPERTIES
    FollowsProtocol
CHECK_DEADLOCK FALSE
