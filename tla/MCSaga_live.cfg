SPECIFICATION FairSpec
CONSTANTS
    Saga = {s1, s2}
    Owner = {o1, o2, o3}
    NoOwner = NoOwner
    NoSaga = NoSaga
    N = 3
    Kind <- EachKind
    MaxAttempts = 1
    BatchSize = 2
    Unaware = {o3}
    MaxFaults = 1
PROPERTY Settles
CHECK_DEADLOCK FALSE
