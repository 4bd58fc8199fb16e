SPECIFICATION Spec
CONSTANTS
    Order = {o1, o2}
    Unserviced = {o2}
    Stock = 1
    MaxAttempts = 2
    Family = {f1}
    Token = {t1, t2, t3}
    Refresh = {q1, q2}
    NoFamily = f0
    Call = {h1, h2, h3}
    Unsafe = {h3}
    MaxConcurrent = 1
    QueueLimits = {1, 2}
    MaxQueueWait = 2
    MaxTries = 2
    MaxDelay = 1
    AttemptTime = 2
    Budget = 3
    Late = 1
    LastStart = 0
    r1 = r1
    r2 = r2
    r3 = r3
    Keyed = {r1, r2, r3}
    Fingerprint <- Fingerprints
    Circumstances <- Circumstanced
    ReserveAttempts = 2
    Caller = {c1, c2}
    Nobody = c0
    Backends = {"memory", "redlock"}
    TTL = 3
    Drift = 1
    Interval = 1
    Renewing = {c1}
    MaxHold = 2
    MaxNow = 5
    Client = {u1}
    Stranger = u0
    replayBufferSize = 2
    maxConnections = 1
    MaxSeq = 3
    MaxEpoch = 2
    MaxWire = 1
    Socket = {s1, s2}
    User = {u1, u2}
    Topic = topic
    Unknown = junk
    u1 = u1
    u2 = u2
    Upgrades <- Upgrading
    Capacities = {1, 2}
    maxRooms = 2
    highWaterMark = 1
    grace = 1
    MaxSweepTime = 1
    MaxSends = 2
    Visit = {w1, w2, w3}
    Glance = {w3}
    Transaction = {x1, x2, x3}
    NoTransaction = x0
    MaxRecords = 2
    PageSize = 2
CHECK_DEADLOCK FALSE
INVARIANTS
    OrdersConsistent
    ReplayEndsSession
    CallsBounded
    KeyedOnce
    SuccessMeansExclusive
    NothingMissed
    NoSilentLoss
    NoLostUpdate
    LinearChain
PROPERTIES
    StepsAllowed
