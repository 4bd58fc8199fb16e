SPECIFICATION FairSpec
CONSTANTS
    Tenant = {"t1", "t2"}
    TENANCY_DEFAULT_TENANT_ID = "t1"
    Request = {"r1"}
    Connection = {"c1"}
    Relay = {}
    Environments <- Resolving
    Roles <- Sound
    maxAttempts = 2
    MaxCrashes = 1
CHECK_DEADLOCK FALSE
PROPERTY InterruptedSettles
