SPECIFICATION Spec
CONSTANTS
    Order = {o1}
    Unserviced = {}
    Stock = 1
    MaxAttempts = 2
    MaxFaults = 1
INVARIANT PaidBeforeShipped
CHECK_DEADLOCK FALSE
