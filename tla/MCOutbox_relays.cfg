SPECIFICATION LiveSpec
CONSTANTS
    Event = {1, 2, 3}
    Relay = {r1, r2}
    Unknown = {2}
    Staying = {r1}
    BatchSize = 2
    MaxAttempts = 2
    MaxFaults = 3
CHECK_DEADLOCK FALSE
INVARIANT DuplicatesExplained
PROPERTIES KeepsContract BacklogDrains
