SPECIFICATION LiveSpec
CONSTANTS
    Member = {m1, m2}
    Staying = {m1}
    FromBeginning = {m1}
    Partition = {1, 2}
    Undecodable <- OneUndecodable
    MaxAttempts = 2
    MaxLog <- EmptyAndTwo
    MaxBatch = 2
    MaxFaults = 2
CHECK_DEADLOCK FALSE
INVARIANTS NothingOvertaken CommittedMeansSettled
PROPERTY BacklogClears
