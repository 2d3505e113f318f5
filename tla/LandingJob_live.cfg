SPECIFICATION FairSpec
CONSTANTS
    Partitions = {p1, p2}
    W = 1
    StartMs = 5
    NumEvents = 3
    MaxRuns = 1
    Jobs = {j1, j2}
    BatchMax = 2
    IdleExits = FALSE
    MaxBatches = 0
    MaxCrashes = 1
PROPERTIES
    EverythingLands
CHECK_DEADLOCK FALSE
