SPECIFICATION ExtremesSpec
CONSTANTS
    Partitions = {p1}
    W = 3
    StartMs = 5
    NumEvents = 3
    MaxRuns = 1
    Jobs = {j1}
    BatchMax = 2
    IdleExits = FALSE
    MaxBatches = 0
    MaxCrashes = 1
    MaxChRestarts = 0
    MaxQueries = 1
INVARIANTS
    LabExactlyOnce
    LabMatchesGroundTruth
PROPERTIES
    ImplementsSeam
CHECK_DEADLOCK FALSE
