SPECIFICATION Spec
CONSTANTS
    Partitions = {p1}
    W = 1
    StartMs = 5
    NumEvents = 3
    MaxRuns = 2
    Jobs = {j1}
    BatchMax = 2
    IdleExits = TRUE
    MaxBatches = 0
    MaxCrashes = 0
INVARIANTS
    WatermarkSafe
CHECK_DEADLOCK FALSE
