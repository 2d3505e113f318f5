SPECIFICATION Spec
CONSTANTS
    Partitions = {p1, p2}
    W = 3
    StartMs = 5
    NumEvents = 4
    MaxRuns = 1
    Jobs = {j1}
    BatchMax = 2
    IdleExits = TRUE
    MaxBatches = 0
    MaxCrashes = 0
SYMMETRY Symmetry
INVARIANTS
    MarksAreLanded
    WatermarkSafe
    LakeMatchesGroundTruth
    OrdersCountOnce
    CleanExitLandsEverything
PROPERTIES
    ImplementsLake
CHECK_DEADLOCK FALSE
