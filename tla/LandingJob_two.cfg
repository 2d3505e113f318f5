SPECIFICATION Spec
CONSTANTS
    Partitions = {p1, p2}
    W = 1
    StartMs = 5
    NumEvents = 2
    MaxRuns = 2
    Jobs = {j1, j2}
    BatchMax = 2
    IdleExits = FALSE
    MaxBatches = 2
    MaxCrashes = 1
SYMMETRY Symmetry
INVARIANTS
    TypeOK
    RowsMatchOffsets
    NoDuplicateRows
    HistoryIsMonotone
    NoCancellationWithoutCreation
    ConsumedIsLandedOrBatched
PROPERTIES
    ImplementsLake
CHECK_DEADLOCK FALSE
