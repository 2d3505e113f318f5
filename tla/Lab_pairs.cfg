SPECIFICATION FilledSpec
CONSTANTS
    Partitions = {p1}
    W = 3
    StartMs = 5
    NumEvents = 4
    MaxRuns = 1
    Jobs = {j1}
    BatchMax = 2
    IdleExits = FALSE
    MaxBatches = 0
    MaxCrashes = 0
    MaxChRestarts = 0
    MaxQueries = 1
INVARIANTS
    LabAnswersPair
CHECK_DEADLOCK FALSE
