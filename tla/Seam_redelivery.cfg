SPECIFICATION CreationsSpec
CONSTANTS
    Partitions = {p1}
    W = 3
    StartMs = 5
    NumEvents = 3
    MaxRuns = 1
    MaxChRestarts = 1
    MaxQueries = 2
INVARIANTS
    SeamTypeOK
    SeamExactlyOnce
    ExactlyOnceBelowT
    SeamAtLeastOnce
    LaterAnswersKeepEvents
    CountMeansCaughtUp
CHECK_DEADLOCK FALSE
