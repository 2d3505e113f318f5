SPECIFICATION SeamSpec
CONSTANTS
    Partitions = {p1}
    W = 3
    StartMs = 0
    NumEvents = 4
    MaxRuns = 1
    MaxChRestarts = 0
    MaxQueries = 1
INVARIANTS
    AnswersPairCancellations
CHECK_DEADLOCK FALSE
