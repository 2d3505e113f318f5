SPECIFICATION OrderedSpec
CONSTANTS
    Events = {e1, e2, e3}
    Requests = {r1, r2, r3}
    Topics = {t1, t2}
    Worker = worker
    PoolSize = 2
    FailureThreshold = 2
    BatchSize = 2
    QueueMax = 1
    MayStop = TRUE
INVARIANTS
    PoolTypeOK
    TrueMeansWritten
    BreakerAgrees
    QueuedOnce
PROPERTIES
    QueuedSettles
CHECK_DEADLOCK FALSE
