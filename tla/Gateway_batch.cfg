SPECIFICATION GatewaySpec
CONSTANTS
    Events = {e1, e2}
    Requests = {r1}
    Topics = {t1}
    Worker = worker
    PoolSize = 1
    FailureThreshold = 1
    BatchSize = 1
    QueueMax = 1
    RedisTries = 2
    MayStop = FALSE
INVARIANTS
    BatchStoresOnlyFailed
CHECK_DEADLOCK FALSE
