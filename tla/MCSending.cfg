SPECIFICATION PartsSpec
CONSTANTS
    Parts = {"semaphore", "async", "async_open", "retry", "retry_latency", "batch_sync",
             "batch_async", "request", "tx", "tx_groups", "tx_single", "trace", "trace_worker"}
    Waiter = {1, 2}
    Need <- FittingNeed
    Capacity = {1, 2, 3}
INVARIANTS
    TypesOK
    NoLostWakeup
    PermitsKept
    ToldOnce
    Atomic
    
PROPERTIES
    RetryElsewhere
    
CHECK_DEADLOCK FALSE
