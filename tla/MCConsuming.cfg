SPECIFICATION PartsSpec
CONSTANTS
    Parts = {"push", "push_move", "push_sweep", "push_retention", "push_stop", "orderly",
             "orderly_retry", "orderly_lock", "orderly_late",
             "lite", "lite_seek", "lite_restart", "lite_leave", "lite_assign", "pop",
             "pop_churn", "executor", "schedule"}
    Member = {1, 2}
    MaxOff = 2
    PullBatch = 2
    ConsumeBatch = 2
    Threshold = 1
    MaxTries = 0
    LockLife = 1
    BrokerLife = 2
    LockPeriod = 1
    RpcTicks = 0
    MaxChurn = 1
    AutoCommit = {TRUE}
    Fault = {}
INVARIANTS
    TypesOK
    InOrder
    LockKept
    
    
PROPERTIES
    
    OrderlyKeeps
    
CHECK_DEADLOCK FALSE
