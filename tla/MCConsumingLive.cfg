SPECIFICATION LiveSpec
CONSTANTS
    Parts = {"push_recovers", "lite_follow", "pop_all", "schedule_moves"}
    Member = {1, 2}
    MaxOff = 2
    PullBatch = 2
    ConsumeBatch = 2
    Threshold = 1
    MaxTries = 0
    LockLife = 1
    BrokerLife = 2
    LockPeriod = 1
    RpcTicks = 0
    MaxChurn = 1
    AutoCommit = {TRUE}
    Fault = {}
PROPERTIES
    
    NoneForgotten
    FollowsBalance
CHECK_DEADLOCK FALSE
