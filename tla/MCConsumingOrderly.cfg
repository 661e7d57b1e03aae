SPECIFICATION OrderlyLiveSpec
CONSTANTS
    Parts = {"orderly_live"}
    Member = {1, 2}
    MaxOff = 2
    PullBatch = 2
    ConsumeBatch = 2
    Threshold = 1
    MaxTries = 0
    LockLife = 1
    BrokerLife = 2
    LockPeriod = 1
    RpcTicks = 0
    MaxChurn = 1
    AutoCommit = {TRUE}
    Fault = {}
PROPERTY OrderlyCatchesUp
