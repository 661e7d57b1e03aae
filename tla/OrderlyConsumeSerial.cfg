SPECIFICATION Spec
CONSTANTS
    Member = {m1, m2}
    MaxOff = 1
    PullBatch = 1
    ConsumeBatch = 1
    Threshold = 1
    MaxTries = 1
    LockLife = 1
    BrokerLife = 3
    LockPeriod = 1
    RpcTicks = 1
    MaxChurn = 1
    AutoCommit = {TRUE}
    Fault = {}
INVARIANT Serialized
