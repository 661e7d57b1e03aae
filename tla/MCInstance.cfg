SPECIFICATION LiveSpec
CONSTANTS
    Parts = {"group", "group_static", "group_unknown", "registry", "registry_detached",
             "registry_admins", "loops", "heartbeat", "heartbeat_route", "heartbeat_lost", "pool",
             "pool_restart"}
    Queue = {1, 3}
    Client = {11, 12}
    Room <- MCRoom
    Idcs = {"r1", "r2"}
    HashOf <- MCHash
    Virtual <- MCVirtual
    Strategies <- MCStrategies
    MaxChurn = 1
    MaxLost = 1
INVARIANTS
    TypesOK
    SameViewDisjoint
    SharesComplete
    
    
    BeatsCounted
PROPERTIES
    
    Settles
CHECK_DEADLOCK FALSE
