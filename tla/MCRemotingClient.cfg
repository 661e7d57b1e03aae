SPECIFICATION PartsSpec
CONSTANTS
    Parts = {"own", "goaway", "pushed", "restarted"}
    Caller = {c1, c2}
    CallKind = {"oneway"}
    Addr = {a1, a2}
    Peer = peer
    BrokerOpaque = {0}
    MaxConn = 2
    MaxLife = 2
    ReconnectGoAway = TRUE
    CloseOnTimeout = TRUE
SYMMETRY Symmetry
INVARIANTS
    TypeOK
    
    OwnResponse
    OneConnector
    ShutdownSettles
    SocketsAccounted
    OwnFateOnly
CHECK_DEADLOCK FALSE
