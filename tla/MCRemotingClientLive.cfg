SPECIFICATION LiveSpec
CONSTANTS
    Parts = {"own", "goaway"}
    Caller = {c1, c2}
    CallKind = {"sync"}
    Addr = {a1}
    Peer = peer
    BrokerOpaque = {}
    MaxConn = 1
    MaxLife = 1
    ReconnectGoAway = TRUE
    CloseOnTimeout = FALSE
PROPERTY CallReturns
CHECK_DEADLOCK FALSE
