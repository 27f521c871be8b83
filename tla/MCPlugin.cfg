CONSTANTS
    w1 = w1
    w2 = w2
    u1 = u1
    u2 = u2
    Workers <- MCWorkers
    URIs <- MCURIs
    Keys <- MCKeys
    KeyPing = "mongodb.ping"
    KeepAlive = 2
    ConnTimeout = 1
    ItemTimeouts <- MCItemTimeouts
    MaxSessions = 3

SPECIFICATION Spec

INVARIANT TypeOK
INVARIANT NoLeakedSession
PROPERTY HeldSessionLive
INVARIANT PingNeverErrors

PROPERTY IdleSessionEvicted
PROPERTY PoolRefinement
