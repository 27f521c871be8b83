CONSTANTS
    w1 = w1
    w2 = w2
    u1 = u1
    u2 = u2
    Workers <- MCWorkers
    URIs <- MCURIs
    Keys <- MCKeys
    KeyPing = "mongodb.ping"
    KeepAlive = 2
    ConnTimeout = 1
    ItemTimeouts <- MCLongItemTimeouts
    MaxSessions = 3

SPECIFICATION Spec

PROPERTY HeldSessionLive

