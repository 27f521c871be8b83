\* The agent may keep reconfiguring, restarting and querying the plugin: no deadlock.
CONSTANTS
    Timeouts <- MCTimeouts
    KeepAlives <- MCKeepAlives
    TLSValues <- MCTLSValues
    GlobalTimeouts <- MCGlobalTimeouts
    Absent = Absent
    w1 = w1
    Workers <- MCWorkers
SPECIFICATION LSpec

INVARIANT NoNilManagerUse
