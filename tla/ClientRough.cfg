\* Anything goes wrong once, at any time.
CONSTANTS
    DB = {db1}
    Cookie = {c1}
    NoCookie = NoCookie
    MaxSockets = 2
    MaxDrops = 1
    MaxTimeouts = 1
    MaxExpired = 1
    MaxRequests = 1
    AfterLoss = {"down", "lost"}
    Patient = FALSE
SPECIFICATION ClientSpec
INVARIANTS
    HeartbeatWhileReady
    GoesByVerdict
PROPERTIES
    StopAddsNothing
CHECK_DEADLOCK FALSE
