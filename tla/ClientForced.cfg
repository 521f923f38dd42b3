\* A violation: the heartbeat is overdue once.
CONSTANTS
    DB = {db1}
    Cookie = {c1}
    NoCookie = NoCookie
    MaxSockets = 3
    MaxDrops = 0
    MaxTimeouts = 1
    MaxExpired = 0
    MaxRequests = 2
    AfterLoss = {"down"}
    Patient = TRUE
SPECIFICATION ClientSpec
INVARIANTS
    SingleConnection
CHECK_DEADLOCK FALSE
