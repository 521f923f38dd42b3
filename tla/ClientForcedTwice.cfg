\* A violation: the heartbeat is overdue twice.
CONSTANTS
    DB = {db1}
    Cookie = {c1}
    NoCookie = NoCookie
    MaxSockets = 3
    MaxDrops = 0
    MaxTimeouts = 2
    MaxExpired = 0
    MaxRequests = 2
    AfterLoss = {"down"}
    Patient = TRUE
SPECIFICATION ClientSpec
PROPERTIES
    ForcedReconnectCloses
CHECK_DEADLOCK FALSE
