\* A violation: the user logs in at once.
CONSTANTS
    DB = {db1}
    Cookie = {c1}
    NoCookie = NoCookie
    MaxSockets = 2
    MaxDrops = 0
    MaxTimeouts = 0
    MaxExpired = 0
    MaxRequests = 2
    AfterLoss = {"down"}
    Patient = FALSE
SPECIFICATION ClientSpec
PROPERTIES
    OwnVerdict
CHECK_DEADLOCK FALSE
