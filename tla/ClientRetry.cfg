\* A violation: a cookie is refused once.
CONSTANTS
    DB = {db1}
    Cookie = {c1}
    NoCookie = NoCookie
    MaxSockets = 3
    MaxDrops = 0
    MaxTimeouts = 0
    MaxExpired = 1
    MaxRequests = 2
    AfterLoss = {"down"}
    Patient = TRUE
SPECIFICATION ClientSpec
PROPERTIES
    CookieUntilLogOut
CHECK_DEADLOCK FALSE
