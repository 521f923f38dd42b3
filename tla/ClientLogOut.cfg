\* A violation: logOut() while a log in stores its cookie.
CONSTANTS
    DB = {db1}
    Cookie = {c1}
    NoCookie = NoCookie
    MaxSockets = 3
    MaxDrops = 0
    MaxTimeouts = 0
    MaxExpired = 0
    MaxRequests = 2
    AfterLoss = {"down"}
    Patient = TRUE
SPECIFICATION ClientSpec
PROPERTIES
    LogOutClears
CHECK_DEADLOCK FALSE
