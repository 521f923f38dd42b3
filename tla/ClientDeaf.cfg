\* A violation: an old socket, that socket.io connects again, is accepted while
\* the current one is not.
CONSTANTS
    DB = {db1}
    Cookie = {c1}
    NoCookie = NoCookie
    MaxSockets = 3
    MaxDrops = 1
    MaxTimeouts = 0
    MaxExpired = 0
    MaxRequests = 2
    AfterLoss = {"down"}
    Patient = TRUE
SPECIFICATION ClientSpec
INVARIANTS
    ConnectedIsReal
CHECK_DEADLOCK FALSE
