\* A violation: the transport is lost while the client resubscribes.
CONSTANTS
    DB = {db1}
    Cookie = {c1}
    NoCookie = NoCookie
    MaxSockets = 3
    MaxDrops = 1
    MaxTimeouts = 0
    MaxExpired = 0
    MaxRequests = 2
    AfterLoss = {"down"}
    Patient = TRUE
SPECIFICATION FairClientSpec
PROPERTIES
    SubscriptionsArrive
CHECK_DEADLOCK FALSE
