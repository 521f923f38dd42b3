\* A calm run, with fairness: three connections, one after the other.
CONSTANTS
    DB = {db1}
    Cookie = {c1}
    NoCookie = NoCookie
    MaxSockets = 3
    MaxDrops = 1
    MaxTimeouts = 0
    MaxExpired = 0
    MaxRequests = 2
    AfterLoss = {"lost"}
    Patient = TRUE
SPECIFICATION FairClientSpec
INVARIANTS
    ClientTypeOK
    SubscriptionsInSync
    SingleConnection
    ConnectedIsReal
PROPERTIES
    StopIsFinal
    LogInSettles
    SubscriptionsArrive
CHECK_DEADLOCK FALSE
