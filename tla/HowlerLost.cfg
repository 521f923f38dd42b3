\* A violation: the connection is lost before subscribe() is answered.
CONSTANTS
    Socket = {s1, s2}
    NoSocket = NoSocket
    DB = {db1}
    Cookie = {c1}
    NoCookie = NoCookie
    CallId = {resub, id1}
    Resubscription = resub
    MaxPackets = 1
SPECIFICATION HowlerSpec
INVARIANTS
    SubscriptionsPersist
CHECK_DEADLOCK FALSE
