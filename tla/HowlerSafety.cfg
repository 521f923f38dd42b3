\* Three connections, one after the other, and two calls at a time.
CONSTANTS
    Socket = {s1, s2, s3}
    NoSocket = NoSocket
    DB = {db1}
    Cookie = {c1}
    NoCookie = NoCookie
    CallId = {resub, id1, id2}
    Resubscription = resub
    MaxPackets = 2
SPECIFICATION HowlerSpec
SYMMETRY HowlerSymmetry
INVARIANTS
    HowlerTypeOK
    RequestsAreHeard
PROPERTIES
    ImplementsDelivery
CHECK_DEADLOCK FALSE
