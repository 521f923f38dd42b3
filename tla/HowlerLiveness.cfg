\* Liveness: no symmetry, one packet on its way when a database changes.
CONSTANTS
    Socket = {s1, s2}
    NoSocket = NoSocket
    DB = {db1}
    Cookie = {c1}
    NoCookie = NoCookie
    CallId = {resub, id1, id2}
    Resubscription = resub
    MaxPackets = 1
SPECIFICATION FairHowlerSpec
PROPERTIES
    CallsSettle
    ReconnectsBecomeReady
    ConnectionsSettle
CHECK_DEADLOCK FALSE
