\* Two sockets, one authenticated or subscribed while the other one comes.
CONSTANTS
    Socket = {s1, s2}
    DB = {db1}
    Cookie = {c1}
    NoCookie = NoCookie
    CallId = {1}
SPECIFICATION FairCommandSpec
INVARIANTS
    CommandTypeOK
    NoHalfServer
PROPERTIES
    SigIntEnds
CHECK_DEADLOCK FALSE
