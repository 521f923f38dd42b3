\* A violation: an entry that outlives its socket.
CONSTANTS
    Socket = {s1, s2}
    DB = {db1}
    Cookie = {c1}
    NoCookie = NoCookie
    CallId = {1}
SPECIFICATION ServerSpec
INVARIANTS
    DisconnectRemoves
CHECK_DEADLOCK FALSE
