\* Three sockets, so that one lives while two race authentication and log-out.
CONSTANTS
    Socket = {s1, s2, s3}
    DB = {db1, db2}
    Cookie = {c1}
    NoCookie = NoCookie
    CallId = {1}
SPECIFICATION ServerSpec
SYMMETRY Symmetry
INVARIANTS
    ServerTypeOK
    IndexAgrees
    NoEmptyEntry
    NeverCrashes
    OnlyLiveIndexed
    StoppedIsSilent
PROPERTIES
    VerdictFirst
    EveryChangeIsTold
    ImplementsNotifier
CHECK_DEADLOCK FALSE
