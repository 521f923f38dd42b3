\* Two clients that share a store, as in a browser or in one node process; a third
\* has a store of its own.
CONSTANTS
    c1 = c1
    c2 = c2
    c3 = c3
    s1 = s1
    s2 = s2
    Client <- MCClient
    Store <- MCStore
    StoreOf <- MixedStores
    Cookie = {k1, k2}
    NoCookie = NoCookie
    InBrowser = TRUE
    Async = FALSE
    MaxOps = 1
SPECIFICATION SessionsSpec
INVARIANTS
    SessionsTypeOK
    ConnectsAsItself
    StaysLoggedIn
CHECK_DEADLOCK FALSE
