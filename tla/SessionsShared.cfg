\* A violation: two clients of one node process share a store.
CONSTANTS
    c1 = c1
    c2 = c2
    c3 = c3
    s1 = s1
    s2 = s2
    Client <- MCClient
    Store <- MCStore
    StoreOf <- MixedStores
    Cookie = {k1, k2}
    NoCookie = NoCookie
    InBrowser = FALSE
    Async = FALSE
    MaxOps = 1
SPECIFICATION SessionsSpec
INVARIANTS
    CookieIsUsed
CHECK_DEADLOCK FALSE
