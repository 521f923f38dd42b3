\* A violation: the store is asynchronous.
CONSTANTS
    c1 = c1
    c2 = c2
    c3 = c3
    s1 = s1
    s2 = s2
    Client <- MCClient
    Store <- MCStore
    StoreOf <- MixedStores
    Cookie = {k1, k2}
    NoCookie = NoCookie
    InBrowser = TRUE
    Async = TRUE
    MaxOps = 2
SPECIFICATION SessionsSpec
INVARIANTS
    CookieIsUsed
CHECK_DEADLOCK FALSE
