CONSTANTS
    Names = {"", "a", "b"}
    Alpns = {"", "tls"}
    Paths = {"", "/p"}
    Dests = {1, 2, 3}
    MaxEntries = 3
    NoFallback = NoFallback
    NoQuery = NoQuery
    PeekLen = 1024
    HelloTableMax = 1
    SidLens = {0, 32}
    SuitesLens = {2, 32}
    KeyShareLens = {36, 1250}
    ExtOrders <- MCExtOrders
    HostBytes <- MCHostBytes
SPECIFICATION Spec
INVARIANT LookupIsMostSpecific
INVARIANT SniReadWithinPeek
