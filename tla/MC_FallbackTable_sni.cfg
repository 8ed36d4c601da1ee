\* A browser ClientHello with an ML-KEM key share ahead of its SNI.
CONSTANTS
    Names = {"", "a", "b"}
    Alpns = {"", "tls"}
    Paths = {""}
    Dests = {1}
    MaxEntries = 1
    NoFallback = NoFallback
    NoQuery = NoQuery
    PeekLen = 1024
    HelloTableMax = 1
    SidLens = {32}
    SuitesLens = {32}
    KeyShareLens = {1250}
    ExtOrders <- MCExtOrdersKeyShareFirst
    HostBytes <- MCHostBytes
SPECIFICATION Spec
INVARIANT RoutedBySni
