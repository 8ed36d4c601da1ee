CONSTANTS
    Conns = {"c1", "c2"}
    UserIds = {"u1"}
    Guess = Guess
    Emails = {"e1"}
    NoUser = NoUser
    InitialUsers <- MCInitialUsers
    HonestUser <- MCHonestUser
    NoClient = NoClient
    Names = {"", "a"}
    Alpns = {"", "tls", "http/1.1"}
    Paths = {"", "/"}
    Dests = {1, 2}
    NoFallback = NoFallback
    Fallbacks <- MCFallbacks
    ProbeSizes = {40, 300, 1500}
    AttPub = AttPub
    None = None
SPECIFICATION Spec
PROPERTY FallbackNotCutByDeadline
