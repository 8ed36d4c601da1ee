\* Three concurrent outbound connections over one buffer pool; the server
\* handshake may arrive in several TCP segments.
CONSTANTS
    Conns = {c1, c2, c3}
    Buffers = {b1, b2, b3}
    HsLen = 4
    KeyLen = 3
    WholeFlight = FALSE
    None = None
SPECIFICATION MCSpec
INVARIANT ServerKeyFromOwnServer
