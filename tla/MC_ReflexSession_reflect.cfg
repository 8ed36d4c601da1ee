CONSTANTS
    Requests <- MCRequestsIPv4
    MaxFrames = 3
    MaxAttacks = 2
    Reflect = TRUE
    K = K
    AttKey = AttKey
SPECIFICATION Spec
INVARIANT UpstreamIntegrity
\* Once both sides have written all they had, the relay goroutines block
\* on their reads: the session has no idle timeout after the handshake.
CHECK_DEADLOCK FALSE
