CONSTANTS
    Requests <- MCRequestsIPv6
    MaxFrames = 3
    MaxAttacks = 2
    Reflect = FALSE
    K = K
    AttKey = AttKey
SPECIFICATION Spec
INVARIANT UpstreamIntegrity
\* Once both sides have written all they had, the relay goroutines block
\* on their reads: the session has no idle timeout after the handshake.
CHECK_DEADLOCK FALSE
