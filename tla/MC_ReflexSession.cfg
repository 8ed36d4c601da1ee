CONSTANTS
    Requests <- MCRequests
    MaxFrames = 3
    MaxAttacks = 2
    Reflect = FALSE
    K = K
    AttKey = AttKey
SPECIFICATION Spec
PROPERTY DataDelivered
PROPERTY ImplementsTunnel
PROPERTY SessionTornDown
INVARIANT DispatchedAsRequested
\* Once both sides have written all they had, the relay goroutines block
\* on their reads: the session has no idle timeout after the handshake.
CHECK_DEADLOCK FALSE
