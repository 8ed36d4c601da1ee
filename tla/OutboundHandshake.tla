-------------------------- MODULE OutboundHandshake --------------------------
(***************************************************************************)
(* The outbound's read of the 40-byte server handshake (outbound Process)  *)
(* and the process-wide pool of 40-byte buffers it reads into             *)
(* (encoding/pool.go).  Several outbound connections run concurrently and  *)
(* share the pool.                                                         *)
(*                                                                         *)
(* A server handshake is HsLen byte tokens, the first KeyLen of them its   *)
(* public key (32 of 40 in the code); the handshake of the server serving  *)
(* connection c is <<c, 1>>, ..., <<c, HsLen>>.  A buffer fresh from the   *)
(* pool's New holds zero bytes.  sync.Pool may drop what it holds at any   *)
(* time, so Get may return a new buffer even when the pool is not empty.   *)
(***************************************************************************)
EXTENDS Naturals, Sequences

CONSTANTS
    Conns,          \* concurrent outbound connections
    Buffers,        \* identities of the buffers New may allocate
    HsLen,          \* SERVER_HANDSHAKE_SIZE, in tokens
    KeyLen,         \* the public-key prefix of the handshake, in tokens
    WholeFlight,    \* TRUE: the 40 bytes always arrive in one segment
    None

ASSUME 0 < KeyLen /\ KeyLen < HsLen

VARIABLES
    pool,       \* buffers currently in serverHandshakePool
    alloc,      \* buffers New has allocated so far
    buf,        \* buf[b]: the bytes of buffer b
    held,       \* held[c]: responseData of connection c, or None
    arrived,    \* arrived[c]: server handshake bytes the socket has received
    serverKey,  \* serverKey[c]: the public key the outbound decoded, or None
    pc          \* pc[c]: where connection c's Process is

vars == <<pool, alloc, buf, held, arrived, serverKey, pc>>

ServerHS(c) == [j \in 1..HsLen |-> <<c, j>>]
\* A zero byte, comparable with the handshake tokens.
ZeroByte == <<None, 0>>
Zeros == [j \in 1..HsLen |-> ZeroByte]

Init ==
    /\ pool = {} /\ alloc = {}
    /\ buf = [b \in Buffers |-> Zeros]
    /\ held = [c \in Conns |-> None]
    /\ arrived = [c \in Conns |-> 0]
    /\ serverKey = [c \in Conns |-> None]
    /\ pc = [c \in Conns |-> "start"]

\* GetServerHandshakeBuffer: a pooled buffer, or a fresh one from New.
GetBuffer(c) ==
    /\ pc[c] = "start"
    /\ \/ \E b \in pool :
            /\ held' = [held EXCEPT ![c] = b]
            /\ pool' = pool \ {b}
            /\ UNCHANGED <<alloc, buf>>
       \/ \E b \in Buffers \ alloc :
            /\ held' = [held EXCEPT ![c] = b]
            /\ alloc' = alloc \cup {b}
            /\ buf' = [buf EXCEPT ![b] = Zeros]
            /\ UNCHANGED pool
    /\ pc' = [pc EXCEPT ![c] = "got"]
    /\ UNCHANGED <<arrived, serverKey>>

\* The network: the server's single conn.Write of 40 bytes reaches the
\* client's socket, in one piece or in several.
Deliver(c) ==
    /\ pc[c] # "start" /\ arrived[c] < HsLen
    /\ \E n \in (IF WholeFlight THEN {HsLen} ELSE arrived[c] + 1..HsLen) :
          arrived' = [arrived EXCEPT ![c] = n]
    /\ UNCHANGED <<pool, alloc, buf, held, serverKey, pc>>

\* rawConn.Read(responseData): blocks until some bytes are there and copies
\* those that are, at most 40; the rest of the buffer keeps what it held.
\* The byte count is discarded.
Read(c) ==
    /\ pc[c] = "got" /\ arrived[c] > 0
    /\ buf' = [buf EXCEPT ![held[c]] =
                 [j \in 1..HsLen |-> IF j <= arrived[c] THEN ServerHS(c)[j] ELSE @[j]]]
    /\ pc' = [pc EXCEPT ![c] = "read"]
    /\ UNCHANGED <<pool, alloc, held, arrived, serverKey>>

\* DecodeServerHandshake(responseData): len(data) is always 40, so it never
\* fails; the public key is data[0:32].  DeriveSharedKey then uses it.
Decode(c) ==
    /\ pc[c] = "read"
    /\ serverKey' = [serverKey EXCEPT ![c] = SubSeq(buf[held[c]], 1, KeyLen)]
    /\ pc' = [pc EXCEPT ![c] = "keyed"]
    /\ UNCHANGED <<pool, alloc, buf, held, arrived>>

\* Process returns (after the relay): the deferred PutServerHandshakeBuffer.
Finish(c) ==
    /\ pc[c] = "keyed"
    /\ pool' = pool \cup {held[c]}
    /\ held' = [held EXCEPT ![c] = None]
    /\ pc' = [pc EXCEPT ![c] = "done"]
    /\ UNCHANGED <<alloc, buf, arrived, serverKey>>

Next ==
    \E c \in Conns :
        GetBuffer(c) \/ Deliver(c) \/ Read(c) \/ Decode(c) \/ Finish(c)

Spec == Init /\ [][Next]_vars

Done == \A c \in Conns : pc[c] = "done"

----------------------------------------------------------------------------
\* The outbound derives its session key from the public key of the server
\* that answered this connection (spec 4.7, outbound: "read 40-byte server
\* handshake, derive keys"): no byte of the key it decodes from the pooled
\* responseData is a byte of another connection's server handshake, left
\* in the buffer by the Process that returned it to the pool.
ServerKeyFromOwnServer ==
    \A c \in Conns :
        serverKey[c] # None =>
            \A j \in 1..KeyLen : serverKey[c][j] \in {ServerHS(c)[j], ZeroByte}
=============================================================================
