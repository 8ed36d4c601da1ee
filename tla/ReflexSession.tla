---------------------------- MODULE ReflexSession ----------------------------
(***************************************************************************)
(* The Reflex session after the handshake: the outbound's request header  *)
(* frame and requestDone/responseDone loops, the inbound's first-frame     *)
(* handling and its requestDone/responseDone loops, and the frame codec    *)
(* (encoding/frame.go) underneath them, with a man in the middle on the    *)
(* TCP connection.                                                         *)
(*                                                                         *)
(* Each of the four codecs keeps its own 64-bit counter, starting at 0 and *)
(* incremented before every seal or open; all four use the one session    *)
(* key.  A frame is a record of the key it was sealed under, its nonce,    *)
(* its type and its payload; AEAD Open succeeds exactly when key and nonce *)
(* match, so a frame cannot be forged or altered without the key.         *)
(* Payload bytes are tokens: a header byte b is <<"hdr", b>>, application  *)
(* data carried by frame n of a direction is <<dir, n>>.                   *)
(***************************************************************************)
EXTENDS Naturals, Sequences, SequencesExt, RequestHeader

CONSTANTS
    Requests,       \* the requests (command, port, address) the outbound may send
    MaxFrames,      \* frames each encoder seals (bound)
    MaxAttacks,     \* man-in-the-middle steps (bound)
    Reflect,        \* whether the attacker moves frames between directions
    K,              \* the session key both ends derived
    AttKey          \* a key the attacker holds

\* requestDone: "headerSize := 12 // Simplified".
HeaderSkip == 12

Frame(key, nonce, payload) == [key |-> key, nonce |-> nonce, payload |-> payload]

\* The first frame's payload: encodeRequestHeader's bytes, as tokens.
Header(r) == LET b == EncodeRequestHeader(r) IN [j \in DOMAIN b |-> <<"hdr", b[j]>>]

\* The bytes of a payload, as parseRequestHeader reads them.
PayloadBytes(p) == [j \in DOMAIN p |-> p[j][2]]

\* The values of request and dispatched before the header is sent or read.
NoRequest == [cmd |-> 0, port |-> 0, family |-> "", addr |-> << >>]
NoDest == [net |-> "", port |-> 0, family |-> "", addr |-> << >>]

VARIABLES
    cEnc, cDec,     \* the outbound's encoder and decoder counters
    sEnc, sDec,     \* the inbound's encoder and decoder counters
    up, down,       \* frames on the wire, client to server and back
    upLog, downLog, \* every frame each encoder sealed, in order
    toDest,         \* bytes the inbound wrote to the dispatcher link
    toApp,          \* bytes the outbound wrote to its link
    cState,         \* outbound: "header", "relay", "closed"
    sState,         \* inbound: "first", "relay", "closed"
    attacks,
    linkEOF,        \* sides whose link (client app, destination) has ended
    request,        \* the outbound's protocol.RequestHeader (its target)
    dispatched      \* the destination the inbound passed to Dispatch

vars == <<cEnc, cDec, sEnc, sDec, up, down, upLog, downLog, toDest, toApp,
          cState, sState, attacks, linkEOF, request, dispatched>>

Init ==
    /\ cEnc = 0 /\ cDec = 0 /\ sEnc = 0 /\ sDec = 0
    /\ up = <<>> /\ down = <<>> /\ upLog = <<>> /\ downLog = <<>>
    /\ toDest = <<>> /\ toApp = <<>>
    /\ cState = "header" /\ sState = "first"
    /\ attacks = 0
    /\ linkEOF = {}
    /\ request = NoRequest /\ dispatched = NoDest

\* An AEAD open that accepts any nonce under the right key.
OpensAnyNonce(f, key, ctr) == f.key = key

\* Decode: counter++ then aead.Open with nonce = counter.
Opens(f, key, ctr) == f.key = key /\ f.nonce = ctr + 1

\* An encoder that seals with the counter before incrementing it.
SealNoIncrement(ctr, payload) == Frame(K, ctr, payload)

\* FrameEncoder.EncodeToWriter: counter++, seal, write.
Seal(ctr, payload) == Frame(K, ctr + 1, payload)

\* outbound Process: encodeRequestHeader sent as the first DATA frame.
ClientHeader(r) ==
    /\ cState = "header"
    /\ request' = r
    /\ up' = Append(up, Seal(cEnc, Header(r)))
    /\ upLog' = Append(upLog, Seal(cEnc, Header(r)))
    /\ cEnc' = cEnc + 1
    /\ cState' = "relay"
    /\ UNCHANGED <<linkEOF, dispatched, cDec, sEnc, sDec, down, downLog, toDest, toApp, sState, attacks>>

\* outbound requestDone: a buffer read from the link, sealed as DATA.
ClientSend ==
    /\ cState = "relay" /\ cEnc < MaxFrames
    /\ up' = Append(up, Seal(cEnc, <<<<"up", cEnc + 1>>>>))
    /\ upLog' = Append(upLog, Seal(cEnc, <<<<"up", cEnc + 1>>>>))
    /\ cEnc' = cEnc + 1
    /\ UNCHANGED <<linkEOF, request, dispatched, cDec, sEnc, sDec, down, downLog, toDest, toApp, cState, sState,
                   attacks>>

\* inbound: ReadFrame of the first frame, parseRequestHeader (an error
\* ends Process), Dispatch(request.Destination()); then requestDone writes payload[12:] to the link when
\* the payload is longer than 12 bytes, and the loop of ReadFrame/DATA ->
\* link.  A failed open ends Process, and with it both directions.
ServerReadFrame ==
    /\ sState # "closed" /\ up # <<>>
    /\ LET f == Head(up) IN
       /\ up' = Tail(up)
       /\ sDec' = sDec + 1
       /\ \/ /\ ~Opens(f, K, sDec)
             /\ sState' = "closed" /\ UNCHANGED <<toDest, dispatched>>
          \/ /\ Opens(f, K, sDec) /\ sState = "first"
             /\ LET h == ParseRequestHeader(PayloadBytes(f.payload)) IN
                IF ~h.ok
                THEN sState' = "closed" /\ UNCHANGED <<toDest, dispatched>>
                ELSE /\ sState' = "relay"
                     /\ dispatched' = Destination(h)
                     /\ toDest' = toDest \o
                          (IF Len(f.payload) > HeaderSkip
                           THEN SubSeq(f.payload, HeaderSkip + 1, Len(f.payload))
                           ELSE <<>>)
          \/ /\ Opens(f, K, sDec) /\ sState = "relay"
             /\ toDest' = toDest \o f.payload
             /\ UNCHANGED <<sState, dispatched>>
    /\ UNCHANGED <<linkEOF, request, cEnc, cDec, sEnc, down, upLog, downLog, toApp, cState, attacks>>

\* ReadFrame's io.ReadFull returns io.EOF once the outbound has closed the
\* connection (defer rawConn.Close() when its Process returns) and every
\* frame it wrote has been read; the error ends the inbound's Process.
ServerEOF ==
    /\ sState # "closed" /\ up = <<>> /\ cState = "closed"
    /\ sState' = "closed"
    /\ UNCHANGED <<linkEOF, request, dispatched, cEnc, cDec, sEnc, sDec, up, down, upLog, downLog, toDest,
                   toApp, cState, attacks>>

\* A ReadFrame loop that never sees the end of the connection.
ServerReceiveNoEOF == ServerReadFrame

\* The inbound's ReadFrame: a frame, or the end of the connection.
ServerReceive == ServerReadFrame \/ ServerEOF

\* inbound responseDone: each buffer from the link sealed as DATA.
ServerSend ==
    /\ sState = "relay" /\ sEnc < MaxFrames
    /\ down' = Append(down, Seal(sEnc, <<<<"down", sEnc + 1>>>>))
    /\ downLog' = Append(downLog, Seal(sEnc, <<<<"down", sEnc + 1>>>>))
    /\ sEnc' = sEnc + 1
    /\ UNCHANGED <<linkEOF, request, dispatched, cEnc, cDec, sDec, up, upLog, toDest, toApp, cState, sState, attacks>>

\* outbound responseDone: ReadFrame, DATA -> link; an error ends Process.
ClientReadFrame ==
    /\ cState = "relay" /\ down # <<>>
    /\ LET f == Head(down) IN
       /\ down' = Tail(down)
       /\ cDec' = cDec + 1
       /\ IF Opens(f, K, cDec)
          THEN toApp' = toApp \o f.payload /\ UNCHANGED cState
          ELSE cState' = "closed" /\ UNCHANGED toApp
    /\ UNCHANGED <<linkEOF, request, dispatched, cEnc, sEnc, sDec, up, upLog, downLog, toDest, sState, attacks>>

\* ReadFrame returns io.EOF once the inbound's Process has returned (the
\* inbound's caller closes the connection) and every frame has been read.
ClientEOF ==
    /\ cState = "relay" /\ down = <<>> /\ sState = "closed"
    /\ cState' = "closed"
    /\ UNCHANGED <<linkEOF, request, dispatched, cEnc, cDec, sEnc, sDec, up, down, upLog, downLog, toDest,
                   toApp, sState, attacks>>

ClientReceive == ClientReadFrame \/ ClientEOF

\* outbound requestDone: link.Reader.ReadMultiBuffer returns io.EOF when
\* the client application has finished; requestDone returns the error,
\* task.Run returns it, and Process returns, closing rawConn.
ClientLinkEOF ==
    /\ cState = "relay"
    /\ cState' = "closed" /\ linkEOF' = linkEOF \cup {"client"}
    /\ UNCHANGED <<request, dispatched, cEnc, cDec, sEnc, sDec, up, down, upLog, downLog, toDest, toApp,
                   sState, attacks>>

\* inbound responseDone: the destination's link ends; the error ends
\* task.Run (cancelling the other direction) and Process.
ServerLinkEOF ==
    /\ sState = "relay"
    /\ sState' = "closed" /\ linkEOF' = linkEOF \cup {"server"}
    /\ UNCHANGED <<request, dispatched, cEnc, cDec, sEnc, sDec, up, down, upLog, downLog, toDest, toApp,
                   cState, attacks>>

----------------------------------------------------------------------------
(* The man in the middle: drops, swaps, or puts in front of the reader a   *)
(* frame seen on the wire (a replay; from the other direction when Reflect) *)
(* or one it sealed under its own key.                                     *)

Forged == {Frame(AttKey, n, <<<<"att", n>>>>) : n \in 1..MaxFrames}
Candidates(own, other) ==
    ToSet(own) \cup (IF Reflect THEN ToSet(other) ELSE {}) \cup Forged

Tamper(w) ==
    \/ w # <<>> /\ w' = Tail(w)
    \/ Len(w) >= 2 /\ w' = <<w[2], w[1]>> \o SubSeq(w, 3, Len(w))

Attack ==
    /\ attacks < MaxAttacks
    /\ attacks' = attacks + 1
    /\ \/ Tamper(up) /\ UNCHANGED down
       \/ Tamper(down) /\ UNCHANGED up
       \/ \E f \in Candidates(upLog, downLog) : up' = <<f>> \o up /\ UNCHANGED down
       \/ \E f \in Candidates(downLog, upLog) : down' = <<f>> \o down /\ UNCHANGED up
    /\ UNCHANGED <<linkEOF, request, dispatched, cEnc, cDec, sEnc, sDec, upLog, downLog, toDest, toApp, cState, sState>>

Next ==
    \/ \E r \in Requests : ClientHeader(r)
    \/ ClientSend \/ ServerReceive \/ ServerSend \/ ClientReceive
    \/ ClientLinkEOF \/ ServerLinkEOF
    \/ Attack

\* The reading goroutine of each side keeps reading while frames or the
\* end of the connection arrive, and the outbound writes its header frame
\* right after the handshake, without waiting for its application.
Fairness ==
    /\ WF_vars(ServerReceive) /\ WF_vars(ClientReceive)
    /\ WF_vars(\E r \in Requests : ClientHeader(r))

Spec == Init /\ [][Next]_vars /\ Fairness

----------------------------------------------------------------------------
(* Properties.                                                             *)

\* The application data each encoder sealed, in order (the outbound's
\* first frame is the request header, not data).
UpData == FlattenSeq([i \in 1..(Len(upLog) - 1) |-> upLog[i + 1].payload])
DownData == FlattenSeq([i \in DOMAIN downLog |-> downLog[i].payload])

\* Upstream integrity (spec 4.3 "Ordering and replay", 4.7 step 6): the
\* destination receives a prefix of the client's application data, in
\* order and once, whatever the man in the middle drops, replays, swaps
\* or injects: the inbound decoder's counter rejects everything else.
UpstreamIntegrity == IsPrefix(toDest, UpData)

\* Without interference every DATA frame the outbound writes reaches the
\* destination: the inbound's decoder stays in step with the outbound's
\* encoder, so the relay never fails on an honest frame.
DataDelivered ==
    \A n \in 2..MaxFrames :
        (cEnc >= n /\ attacks = 0)
            ~> (attacks > 0 \/ "server" \in linkEOF \/ <<"up", n>> \in ToSet(toDest))

\* Teardown (spec 4.7 step 8): closing either the connection or a link
\* terminates the relay.  When either side's Process has returned, the
\* other side's eventually returns too, whatever the man in the middle did.
SessionTornDown ==
    /\ (sState = "closed") ~> (cState = "closed")
    /\ (cState = "closed") ~> (sState = "closed")

\* A domain of one character: its header is 6 bytes long.
ShortDomain(r) == r.family = "domain" /\ Len(r.addr) < 2

\* Spec 4.6 step 6: the inbound dispatches the connection to the
\* destination the outbound's request names (network, port and address),
\* through encodeRequestHeader, the sealed first frame, the man in the
\* middle, ReadFrame and parseRequestHeader.  The one exception is the
\* code's: a one-character domain, whose 6-byte header parseRequestHeader
\* reads without an address.
DispatchedAsRequested ==
    sState = "relay" =>
        dispatched = IF ShortDomain(request)
                     THEN [Destination(request) EXCEPT !.family = "none", !.addr = << >>]
                     ELSE Destination(request)

\* Refinement: the session is a Tunnel whose written units are the DATA
\* payloads the two encoders sealed and whose delivered units are what
\* each side wrote to its link; every step of the session is a Write, a
\* Deliver or a stutter of the tunnel.
Tun == INSTANCE Tunnel WITH
    Dirs <- {"up", "down"},
    Data <- {<<dir, n>> : dir \in {"up", "down"}, n \in 1..MaxFrames},
    sent <- [d \in {"up", "down"} |-> IF d = "up" THEN UpData ELSE DownData],
    recv <- [d \in {"up", "down"} |-> IF d = "up" THEN toDest ELSE toApp]

\* The relay implements the tunnel: whatever the man in the middle does
\* within a direction, each link receives the other side's data in order
\* and once, one frame at a time.
ImplementsTunnel == Tun!Spec
=============================================================================
