---------------------------- MODULE ReflexInbound ----------------------------
(***************************************************************************)
(* The Reflex inbound handler (proxy/reflex/inbound): Handler.Process for  *)
(* every accepted connection, up to the point where the session relay      *)
(* starts, together with the peers on the other end of those connections.  *)
(*                                                                         *)
(* Per connection: set the handshake read deadline, Peek(76), branch on    *)
(* the magic; on the Reflex branch read and check the 76-byte client       *)
(* handshake, look the user up in the shared Validator, answer with the    *)
(* server handshake, clear the deadline and read the first frame; on the   *)
(* other branch (and when the user is unknown) Peek(1024), classify the    *)
(* bytes, choose a fallback and splice the connection to it.               *)
(*                                                                         *)
(* Bytes are counted, not spelled: the peer writes "flights" (the client   *)
(* handshake, a frame, an HTTP or TLS request, noise), each a record with  *)
(* its size and the fields the server's parsers read.  consumed[c] is how  *)
(* many bytes the bufio.Reader has handed out; peeked bytes stay in it.    *)
(* Keys are abstract: a session key is the pair of public keys it was      *)
(* agreed from, which only the holder of the private key can compute.      *)
(***************************************************************************)
EXTENDS Naturals, Sequences, SequencesExt, FiniteSets

CONSTANTS
    Conns,          \* accepted connections, model values
    UserIds,        \* IDs of configured users
    Guess,          \* an ID nobody registered (a prober's random UUID)
    Emails, NoUser,
    InitialUsers,   \* Config.Clients: UserIds -> Emails \cup {NoUser}
    HonestUser,     \* HonestUser[c]: user ID of the Reflex client on c, or NoClient
    NoClient,
    Names, Alpns, Paths, Dests, NoFallback,
    Fallbacks,      \* Config.Fallbacks, a sequence of [name, alpn, path, dest]
    ProbeSizes,     \* sizes of a prober's request
    AttPub,         \* the prober's own X25519 public key
    None

Ids == UserIds \cup {Guess}

VARIABLES
    users,          \* the Validator's map
    pc,             \* where Process is for each connection
    sent,           \* sent[c]: flights the peer has written, in order
    arrived,        \* arrived[c]: how many of them have reached the server
    eof,            \* eof[c]: the peer has closed its write side
    consumed,       \* consumed[c]: bytes read out of the bufio.Reader
    deadline,       \* read deadline: "unset", "set", "expired", "cleared"
    hs,             \* hs[c]: the decoded client handshake, or None
    account,        \* account[c]: the user found by validator.Get
    toPeer,         \* toPeer[c]: what the peer has received, in order
    fwdFrom,        \* fwdFrom[c]: byte offset the fallback splice starts at
    reason,         \* reason[c]: how Process ended ("" while running)
    established     \* <<conn, user ID, client public key>> of dispatched sessions

vars == <<users, pc, sent, arrived, eof, consumed, deadline, hs, account,
          toPeer, fwdFrom, reason, established>>

V  == INSTANCE Validator WITH Ids <- Ids
FT == INSTANCE FallbackTable

HandshakeSize == 76     \* ClientHandshake: magic, pub, user ID, timestamp, nonce
PeekFallback  == 1024   \* handleFallback's Peek
FirstFrameSize == 27    \* length(2) + tag(16) + type(1) + IPv4 request header(8)

ClientPub(c) == <<"cli", c>>
ServerPub(c) == <<"srv", c>>
\* DeriveSharedKey + DeriveSessionKey: X25519 is symmetric in the two pairs.
SessionKey(pubA, pubB) == {pubA, pubB}

Flight(cls, n, id, fresh, pub, host, path, key) ==
    [cls |-> cls, n |-> n, id |-> id, fresh |-> fresh, pub |-> pub,
     host |-> host, path |-> path, key |-> key]
ClientHS(id, fresh, pub) == Flight("hs", HandshakeSize, id, fresh, pub, "", "", None)
DataFrame(key) == Flight("frame", FirstFrameSize, None, TRUE, None, "", "", key)
Request(cls, n, host, path) == Flight(cls, n, None, TRUE, None, host, path, None)

Table == FT!BuildTable(Fallbacks)

\* handleFallback's choice for every (name, alpn, path) its parsers can
\* produce, tabulated once: findFallback, then findFallback("", "", "").
Meta == [name : Names, alpn : Alpns, path : Paths]
Route == [m \in Meta |-> FT!SelectFallback(Table, m.name, m.alpn, m.path)]

ASSUME {"tls", "http/1.1"} \subseteq Alpns

----------------------------------------------------------------------------
(* The server's view of the byte stream.                                   *)

\* Total size of a sequence of flights.
RECURSIVE Bytes(_)
Bytes(fs) == IF fs = <<>> THEN 0 ELSE Head(fs).n + Bytes(Tail(fs))

ArrivedBytes(c) == Bytes(SubSeq(sent[c], 1, arrived[c]))
Avail(c) == ArrivedBytes(c) - consumed[c]
\* The peer's FIN has arrived: a read that would block returns io.EOF.
AtEOF(c) == eof[c] /\ arrived[c] = Len(sent[c])
\* The arrived flight holding byte consumed[c]+1 (flights are read whole).
NextFlight(c) ==
    LET i == CHOOSE j \in 1..arrived[c] :
                /\ Bytes(SubSeq(sent[c], 1, j)) > consumed[c]
                /\ Bytes(SubSeq(sent[c], 1, j - 1)) <= consumed[c]
    IN  sent[c][i]

\* Magic check of Process: at least 4 peeked bytes equal to ReflexMagic.
HasMagic(c) == Avail(c) >= 4 /\ NextFlight(c).cls = "hs"

\* handleFallback's classification of the peeked bytes: isTLSHandshake,
\* then isHTTPRequest, else unknown.  extractSNI needs 43 bytes; the ALPN
\* extractor is a stub, so a TLS connection always carries alpn "tls".
Classify(c) ==
    IF Avail(c) = 0 THEN [name |-> "", alpn |-> "", path |-> ""]
    ELSE LET f == NextFlight(c) IN
         CASE f.cls = "tls" /\ f.n >= 5 ->
                [name |-> IF f.n >= 43 THEN f.host ELSE "", alpn |-> "tls", path |-> ""]
           [] f.cls = "http" /\ f.n >= 4 ->
                [name |-> f.host, alpn |-> "http/1.1", path |-> f.path]
           [] OTHER -> [name |-> "", alpn |-> "", path |-> ""]

----------------------------------------------------------------------------
(* Handler.Process and handleReflexHandshake.                              *)

Init ==
    /\ users = InitialUsers @@ [id \in {Guess} |-> NoUser]
    /\ pc = [c \in Conns |-> "accept"]
    /\ sent = [c \in Conns |-> <<>>]
    /\ arrived = [c \in Conns |-> 0]
    /\ eof = [c \in Conns |-> FALSE]
    /\ consumed = [c \in Conns |-> 0]
    /\ deadline = [c \in Conns |-> "unset"]
    /\ hs = [c \in Conns |-> None]
    /\ account = [c \in Conns |-> NoUser]
    /\ toPeer = [c \in Conns |-> <<>>]
    /\ fwdFrom = [c \in Conns |-> None]
    /\ reason = [c \in Conns |-> ""]
    /\ established = {}

PeerVars == <<sent, arrived, eof>>

Close(c, why) == /\ pc' = [pc EXCEPT ![c] = "closed"]
                 /\ reason' = [reason EXCEPT ![c] = why]

\* A Process that never arms the handshake read deadline.
AcceptNoDeadline(c) ==
    /\ pc[c] = "accept"
    /\ pc' = [pc EXCEPT ![c] = "peek"]
    /\ UNCHANGED <<users, PeerVars, consumed, deadline, hs, account, toPeer,
                   fwdFrom, reason, established>>

\* Process: SetReadDeadline(now + handshake timeout).
Accept(c) ==
    /\ pc[c] = "accept"
    /\ deadline' = [deadline EXCEPT ![c] = "set"]
    /\ pc' = [pc EXCEPT ![c] = "peek"]
    /\ UNCHANGED <<users, PeerVars, consumed, hs, account, toPeer, fwdFrom,
                   reason, established>>

\* Process: reader.Peek(76) returns once 76 bytes are buffered or at EOF,
\* then the magic decides the branch.  Any other error (the deadline)
\* ends Process.
PeekMagic(c) ==
    /\ pc[c] = "peek"
    /\ \/ /\ Avail(c) >= HandshakeSize \/ AtEOF(c)
          /\ pc' = [pc EXCEPT ![c] = IF HasMagic(c) THEN "readHS" ELSE "fbPeek"]
          /\ UNCHANGED reason
       \/ /\ deadline[c] = "expired" /\ Avail(c) < HandshakeSize /\ ~AtEOF(c)
          /\ Close(c, "peekError")
    /\ UNCHANGED <<users, PeerVars, consumed, deadline, hs, account, toPeer,
                   fwdFrom, established>>

\* handleReflexHandshake: io.ReadFull of 76 bytes fails when the peer
\* closed after the magic but before 76 bytes (Peek returned io.EOF).
\* Otherwise DecodeClientHandshake and ValidateTimestamp; a stale
\* timestamp closes the connection.
ReadHandshakeShort(c) ==
    /\ pc[c] = "readHS"
    /\ Avail(c) < HandshakeSize
    /\ Close(c, "readError")
    /\ UNCHANGED <<users, PeerVars, consumed, deadline, hs, account, toPeer, fwdFrom,
                   established>>
\* A read that takes the 76 bytes without checking how many arrived.
ReadHandshakeUnchecked(c) ==
    /\ pc[c] = "readHS"
    /\ LET f == NextFlight(c) IN
       /\ consumed' = [consumed EXCEPT ![c] = @ + HandshakeSize]
       /\ hs' = [hs EXCEPT ![c] = f]
       /\ IF f.fresh THEN pc' = [pc EXCEPT ![c] = "auth"] /\ UNCHANGED reason
                     ELSE Close(c, "badTimestamp")
    /\ UNCHANGED <<users, PeerVars, deadline, account, toPeer, fwdFrom, established>>

ReadHandshake(c) ==
    /\ pc[c] = "readHS"
    /\ Avail(c) >= HandshakeSize
    /\ LET f == NextFlight(c) IN
       /\ consumed' = [consumed EXCEPT ![c] = @ + HandshakeSize]
       /\ hs' = [hs EXCEPT ![c] = f]
       /\ IF f.fresh THEN pc' = [pc EXCEPT ![c] = "auth"] /\ UNCHANGED reason
                     ELSE Close(c, "badTimestamp")
    /\ UNCHANGED <<users, PeerVars, deadline, account, toPeer, fwdFrom, established>>

\* handleReflexHandshake: validator.Get; an unknown user goes to
\* handleFallback with the same reader.  Otherwise generate the server key
\* pair, derive the keys, write the 40-byte server handshake and clear the
\* read deadline.
Authenticate(c) ==
    /\ pc[c] = "auth"
    /\ account' = [account EXCEPT ![c] = V!Get(hs[c].id)]
    /\ IF V!Get(hs[c].id) = NoUser
       THEN /\ pc' = [pc EXCEPT ![c] = "fbPeek"]
            /\ UNCHANGED <<deadline, toPeer>>
       ELSE /\ toPeer' = [toPeer EXCEPT ![c] = Append(@, [kind |-> "shs", pub |-> ServerPub(c)])]
            /\ deadline' = [deadline EXCEPT ![c] = "cleared"]
            /\ pc' = [pc EXCEPT ![c] = "firstFrame"]
    /\ UNCHANGED <<users, PeerVars, consumed, hs, fwdFrom, reason, established>>

\* A first-frame read that waits until a whole read buffer is in.
ReadFirstFrameFullBuffer(c) ==
    /\ pc[c] = "firstFrame"
    /\ \/ /\ Avail(c) >= PeekFallback
          /\ consumed' = [consumed EXCEPT ![c] = @ + NextFlight(c).n]
          /\ pc' = [pc EXCEPT ![c] = "relay"]
          /\ established' = established \cup {<<c, hs[c].id, hs[c].pub>>}
          /\ UNCHANGED reason
       \/ /\ Avail(c) < PeekFallback /\ AtEOF(c)
          /\ Close(c, "frameError")
          /\ UNCHANGED <<consumed, established>>
    /\ UNCHANGED <<users, PeerVars, deadline, hs, account, toPeer, fwdFrom>>

\* handleReflexHandshake: frameDecoder.ReadFrame blocks (no deadline) for
\* the first frame; it must open under this connection's session key; then
\* parseRequestHeader and dispatcher.Dispatch.  EOF, a failed open or a
\* failed dispatch end Process.
ReadFirstFrame(c) ==
    /\ pc[c] = "firstFrame"
    /\ \/ /\ Avail(c) > 0
          /\ LET f == NextFlight(c)
                 ok == f.cls = "frame" /\ f.key = SessionKey(hs[c].pub, ServerPub(c))
             IN /\ consumed' = [consumed EXCEPT ![c] = @ + f.n]
                /\ \/ /\ ok
                      /\ pc' = [pc EXCEPT ![c] = "relay"]
                      /\ established' = established \cup {<<c, hs[c].id, hs[c].pub>>}
                      /\ UNCHANGED reason
                   \/ /\ Close(c, IF ok THEN "dispatchError" ELSE "frameError")
                      /\ UNCHANGED established
       \/ /\ Avail(c) = 0 /\ AtEOF(c)
          /\ Close(c, "frameError")
          /\ UNCHANGED <<consumed, established>>
    /\ UNCHANGED <<users, PeerVars, deadline, hs, account, toPeer, fwdFrom>>

\* The relay (task.Run of requestDone/responseDone) runs until the client's
\* stream ends; its frame-level behaviour is ReflexSession's.
RelayEnd(c) ==
    /\ pc[c] = "relay"
    /\ AtEOF(c)
    /\ Close(c, "relayEnd")
    /\ UNCHANGED <<users, PeerVars, consumed, deadline, hs, account, toPeer,
                   fwdFrom, established>>

----------------------------------------------------------------------------
(* handleFallback.                                                         *)

\* reader.Peek(1024) (the handshake deadline is still set), classify, then
\* findFallback(name, alpn, path) and findFallback("", "", "").
FallbackPeek(c) ==
    /\ pc[c] = "fbPeek"
    /\ \/ /\ Avail(c) >= PeekFallback \/ AtEOF(c)
          /\ LET m == Classify(c) IN
             IF Route[m] = NoFallback
             THEN Close(c, "noFallback")
             ELSE pc' = [pc EXCEPT ![c] = "fbDial"] /\ UNCHANGED reason
       \/ /\ deadline[c] = "expired" /\ Avail(c) < PeekFallback /\ ~AtEOF(c)
          /\ Close(c, "fbPeekError")
    /\ UNCHANGED <<users, PeerVars, consumed, deadline, hs, account, toPeer,
                   fwdFrom, established>>

\* net.Dial to the chosen dest; on success io.Copy both ways between the
\* preloadedConn (buffered bytes first) and the back-end.
FallbackDial(c) ==
    /\ pc[c] = "fbDial"
    /\ \/ /\ pc' = [pc EXCEPT ![c] = "splice"]
          /\ fwdFrom' = [fwdFrom EXCEPT ![c] = consumed[c]]
          /\ UNCHANGED reason
       \/ /\ Close(c, "dialFailed")
          /\ UNCHANGED fwdFrom
    /\ UNCHANGED <<users, PeerVars, consumed, deadline, hs, account, toPeer, established>>

\* The back-end answers what it was forwarded.
BackendRespond(c) ==
    /\ pc[c] = "splice"
    /\ ArrivedBytes(c) > fwdFrom[c]
    /\ \A i \in DOMAIN toPeer[c] : toPeer[c][i].kind # "web"
    /\ toPeer' = [toPeer EXCEPT ![c] = Append(@, [kind |-> "web", pub |-> None])]
    /\ UNCHANGED <<users, pc, PeerVars, consumed, deadline, hs, account, fwdFrom,
                   reason, established>>

\* handleFallback returns when the first io.Copy ends: the peer's EOF, the
\* back-end closing, or a read error on the client side, which the still
\* armed handshake deadline produces once it has passed.
SpliceEnd(c) ==
    /\ pc[c] = "splice"
    /\ \/ AtEOF(c) /\ Close(c, "spliceEnd")
       \/ Close(c, "backendClosed")
       \/ deadline[c] = "expired" /\ Close(c, "spliceDeadline")
    /\ UNCHANGED <<users, PeerVars, consumed, deadline, hs, account, toPeer,
                   fwdFrom, established>>

----------------------------------------------------------------------------
(* Environment: the peers, the network and the timer.                     *)

FlightsOn(c) == {sent[c][i] : i \in 1..Len(sent[c])}
HonestFlights == UNION {FlightsOn(c) : c \in {d \in Conns : HonestUser[d] # NoClient}}
SeenFlights == UNION {FlightsOn(c) : c \in Conns}
\* IDs a passive observer has read off the wire in honest handshakes.
LeakedIds == {f.id : f \in {g \in HonestFlights : g.cls = "hs"}}

ServerPubs(c) == {toPeer[c][i].pub : i \in {j \in DOMAIN toPeer[c] : toPeer[c][j].kind = "shs"}}

\* The Reflex outbound: client handshake (its clock may be skewed), then,
\* once the server handshake is in, the first DATA frame under the derived key.
ClientHello(c) ==
    /\ HonestUser[c] # NoClient /\ sent[c] = <<>> /\ ~eof[c]
    /\ \E fresh \in BOOLEAN :
          sent' = [sent EXCEPT ![c] = <<ClientHS(HonestUser[c], fresh, ClientPub(c))>>]
    /\ UNCHANGED <<arrived, eof>>

ClientRequest(c) ==
    /\ HonestUser[c] # NoClient /\ Len(sent[c]) = 1 /\ ~eof[c]
    /\ \E sp \in ServerPubs(c) :
          sent' = [sent EXCEPT ![c] = Append(@, DataFrame(SessionKey(ClientPub(c), sp)))]
    /\ UNCHANGED <<arrived, eof>>

\* An active prober: a web or TLS request, noise, a client handshake with a
\* random or an observed user ID under its own key, or a replay of any
\* flight seen on the wire.
ProbeFlights ==
    {Request(cls, n, h, p) : cls \in {"http", "tls", "other"}, n \in ProbeSizes,
                             h \in Names \ {""}, p \in Paths \ {""}}
    \cup {ClientHS(id, TRUE, AttPub) : id \in LeakedIds \cup {Guess}}
    \cup {[ClientHS(Guess, TRUE, AttPub) EXCEPT !.n = n] :
            n \in {m \in ProbeSizes : m < HandshakeSize}}
    \cup SeenFlights

Probe(c) ==
    /\ HonestUser[c] = NoClient /\ sent[c] = <<>> /\ ~eof[c]
    /\ \E f \in ProbeFlights : sent' = [sent EXCEPT ![c] = <<f>>]
    /\ UNCHANGED <<arrived, eof>>

\* Having been answered, the prober sends a frame under the key it can
\* derive (its own handshake) or replays a frame seen on the wire.
ProbeFrame(c) ==
    /\ HonestUser[c] = NoClient /\ Len(sent[c]) = 1 /\ ~eof[c]
    /\ \E sp \in ServerPubs(c) :
          \E f \in (IF sent[c][1].pub = AttPub THEN {DataFrame(SessionKey(AttPub, sp))}
                    ELSE {})
                   \cup {g \in SeenFlights : g.cls = "frame"} :
             sent' = [sent EXCEPT ![c] = Append(@, f)]
    /\ UNCHANGED <<arrived, eof>>

PeerClose(c) ==
    /\ ~eof[c]
    /\ eof' = [eof EXCEPT ![c] = TRUE]
    /\ UNCHANGED <<sent, arrived>>

PeerStep(c) ==
    /\ \/ ClientHello(c) \/ ClientRequest(c) \/ Probe(c) \/ ProbeFrame(c)
       \/ PeerClose(c)
    /\ UNCHANGED <<users, pc, consumed, deadline, hs, account, toPeer, fwdFrom,
                   reason, established>>

\* TCP delivers the next flight.
Deliver(c) ==
    /\ arrived[c] < Len(sent[c])
    /\ arrived' = [arrived EXCEPT ![c] = @ + 1]
    /\ UNCHANGED <<users, pc, sent, eof, consumed, deadline, hs, account, toPeer,
                   fwdFrom, reason, established>>

\* The handshake read deadline passes.
DeadlineFires(c) ==
    /\ deadline[c] = "set"
    /\ deadline' = [deadline EXCEPT ![c] = "expired"]
    /\ UNCHANGED <<users, pc, PeerVars, consumed, hs, account, toPeer, fwdFrom,
                   reason, established>>

Server(c) ==
    \/ Accept(c) \/ PeekMagic(c) \/ ReadHandshakeShort(c) \/ ReadHandshake(c)
    \/ Authenticate(c)
    \/ ReadFirstFrame(c) \/ RelayEnd(c) \/ FallbackPeek(c) \/ FallbackDial(c)
    \/ BackendRespond(c) \/ SpliceEnd(c)

Done == /\ \A c \in Conns : pc[c] = "closed" /\ eof[c] /\ arrived[c] = Len(sent[c])
        /\ UNCHANGED vars

Next ==
    \/ \E c \in Conns : Server(c) \/ PeerStep(c) \/ Deliver(c) \/ DeadlineFires(c)
    \/ Done

\* Each connection has its own goroutine; the network delivers what was
\* sent and the deadline timer fires.  Peers owe nothing.
Fairness ==
    \A c \in Conns : /\ WF_vars(Server(c))
                     /\ WF_vars(Deliver(c))
                     /\ WF_vars(DeadlineFires(c))

Spec == Init /\ [][Next]_vars /\ Fairness

----------------------------------------------------------------------------
(* Properties.                                                             *)

States == {"accept", "peek", "readHS", "auth", "firstFrame", "relay",
           "fbPeek", "fbDial", "splice", "closed"}

TypeOK ==
    /\ V!TypeOK
    /\ pc \in [Conns -> States]
    /\ arrived \in [Conns -> Nat] /\ consumed \in [Conns -> Nat]
    /\ \A c \in Conns : arrived[c] <= Len(sent[c]) /\ consumed[c] <= ArrivedBytes(c)
    /\ eof \in [Conns -> BOOLEAN]
    /\ deadline \in [Conns -> {"unset", "set", "expired", "cleared"}]
    /\ account \in [Conns -> Emails \cup {NoUser}]
    /\ fwdFrom \in [Conns -> Nat \cup {None}]
    /\ established \subseteq Conns \X Ids \X ({ClientPub(c) : c \in Conns} \cup {AttPub})

PreAuth == {"accept", "peek", "readHS", "auth", "fbPeek", "fbDial"}

\* The handshake deadline bounds the unauthenticated phase (Process,
\* handleFallback's Peek): every connection leaves it, however the peer
\* behaves, so a silent peer cannot hold a handler goroutine forever.
HandshakePhaseBounded == \A c \in Conns : pc[c] \in PreAuth ~> pc[c] \notin PreAuth

\* Fallback transparency (spec 4.6): the back-end receives the connection's
\* byte stream from its first byte ("peeked bytes MUST be delivered to the
\* back-end"), including on the unknown-user path of handleReflexHandshake.
FallbackGetsWholeStream ==
    \A c \in Conns : fwdFrom[c] # None => fwdFrom[c] = 0

\* A fallback connection, once spliced, ends only when the peer or the
\* back-end ends it: handleFallback's io.Copy goroutines are never cut by
\* the handshake read deadline armed in Process while the peer is still
\* connected (has not sent its FIN).
FallbackNotCutByDeadline ==
    [][\A c \in Conns :
         pc[c] = "splice" /\ reason'[c] = "spliceDeadline" => eof[c]]_vars

\* An honest client whose handshake the server answered, and whose first
\* DATA frame is on its way, gets its session dispatched (or Dispatch
\* itself fails): handleReflexHandshake's blocking ReadFrame returns once
\* that frame is in, whatever the other connection and the network do.
HonestSessionDispatched ==
    \A c \in Conns :
        HonestUser[c] # NoClient =>
            ((pc[c] = "firstFrame" /\ Len(sent[c]) = 2)
               ~> (reason[c] = "dispatchError" \/ \E s \in established : s[1] = c))

\* Authentication (spec 4.7 AuthUser): every dispatched session was agreed
\* with the key pair of a client that holds that user's credentials.
SessionsAuthentic ==
    \A s \in established :
        \E d \in Conns : HonestUser[d] = s[2] /\ s[3] = ClientPub(d)
=============================================================================
