--------------------------- MODULE MC_FallbackTable ---------------------------
(***************************************************************************)
(* Checks findFallback against the lookup the specification states (P8):  *)
(* the configured entry that matches the request on every non-wildcard     *)
(* level and is the most specific one, exact name before exact ALPN before *)
(* exact path.  Every configuration of up to MaxEntries entries over small *)
(* name/ALPN/path sets is built as New builds it, then looked up with every *)
(* request the classifier can produce.  The lookup is also composed with  *)
(* the TLS classifier: an honest client's ClientHello is peeked,           *)
(* classified and looked up, as handleFallback does.                       *)
(***************************************************************************)
EXTENDS FallbackTable, FiniteSets, TLC

CONSTANTS
    MaxEntries, NoQuery, PeekLen,
    HelloTableMax,  \* hellos are routed against tables of at most this many entries
    SidLens,        \* session ID lengths clients send
    SuitesLens,     \* cipher-suite list lengths, in bytes
    KeyShareLens,   \* key_share extension sizes (X25519MLKEM768: about 1250)
    ExtOrders,      \* extension orders, over "sni" and "ks" (key_share)
    HostBytes       \* the bytes of each server name clients send

TLS == INSTANCE TlsClassifier

\* The server names of the run, "a" and "b", as ASCII.
MCHostBytes == ("a" :> <<97>>) @@ ("b" :> <<98>>)

\* SNI before the key share, after it, and no SNI (a client dialling an IP).
MCExtOrders == {<<"sni", "ks">>, <<"ks", "sni">>, <<"ks">>}

\* The order of a client that puts the key share first (extension order is
\* randomised by current browsers).
MCExtOrdersKeyShareFirst == {<<"ks", "sni">>}

VARIABLES
    cfg,        \* the configured fallback list (Config.Fallbacks)
    query,      \* the (name, alpn, path) of the last handleFallback lookup
    result,     \* the dest it selected, or NoFallback
    hello       \* the ClientHello behind the last lookup, or NoQuery

vars == <<cfg, query, result, hello>>

Keys == Names \X Alpns \X Paths

\* A configuration: entry i has dest i, so the selected dest names the entry.
Configs ==
    UNION {{[i \in 1..n |-> [name |-> ks[i][1], alpn |-> ks[i][2],
                             path |-> ks[i][3], dest |-> i]]
            : ks \in [1..n -> Keys]} : n \in 0..MaxEntries}

\* The ClientHellos of honest clients; a client that closed its write side
\* after the hello lets Peek return early with io.EOF.
Hellos == [sid : SidLens, suites : SuitesLens, ks : KeyShareLens,
           order : ExtOrders, name : DOMAIN HostBytes, closed : BOOLEAN]

SentName(h) == IF \E i \in DOMAIN h.order : h.order[i] = "sni" THEN h.name ELSE ""

Extension(h, kind) ==
    IF kind = "sni" THEN [type |-> TLS!SniExtType, body |-> TLS!SniBody(HostBytes[h.name])]
    ELSE [type |-> 51, body |-> TLS!Fill(h.ks, 7)]

Bytes(h) == TLS!HelloBytes(h.sid, h.suites,
                           [i \in DOMAIN h.order |-> Extension(h, h.order[i])])

\* string(bytes): the configured name with these bytes ("?" for any other).
NameOf(bs) ==
    IF bs = <<>> THEN ""
    ELSE IF \E n \in DOMAIN HostBytes : HostBytes[n] = bs
         THEN CHOOSE n \in DOMAIN HostBytes : HostBytes[n] = bs
         ELSE "?"

\* handleFallback up to findFallback for each hello: Peek(1024), then the
\* TLS branch of the classification (isTLSHandshake is checked first), or
\* NoQuery when Peek fails.  Computed once per hello.
HelloQuery ==
    [h \in Hellos |->
        IF ~TLS!PeekOk(Bytes(h), h.closed) THEN NoQuery
        ELSE LET d == TLS!Peek(Bytes(h)) IN
             IF TLS!IsTLSHandshake(d)
             THEN LET q == TLS!TlsQuery(d) IN <<NameOf(q[1]), q[2], q[3]>>
             ELSE <<"", "", "">>]

Init ==
    /\ cfg \in Configs
    /\ query = NoQuery
    /\ result = NoFallback
    /\ hello = NoQuery

\* handleFallback's table lookup for one classified connection.
Lookup(name, alpn, path) ==
    /\ query' = <<name, alpn, path>>
    /\ result' = SelectFallback(BuildTable(cfg), name, alpn, path)
    /\ hello' = NoQuery
    /\ UNCHANGED cfg

\* handleFallback for a connection whose first flight is the ClientHello h:
\* peek, classify, look up; a failed Peek returns before the lookup.
RouteHello(h) ==
    /\ Len(cfg) <= HelloTableMax
    /\ hello' = h
    /\ query' = HelloQuery[h]
    /\ result' = IF HelloQuery[h] = NoQuery THEN NoFallback
                 ELSE SelectFallback(BuildTable(cfg), HelloQuery[h][1],
                                     HelloQuery[h][2], HelloQuery[h][3])
    /\ UNCHANGED cfg

Next == (\E q \in Keys : Lookup(q[1], q[2], q[3])) \/ (\E h \in Hellos : RouteHello(h))

Spec == Init /\ [][Next]_vars

\* Reference: the configured keys that match the request level by level
\* (equal, or the "" wildcard), ranked exact-name > exact-alpn > exact-path.
Matching(t, q) == {k \in DOMAIN t : \A i \in 1..3 : k[i] \in {q[i], ""}}
Rank(k, q) == (IF k[1] = q[1] THEN 4 ELSE 0) + (IF k[2] = q[2] THEN 2 ELSE 0)
              + (IF k[3] = q[3] THEN 1 ELSE 0)
MostSpecific(t, q) ==
    IF Matching(t, q) = {} THEN NoFallback
    ELSE t[CHOOSE k \in Matching(t, q) :
              \A k2 \in Matching(t, q) : Rank(k, q) >= Rank(k2, q)]

\* The fallback handleFallback forwards a connection to is the most specific
\* configured entry for the connection's name, ALPN and path, taking the
\* last of several entries configured with the same key (P8).
LookupIsMostSpecific ==
    query # NoQuery => result = MostSpecific(BuildTable(cfg), query)

\* Reference: the offset just past the server_name extension in the bytes
\* of hello h, from its fields (5 + 4 + 2 + 32 bytes of headers, version
\* and random, the session ID, the suites, the compression method, the
\* extensions length, then every extension up to the SNI).
ExtSize(h, kind) == 4 + (IF kind = "sni" THEN 5 + Len(HostBytes[h.name]) ELSE h.ks)
SniEnd(h) ==
    LET j == CHOOSE i \in DOMAIN h.order : h.order[i] = "sni"
    IN  FoldLeft(LAMBDA acc, k : acc + ExtSize(h, k),
                 43 + 1 + h.sid + 2 + h.suites + 2 + 2, SubSeq(h.order, 1, j))

\* handleFallback routes a TLS connection by the server name its client
\* sent exactly when the whole server_name extension lies within the bytes
\* Peek(1024) returned, and by the wildcard name otherwise: extractSNI's
\* walk neither misreads a name nor misses one it could read.
SniReadWithinPeek ==
    hello # NoQuery /\ query # NoQuery =>
        query[1] = IF SentName(hello) # "" /\ SniEnd(hello) <= PeekLen
                   THEN SentName(hello) ELSE ""

\* Spec 4.6 / P8: the demultiplexer routes a TLS connection by its SNI:
\* the lookup handleFallback makes for an honest client's ClientHello uses
\* the server name the client sent.
RoutedBySni ==
    hello # NoQuery => query # NoQuery /\ query[1] = SentName(hello)
=============================================================================
