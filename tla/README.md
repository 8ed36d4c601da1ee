# TLA+ models of the Reflex proxy protocol

This directory holds TLA+ models of the Reflex protocol implementation in
`src/xray-core/proxy/reflex` and `src/unnamed/part_00*`. It also holds the
TLC configurations that check those models. `PROJECT.json` lists the
components, the runs, the mutants, the map from each definition to the Go
lines it models, the findings and the hazards.

## 1. The system

Reflex is an Xray proxy protocol. A client-side **outbound** connects to a
server-side **inbound**. The two run a one-round handshake, then exchange
AEAD-encrypted frames. Connections that are not Reflex go to a web server
("fallback"), so a prober sees an ordinary website.

| Part | Source | State | Operations |
|---|---|---|---|
| User validator | `validator.go` | `users: map[[16]byte]*MemoryUser` under a `sync.RWMutex` | `Add`, `Get`, `GetByUUID`, `Remove` |
| Fallback table | `inbound/inbound.go` `New`, `inbound/conn.go` `findFallback` | `fallbacks[name][alpn][path]`, built once | lookup |
| Inbound handler | `inbound/inbound.go` `Process`, `handleReflexHandshake`; `inbound/conn.go` `handleFallback`, `preloadedConn` | per connection: the `bufio.Reader`, the read deadline, the decoded handshake, the session key | accept, peek, read handshake, authenticate, answer, read first frame, dispatch, relay; or peek, classify, look up, dial, splice |
| Handshake codec | `encoding/handshake.go` | none (pure) | key pair, X25519 + HKDF, encode/decode the 76-byte client and 40-byte server handshakes, `ValidateTimestamp` |
| Frame codec | `encoding/frame.go` | per direction: AEAD, 64-bit nonce counter (`writeNonce`/`readNonce`) | `Encode`, `EncodeToWriter`, `Decode`, `ReadFrame`, `WriteFrameWithMorphing` |
| Outbound handler | `unnamed/part_005` | per connection: the same codec state | dial, send the handshake, one `Read` of the answer, derive keys, send the request header, relay |
| Traffic morphing | `unnamed/part_002` (lines 104–286) | profiles with weighted size and delay tables | `GetPacketSize`, `GetDelay`, `AddPadding` |
| Buffer pools | `unnamed/part_003` | `sync.Pool`s of frame and handshake buffers | get/put |
| Config and account | `account.go`, `inbound/config.go`, `unnamed/part_006` | plain data | none |

**How the parts interact.** Every accepted TCP connection runs
`Handler.Process` in its own goroutine. These goroutines share two
structures:
- the validator, filled by `New` from the configured clients and only read
  afterwards (`Remove` has no caller);
- the fallback table, which is read-only after `New`.

`Process` performs these steps in order:
1. It arms a read deadline.
2. It calls `Peek(76)` and branches on the 4-byte magic.
3. On the Reflex branch it reads the handshake, checks the timestamp and
   looks up the user. An unknown user goes to `handleFallback`.
4. It writes the server handshake and clears the deadline.
5. It reads the first frame, parses the request header and dispatches.
6. It relays frames in two goroutines until one of them ends.

`handleFallback` runs on the fallback branch:
1. It calls `Peek(1024)`.
2. It classifies the bytes as TLS (SNI), HTTP (Host, path) or unknown.
3. It calls `findFallback`, then tries `("", "", "")`.
4. It dials the chosen destination.
5. It splices the two connections with `io.Copy` both ways. The peeked
   bytes stay buffered in the reader.

**Behaviours that make the code hard to test:**
- blocking peeks racing a deadline;
- peers that send short requests and then wait;
- peers that close early;
- active probers that replay or forge handshakes from what they observed;
- two relay goroutines sharing a session key;
- integer widths in the timestamp check and in the frame length.

**What should hold, per part:**
- fallback: the most specific entry is chosen, and the back-end sees the
  whole byte stream;
- inbound:
  - an honest client whose handshake was answered gets its session;
  - no connection stays unauthenticated forever;
  - short probes reach the fallback;
  - dispatched sessions belong to the user's key holder;
- frames: every frame is delivered once, in order, and reflection and
  replay are rejected;
- outbound: the session key comes from the server's real answer.
- request header: the inbound dispatches to the target the outbound named.

## 2. Modules

### `Validator` (validator.go)
- **State:** `users`, a function from IDs to e-mail or `NoUser`. A user
  record is reduced to the e-mail.
- **Operations:** each one is a single atomic step, because each holds the
  mutex for its whole body.
  - `Add` overwrites the entry for its ID.
  - `Get` returns the entry.

`Add` runs only in the inbound's `New`, over the configured clients, so
`ReflexInbound` starts from those users (`InitialUsers`) and its
connections only `Get`. `Remove` is called by no handler and is left out.

### `FallbackTable` (inbound.go `New`, conn.go `findFallback`, `handleFallback`)
- `BuildTable` turns the configured list into the table `New` builds. When
  several entries share a `<<name, alpn, path>>` key, the last one wins.
- `LookupOrder` is the order of `findFallback`'s nested `if`s.
- `FindFallback` takes the first key of that order that is present.
- `SelectFallback` adds `handleFallback`'s retry with the default key.

`MC_FallbackTable` checks these definitions against an independent
reference, `MostSpecific`. It builds every configuration of up to three
entries over the names `{"", a, b}`, the ALPNs `{"", tls}` and the paths
`{"", /p}`, then looks each one up with every request.

`MC_FallbackTable` also composes the lookup with `TlsClassifier`.
`RouteHello(h)` is `handleFallback` for a connection whose first flight is
an honest ClientHello `h`. It peeks, classifies and looks up the result.
The hellos vary in the fields `extractSNI` skips or walks over:
- the session ID length (0 or 32);
- the cipher-suite bytes (2 or 32);
- the key_share size (36 for X25519, 1250 for X25519MLKEM768);
- the extension order (SNI first, key share first, or no SNI);
- the server name (`a` or `b`);
- whether the client closed after the hello, which lets `Peek` return
  early with `io.EOF`.

### `TlsClassifier` (conn.go, `handleFallback`'s peek and TLS branch)

| Definition | Code |
|---|---|
| `HelloBytes` | the bytes of a ClientHello: record and handshake headers, version, random, session ID, suites, compression, extensions |
| `PeekOk`, `Peek` | `reader.Peek(1024)`: at least 1024 bytes, or fewer only with `io.EOF`; any other error returns |
| `IsTLSHandshake` | `isTLSHandshake` |
| `ExtractSNI`, `WalkExtensions`, `SniFromExt` | `extractSNI`: each skip behind its bounds check, then the extension loop and the type-0 branch, on 0-based positions (`Byte(d, i)` is `data[i]`) |
| `TlsQuery` | the TLS branch: `extractSNI`, and `extractALPN` (always `""`) replaced by `"tls"` |

`SniEnd` is an independent reference. It computes, from the hello's
fields, where the server_name extension ends.

### `ReflexInbound` (inbound.go, conn.go, and the peers)
This module composes the inbound handler for a set `Conns` of connections,
the shared `Validator` (by `INSTANCE`) and the `FallbackTable` (by
`INSTANCE`). The environment is modelled as well:
- the peers: honest Reflex clients, written from the outbound's handshake
  code, and active probers;
- the network;
- the deadline timer.

**Bytes.** A peer writes *flights*. A flight is a client handshake, a
frame, an HTTP, TLS or unknown request, or a truncated handshake. Each
flight is a record with its size and the fields the server's parsers read.
`arrived[c]` counts the delivered flights. `consumed[c]` counts the bytes
the `bufio.Reader` has handed out. Peeked bytes are not consumed. That is
how `preloadedConn` replays them, and how the model sees that
`io.ReadFull` took them away.

**Keys.** A session key is the set of the two public keys it was agreed
from: X25519 gives both sides the same secret, and only a private-key
holder can compute it. A frame opens only under an equal key.

**Server actions**, one per step of `Process`, each with the code's guards
and error returns:

| Action | What it models |
|---|---|
| `Accept` | `SetReadDeadline` |
| `PeekMagic` | `Peek(76)` returns on 76 bytes or EOF, or fails at the deadline; then the magic decides the branch |
| `ReadHandshakeShort` | `io.ReadFull` fails |
| `ReadHandshake` | decode and timestamp check |
| `Authenticate` | `validator.Get`; an unknown user goes to the fallback; otherwise the server handshake is written and the deadline cleared |
| `ReadFirstFrame` | open, parse, dispatch |
| `RelayEnd` | the session relay, as one step |
| `FallbackPeek` | `Peek(1024)`, classification, lookup |
| `FallbackDial` | dial the destination |
| `BackendRespond` | the back-end answers |
| `SpliceEnd` | the first `io.Copy` to return |

The deadline is a four-valued variable: `unset`, `set`, `expired`,
`cleared`.

**Environment actions:**

| Action | What it models |
|---|---|
| `ClientHello`, `ClientRequest` | the outbound's handshake and first frame; the clock may be skewed, giving a stale timestamp |
| `Probe`, `ProbeFrame` | a prober sends any request or a truncated handshake, forges a handshake with a guessed ID or an ID seen on the wire (under its own key), or replays any flight seen on the wire |
| `PeerClose` | the peer closes |
| `Deliver` | the network delivers a flight |
| `DeadlineFires` | the deadline passes |

### `OutboundHandshake` (outbound `Process`, pool.go)

Concurrent outbound connections read the 40-byte server handshake into
buffers of the shared `serverHandshakePool`.

| Variable / action | Code |
|---|---|
| `pool`, `alloc`, `buf` | the `sync.Pool` of 40-byte buffers; a buffer from `New` is zeroed |
| `GetBuffer(c)` | `GetServerHandshakeBuffer`: a pooled buffer, or a new one (the pool may drop entries at any time) |
| `Deliver(c)` | the server's one 40-byte `conn.Write` reaching the socket, in one segment (`WholeFlight`) or in several |
| `Read(c)` | `rawConn.Read(responseData)`: copies what has arrived and discards the count |
| `Decode(c)` | `DecodeServerHandshake`: the key is bytes 0..31 of the buffer |
| `Finish(c)` | the deferred `PutServerHandshakeBuffer` |

A handshake is `HsLen` tokens `<<c, j>>`, and the first `KeyLen` of them
are the key. The code has 40 and 32; the run uses 4 and 3.

### `Morphing` (morphing.go, `WriteFrameWithMorphing`)

| Definition / action | Code |
|---|---|
| `YouTubeProfile`, `ZoomProfile`, `HTTP2APIProfile` | the three profiles, with weights in hundredths |
| `PickFrom`, `GetPacketSize`, `GetDelay` | the cumulative-weight loop, with the fall-through to the last entry |
| `GetProfileByName`, `NewMorphingConfig`, `Morphs` | the profile choice, and the plain-`WriteFrame` test at the top of `WriteFrameWithMorphing` |
| `AddPadding` | truncate to the target, or pad up to it |
| `Submit(len)` | a caller handing one DATA frame to `WriteFrameWithMorphing` (a plain `WriteFrame` when morphing is off); no handler calls it yet |
| `MorphStep` | one level of the recursion: sample a size, split off the head or pad the rest, write, sleep |

`rand.Float64()` is one of 100 midpoints `(2r+1)/200`, so every sample
falls strictly inside one weight interval. A frame is the interval of data
bytes it carries plus a count of pad bytes.

### `FrameStream` (frame.go, byte level)

One direction of a session, as bytes:
- `Write(n)` is `EncodeToWriter`: it writes `[uint16 length][ciphertext]`.
  Byte `j` of the ciphertext sealed with nonce `k` is the token `<<k, j>>`.
- `Deliver` hands the reader any longer prefix of the written bytes. This
  is TCP segmentation.
- `ReadFrame` is the decoder's two `io.ReadFull` calls, the zero-length
  error, and `Decode`.
- `DecodeOk` models `Decode`: the length checks, and an AEAD open that
  succeeds only on the whole ciphertext sealed with the decoder's next
  nonce.

A byte has `ByteBits` bits, so the length header wraps at
`2^(2*ByteBits)`.

### `Tunnel` (abstract)

This is what a Reflex session promises its two links. Per direction it
keeps a sequence `sent` of data and the prefix `recv` delivered so far.
`Write` appends to `sent`, and `Deliver` hands over the next element.
`ReflexSession` maps `UpData`/`DownData` to `sent` and `toDest`/`toApp`
to `recv`. The `session` run checks `ImplementsTunnel == Tun!Spec` as a
property.

### `RequestHeader` (outbound `encodeRequestHeader`, inbound `parseRequestHeader`)

A request is a record of command (1 TCP, 2 UDP), port and address
(family and bytes).

| Definition | Code |
|---|---|
| `EncodeRequestHeader` | `encodeRequestHeader`: command, big-endian port, type byte 1/4/3, the address (a domain after `byte(len(domain))`) |
| `ParseRequestHeader` | `parseRequestHeader`: under 4 bytes an error; command and port; the address only when the payload has at least 7 bytes, by type, each behind its length check; an unknown type is an error |
| `Destination` | `request.Destination()`, handed to `Dispatch`: UDP for the UDP command, TCP otherwise |

### `ReflexSession` (frame.go, the relay of inbound.go and the outbound)

The session after the handshake, with a man in the middle on the wire.

| Variable / action | Code |
|---|---|
| `cEnc`, `cDec`, `sEnc`, `sDec` | the `counter` of the outbound's and the inbound's `FrameEncoder`/`FrameDecoder`, all created from the one session key |
| `up`, `down` | the TCP byte stream in each direction, as a sequence of frames |
| `Seal` | `EncodeToWriter`: `counter++`, seal with nonce = counter |
| `Opens` | `ReadFrame`: `counter++`, `aead.Open` with nonce = counter; abstracted to "same key and same nonce" |
| `request`, `ClientHeader(r)` | the outbound's `protocol.RequestHeader` for its target, sent as the first frame: `EncodeRequestHeader(r)`, 8 bytes (IPv4), 20 (IPv6) or 5+len (domain) |
| `ClientSend`, `ClientReceive` | the outbound's `requestDone` / `responseDone` loops |
| `dispatched`, `ServerReceive` | the inbound's first `ReadFrame`, `ParseRequestHeader` of its bytes (an error ends `Process`), `Dispatch(request.Destination())`, the 12-byte skip in `requestDone`, then its `ReadFrame` loop |
| `ServerSend` | the inbound's `responseDone` |
| `ServerEOF`, `ClientEOF` | `ReadFrame` returning `io.EOF` once the peer's `Process` has returned and its connection is closed; the loop returns the error. `ServerReceive` and `ClientReceive` are a frame or the EOF |
| `ClientLinkEOF`, `ServerLinkEOF` | `link.Reader.ReadMultiBuffer` failing in the outbound's `requestDone` (the client application is done) or the inbound's `responseDone` (the destination is done); `task.Run` returns and `Process` ends |
| `Attack` | drop the head frame, swap the first two, or put in front any frame seen in the same direction (a replay), in the other direction (when `Reflect`), or sealed under the attacker's own key |

A failed open ends the side's `Process`, so the side is `closed`. A
closed side has closed its connection: the outbound by
`defer rawConn.Close()`, the inbound by Xray's worker after `Process`
returns. `linkEOF` records which links have ended. Payload
bytes are tokens: a header byte `b` is `<<"hdr", b>>`, data frame `n` of a
direction is `<<dir, n>>`. The properties compare what reached each
application (`toDest`, `toApp`) with what the other side sealed.

## 3. Runs

| Run | Config | Expect | What it shows |
|---|---|---|---|
| `fallback_lookup` | `MC_FallbackTable.cfg` | pass | `LookupIsMostSpecific`: the lookup order of `findFallback` plus the default retry picks the most specific matching entry for every configuration. `SniReadWithinPeek`: for every honest ClientHello, `handleFallback` looks up the sent name exactly when the server_name extension ends within the 1024 peeked bytes, and `""` otherwise (25,753 states) |
| `fallback_sni_beyond_peek` | `MC_FallbackTable_sni.cfg` | violation | `RoutedBySni`: a hello with a 1250-byte key share before its server_name is looked up with name `""`, so it goes to the wildcard fallback, not the one configured for its SNI |
| `inbound` | `MC_ReflexInbound.cfg` | pass | `TypeOK`; `HandshakePhaseBounded` (every connection leaves the unauthenticated phase); `HonestSessionDispatched` (once the server has answered the honest client and its first frame is sent, the session is dispatched or `Dispatch` fails, whatever the prober on the other connection does) (41,886 states) |
| `inbound_fallback_loses_handshake` | `MC_ReflexInbound_stream.cfg` | violation | `FallbackGetsWholeStream`: an unknown user's connection is spliced from byte 77 |
| `inbound_fallback_deadline` | `MC_ReflexInbound_deadline.cfg` | violation | `FallbackNotCutByDeadline` (an action property): a prober's web request is spliced to the back-end, the handshake deadline passes while the peer is still connected, and the splice is cut |
| `inbound_impersonation` | `MC_ReflexInbound_auth.cfg` | violation | `SessionsAuthentic`: the prober copies u1's ID off the wire, completes a handshake with its own key and gets a session dispatched as u1 |
| `session` | `MC_ReflexSession.cfg` | pass | `ImplementsTunnel`: under a man in the middle who drops, swaps, replays within a direction and injects frames, the relay implements `Tunnel`, so each link gets the other side's data in order and once. `DataDelivered`: without interference every data frame reaches the destination, unless the destination hung up first. `SessionTornDown`: when either side's `Process` returns, the other's returns too. `DispatchedAsRequested`: the inbound dispatches to the network, port and address the outbound's header names, for IPv4 and domain targets over TCP and UDP, except a one-character domain, which is dispatched without an address (173,374 states) |
| `session_header_leak` | `MC_ReflexSession_header.cfg` | violation | `UpstreamIntegrity`: an IPv6 target's 20-byte header; its bytes 13..20 (the last 8 address bytes) reach the destination |
| `session_reflection` | `MC_ReflexSession_reflect.cfg` | violation | `UpstreamIntegrity`: the server's second downstream frame (nonce 2), reflected to the server, opens and reaches the destination as client data |
| `outbound_short_read` | `MC_OutboundHandshake_short.cfg` | violation | `ServerKeyFromOwnServer`: a connection finishes and returns its buffer to the pool; the next takes it, its server handshake arrives in two segments, the single `Read` returns the first, and the key's tail is the previous connection's server key |
| `morphing` | `MC_Morphing.cfg` | pass | For every profile name, with morphing on and off: `SamplingMatchesWeights` (each size and delay gets the share of samples its weights give it); `FramesLookLikeProfile` (every morphed frame has a profile size); `DataInOrder` (the frames carry the data in order, once and completely) (64,594 states) |
| `frame_stream` | `MC_FrameStream.cfg` | pass | `FramesDelivered`: however TCP splits the bytes, `ReadFrame` returns every frame written (1,320 states) |

Some issues seen while modelling are not reproduced by any run. They are
listed as hazards in `PROJECT.json`:
- `Peek(76)` closes a complete short request at the deadline.
- `ValidateTimestamp`'s `now - ts` overflows for `ts = now - 2^63`: the
  difference wraps to the minimum `int64`, its negation is itself, and
  the handshake is accepted.
- `parseRequestHeader` reads the 6-byte header of a one-character
  domain without an address; `DispatchedAsRequested` states this as the
  one exception.
- A client application that half-closes after its request ends the
  outbound's `task.Run`, and the response is lost.
- Morphing pads DATA frames and nothing on the receiving side strips the
  padding; no relay calls the morphing writer yet (both use `WriteFrame`),
  so the padding would reach the application only once one does.

Each property of a passing run has a mutant in `PROJECT.json`. The mutant
is a plausible bug in the mapped definition, and TLC finds the property
violated once the mutant is in:

| Mutant | Property it breaks |
|---|---|
| `findFallback` trying the wildcard name before the wildcard ALPN | `LookupIsMostSpecific` |
| `io.ReadFull`'s count ignored | `TypeOK` (more bytes consumed than arrived) |
| the first-frame read waiting for a whole 1024-byte buffer | `HonestSessionDispatched` |
| no read deadline | `HandshakePhaseBounded` |
| `aead.Open` not bound to the counter | `ImplementsTunnel` |
| the encoder seals before incrementing its counter | `DataDelivered` |
| `extractSNI` skipping no session ID | `SniReadWithinPeek` |
| the inbound's `ReadFrame` loop never seeing the connection's EOF | `SessionTornDown` |
| `parseRequestHeader` reading the address only from 8 bytes on | `DispatchedAsRequested` |
| the selection loop compares each weight alone, not the running sum | `SamplingMatchesWeights` |
| the remainder of a split written unmorphed | `FramesLookLikeProfile` |
| the tail of a split written first | `DataInOrder` |
| the length header read little-endian | `FramesDelivered` |

**Bounds.** The inbound runs use two connections: `c1` carries the Reflex
client of user `u1`, and `c2` a prober. The second connection is what
makes replays, observed IDs and cross-connection key confusion possible.
The other constants:
- one configured user;
- a `Guess` ID nobody registered;
- probe sizes 40 (under 76), 300 (between 76 and 1024) and 1500 (over
  1024), so that each peek's three outcomes occur;
- names `{"", a}`, paths `{"", /}`, and ALPNs `{"", tls, http/1.1}`, which
  are the values the classifier produces;
- a default fallback and an SNI-specific TLS fallback.

Each peer sends at most two flights: the handshake or request, then a
frame. Together these values reach every action and every error branch.

**Bounds of the classifier and session runs.** The hellos are real
byte sequences of 100 to 1400 bytes. With a 1250-byte key share placed
first, the server_name lies past byte 1024; with it placed second, or
with a 36-byte key share, it lies within. So both sides of the peek
boundary occur, with and without a session ID. The lookup has already
been checked for every table. Hellos are routed against tables of at most
one entry (`HelloTableMax`), which keeps the product of tables and hellos
small.
`ReflexSession` runs with three frames per encoder and two attacker steps.
That is enough for a replay, a drop followed by a later frame, a swap,
and a reflection, and for the counters to pass each other. The pass run
sends an IPv4 target and domains of 1, 2 and 7 characters. Their headers
are 8, 6, 7 and 12 bytes long, so the parser's 7-byte boundary is hit
from both sides and the 12-byte skip exactly. Ports 443, 53 and 8080 have
both port bytes in use, and one target is UDP. These headers all fit in
the skip, so no header byte reaches the destination. The header-leak run
sends an IPv6 target, whose 20-byte header goes past it.

**Bounds of the outbound, morphing and frame-stream runs.**
- `OutboundHandshake` runs three connections over three buffers. That is
  enough for a buffer to pass from one connection to the next, and for
  the pool to be empty or not at `Get`. `WholeFlight = FALSE` lets the
  4-token handshake arrive in any split.
- `Morphing` runs every profile name, including `default` and an unknown
  one, with morphing on and off. Each run writes two buffers of length 0,
  650 or 1700, which are below, between and above the profiles' sizes.
  So both the split branch and the pad branch occur, as does a split
  into three frames.
- `FrameStream` runs 4-bit bytes, so the length wraps at 256. It uses a
  16-byte tag, payloads of 0 and 3, and three frames. Segment boundaries
  then fall inside a header, inside a ciphertext and between frames.

**Fairness.** Each connection's `Process` runs in its own goroutine and is
weakly fair. So are delivery of sent bytes (TCP) and the firing of an armed
deadline (the runtime timer). Peers are not fair:
a peer may stay silent forever, which is exactly the case the deadline must
handle.
In `ReflexSession` the two reading goroutines (`ServerReceive`,
`ClientReceive`) are weakly fair: they block in `ReadFrame` and wake when
a frame or the end of the connection arrives. The outbound's header
write (`ClientHeader`) is weakly fair too, because the outbound sends it
right after the handshake without waiting for its application. Senders,
the links' EOFs and the attacker are not fair, and `DataDelivered` is
stated only for runs without an attack. `SessionTornDown` needs no
fairness beyond the readers: once one side has closed, the other's
reader sees the remaining frames and then the EOF. The relay has no idle timeout
after the handshake, so a silent session stays open and deadlock checking
is off for this run.
In `FrameStream`, TCP delivery and the reading goroutine are weakly fair;
the writer is not, and `FramesDelivered` asks only about frames written.

## 4. Not modelled yet, and the plan

1. **Done:**
   - the validator and the fallback table;
   - the inbound handshake and fallback, with peers and deadline;
   - the TLS classifier of the fallback path, composed with the lookup;
   - the relay's teardown;
   - the request header codec, composed into the session;
   - the session relay under a man in the middle, and its refinement of
     `Tunnel`;
   - the outbound's read of the server handshake, with the handshake
     buffer pool;
   - traffic morphing;
   - the frame byte stream.
2. **Next:** compose `Morphing` with `FrameStream`, so that morphed frames
   travel over the byte stream.
3. **Left out:**
   - `ValidateTimestamp`'s arithmetic: freshness is fresh or stale in
     `ReflexInbound`, and the overflow is listed as a hazard;
   - the HTTP branch of the classification (`isHTTPRequest`,
     `extractHTTPHost`, `extractHTTPPath`). It is string splitting and
     case folding, and it is abstracted to the `(name, alpn, path)` it
     yields. Its one interaction with the rest, `Peek(1024)`, is the same
     as the TLS branch's, which `TlsClassifier` checks;
   - `Validator.Remove`, which no handler calls;
   - the frame length's 16-bit wrap, which needs a payload of 65519 bytes
     or more: the relays never frame more than 8192;
   - the cryptographic primitives, which are abstracted to key equality;
   - frame types other than DATA, because the code never writes one;
   - the tiered frame pools and the `Frame` pool, because every caller
     copies out of a pooled buffer before returning it;
   - the float64 rounding of the morphing weights (the sums here are
     exact hundredths), and the length of the sleeps;
   - protobuf, logging, the policy manager, and the account types, which
     hold no state beyond construction;
   - the unused `handleTLSFallback`, `handleHTTPFallback` and
     `forwardToFallback`, which nothing calls.
