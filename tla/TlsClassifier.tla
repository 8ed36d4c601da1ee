---------------------------- MODULE TlsClassifier ----------------------------
(***************************************************************************)
(* The byte-level part of handleFallback (inbound/conn.go): Peek(1024) on  *)
(* the connection's bufio.Reader, isTLSHandshake and extractSNI over the   *)
(* peeked bytes, and the (name, alpn, path) the classification hands to    *)
(* findFallback.                                                           *)
(*                                                                         *)
(* Bytes are naturals 0..255 and a byte slice is a sequence; Go's data[i]  *)
(* is Byte(d, i), so the positions below are the code's 0-based ones.      *)
(* Peeked TLS bytes are the ClientHello an honest client sent, built by   *)
(* HelloBytes from the fields the walk reads; extensions other than SNI   *)
(* stand for the ones of real clients (key_share, padding).                *)
(***************************************************************************)
EXTENDS Naturals, Sequences

CONSTANT PeekLen    \* 1024, the size handleFallback peeks

Byte(d, i) == d[i + 1]
Uint16At(d, i) == Byte(d, i) * 256 + Byte(d, i + 1)
U16(x) == << x \div 256, x % 256 >>
U24(x) == << x \div 65536, (x \div 256) % 256, x % 256 >>
Fill(n, b) == [i \in 1..n |-> b]

SniExtType == 0

----------------------------------------------------------------------------
(* An honest ClientHello: record header, handshake header, version,        *)
(* random, session ID, cipher suites, one null compression method, and the *)
(* extensions in the client's order.                                       *)

\* server_name: list length, name type 0 (host_name), name length, name.
SniBody(name) == U16(Len(name) + 3) \o <<0>> \o U16(Len(name)) \o name

ExtBytes(type, body) == U16(type) \o U16(Len(body)) \o body

RECURSIVE ConcatExts(_)
ConcatExts(es) ==
    IF es = <<>> THEN <<>>
    ELSE ExtBytes(Head(es).type, Head(es).body) \o ConcatExts(Tail(es))

HelloBytes(sidLen, suitesLen, exts) ==
    LET extBytes == ConcatExts(exts)
        body == <<3, 3>> \o Fill(32, 0) \o <<sidLen>> \o Fill(sidLen, 0)
                \o U16(suitesLen) \o Fill(suitesLen, 19) \o <<1, 0>>
                \o U16(Len(extBytes)) \o extBytes
        hs   == <<1>> \o U24(Len(body)) \o body
    IN  <<22, 3, 1>> \o U16(Len(hs)) \o hs

----------------------------------------------------------------------------
\* reader.Peek(1024): the first 1024 bytes once they have arrived; fewer
\* only with io.EOF, when the peer closed after sending them.  Otherwise
\* Peek blocks until the read deadline and fails.
PeekOk(bytes, closed) == Len(bytes) >= PeekLen \/ closed
Peek(bytes) == IF Len(bytes) >= PeekLen THEN SubSeq(bytes, 1, PeekLen) ELSE bytes

\* isTLSHandshake: at least 5 bytes, content type 0x16, major version >= 3
\* (the check data[2] < 0x00 never holds for a byte).
IsTLSHandshake(d) == Len(d) >= 5 /\ Byte(d, 0) = 22 /\ Byte(d, 1) >= 3

\* The server_name extension body at pos, extLen bytes long: the checks of
\* extractSNI's type-0 branch, then data[pos : pos+sniLen].
SniFromExt(d, pos, extLen) ==
    LET p1 == pos + 2
        p2 == p1 + 1
        n  == Uint16At(d, p2)
    IN  CASE pos + extLen > Len(d) -> <<>>
          [] pos + 2 > Len(d) -> <<>>
          [] p1 >= Len(d) \/ Byte(d, p1) # 0 -> <<>>
          [] p2 + 2 > Len(d) -> <<>>
          [] p2 + 2 + n > Len(d) -> <<>>
          [] OTHER -> SubSeq(d, p2 + 2 + 1, p2 + 2 + n)

\* The extension loop of extractSNI: while pos+4 <= endPos and
\* pos+4 <= len(data), read type and length; type 0 is the SNI, any
\* other is skipped.
RECURSIVE WalkExtensions(_, _, _)
WalkExtensions(d, pos, endPos) ==
    IF pos + 4 > endPos \/ pos + 4 > Len(d) THEN <<>>
    ELSE IF Uint16At(d, pos) = SniExtType
         THEN SniFromExt(d, pos + 4, Uint16At(d, pos + 2))
         ELSE WalkExtensions(d, pos + 4 + Uint16At(d, pos + 2), endPos)

\* A walk that takes the session ID to be part of the 43 fixed bytes.
ExtractSNINoSessionId(d) ==
    LET cs   == 43
        cm   == cs + 2 + Uint16At(d, cs)
        ext  == cm + 1 + Byte(d, cm)
    IN  CASE Len(d) < 43 -> <<>>
          [] cs + 2 > Len(d) -> <<>>
          [] cm + 1 > Len(d) -> <<>>
          [] ext + 2 > Len(d) -> <<>>
          [] OTHER -> WalkExtensions(d, ext + 2, ext + 2 + Uint16At(d, ext))

\* extractSNI: skip the 43 fixed bytes, the session ID, the cipher suites
\* and the compression methods, each behind a bounds check, then walk the
\* extensions.  The empty sequence is the empty string.
ExtractSNI(d) ==
    LET sid  == 43
        cs   == sid + 1 + Byte(d, sid)
        cm   == cs + 2 + Uint16At(d, cs)
        ext  == cm + 1 + Byte(d, cm)
    IN  CASE Len(d) < 43 -> <<>>
          [] sid >= Len(d) -> <<>>
          [] cs + 2 > Len(d) -> <<>>
          [] cm + 1 > Len(d) -> <<>>
          [] ext + 2 > Len(d) -> <<>>
          [] OTHER -> WalkExtensions(d, ext + 2, ext + 2 + Uint16At(d, ext))

\* The TLS branch of handleFallback's classification: extractSNI, and
\* extractALPN, which always returns "", replaced by "tls".  The name is
\* still the SNI's bytes; string(bytes) is left to the instantiating module.
TlsQuery(d) == << ExtractSNI(d), "tls", "" >>
=============================================================================
