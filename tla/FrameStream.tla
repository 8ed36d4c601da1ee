----------------------------- MODULE FrameStream -----------------------------
(***************************************************************************)
(* One direction of a Reflex session at the byte level (encoding/frame.go): *)
(* the encoder writes [length(2)][ciphertext] for each frame, the TCP      *)
(* stream delivers the bytes in segments of any size, and the decoder's   *)
(* ReadFrame reads the two length bytes and then the ciphertext with       *)
(* io.ReadFull before Decode opens it.                                     *)
(*                                                                         *)
(* The length is written as a big-endian uint16 of two ByteBits-bit bytes  *)
(* (8 in the code) and wraps modulo 2^(2 * ByteBits).  Ciphertext byte j  *)
(* of the frame sealed with nonce k is the token <<k, j>>; AEAD Open      *)
(* succeeds exactly when the bytes read are the whole ciphertext sealed   *)
(* with the decoder's nonce.                                               *)
(***************************************************************************)
EXTENDS Naturals, Sequences

CONSTANTS
    ByteBits,       \* bits per byte
    TagLen,         \* the AEAD tag (16 bytes)
    PayloadLens,    \* lengths of the payloads the writer frames
    MaxFrames       \* frames the encoder writes (bound)

ByteMod == 2^ByteBits
LenMod == ByteMod * ByteMod

\* The sealed plaintext is [type(1)][payload]; the ciphertext adds the tag.
CiphertextLen(n) == 1 + n + TagLen
Ciphertext(k, n) == [j \in 1..CiphertextLen(n) |-> <<k, j>>]

\* binary.BigEndian.PutUint16(frameData[0:2], uint16(len(ciphertext))).
PutUint16(x) == << (x % LenMod) \div ByteMod, x % ByteMod >>

\* A decoder that reads the length least significant byte first.
GetUint16LittleEndian(bs) == bs[2] * ByteMod + bs[1]

\* binary.BigEndian.Uint16.
GetUint16(bs) == bs[1] * ByteMod + bs[2]

\* Encode / EncodeToWriter: counter++, seal with nonce = counter, and the
\* bytes [length][ciphertext] of the frame.
FrameBytes(k, n) == PutUint16(CiphertextLen(n)) \o Ciphertext(k, n)

VARIABLES
    sealed,     \* payload lengths the encoder sealed, in nonce order
    wire,       \* the bytes the encoder wrote to the connection
    arrived,    \* bytes the receiving socket has
    pos,        \* bytes the decoder has consumed
    dec,        \* the decoder's counter
    out,        \* payload lengths of the frames the decoder returned
    rState      \* "reading", or "closed" after ReadFrame returned an error

vars == <<sealed, wire, arrived, pos, dec, out, rState>>

\* NewFrameEncoder / NewFrameDecoder: both counters start at 0.
Init ==
    /\ sealed = <<>> /\ wire = <<>>
    /\ arrived = 0 /\ pos = 0 /\ dec = 0 /\ out = <<>>
    /\ rState = "reading"

\* EncodeToWriter of a DATA frame with an n-byte payload.
Write(n) ==
    /\ Len(sealed) < MaxFrames
    /\ sealed' = Append(sealed, n)
    /\ wire' = wire \o FrameBytes(Len(sealed) + 1, n)
    /\ UNCHANGED <<arrived, pos, dec, out, rState>>

\* TCP delivers the next segment of what was written.
Deliver ==
    /\ arrived < Len(wire)
    /\ \E a \in (arrived + 1)..Len(wire) : arrived' = a
    /\ UNCHANGED <<sealed, wire, pos, dec, out, rState>>

Bytes(from, count) == SubSeq(wire, from + 1, from + count)

\* Decode(data) succeeds: the length checks pass and, after counter++,
\* Open with nonce = counter authenticates the ciphertext.  The plaintext
\* then holds the type byte and the payload of the frame with that nonce.
DecodeOk(data) ==
    LET length == GetUint16(SubSeq(data, 1, 2))
    IN  /\ Len(data) >= 2 /\ Len(data) >= 2 + length
        /\ dec + 1 <= Len(sealed)
        /\ SubSeq(data, 3, 2 + length) = Ciphertext(dec + 1, sealed[dec + 1])

\* ReadFrame: io.ReadFull of the 2 length bytes; a zero length is an
\* error; io.ReadFull of length more bytes; Decode of the 2 + length bytes.
\* An error ends the relay direction that called it.
ReadFrame ==
    /\ rState = "reading" /\ arrived >= pos + 2
    /\ LET length == GetUint16(Bytes(pos, 2)) IN
       IF length = 0
       THEN rState' = "closed" /\ UNCHANGED <<pos, dec, out>>
       ELSE /\ arrived >= pos + 2 + length
            /\ pos' = pos + 2 + length
            /\ dec' = dec + 1
            /\ IF DecodeOk(Bytes(pos, 2 + length))
               THEN out' = Append(out, sealed[dec + 1]) /\ UNCHANGED rState
               ELSE rState' = "closed" /\ UNCHANGED out
    /\ UNCHANGED <<sealed, wire, arrived>>

Next == (\E n \in PayloadLens : Write(n)) \/ Deliver \/ ReadFrame

\* TCP delivers what was written; the relay goroutine keeps reading.
Spec == Init /\ [][Next]_vars /\ WF_vars(Deliver) /\ WF_vars(ReadFrame)

----------------------------------------------------------------------------
\* Every frame the encoder writes is returned by the decoder, however TCP
\* splits the stream: ReadFrame finds each frame boundary from the length
\* header and keeps its counter in step with the encoder's.
FramesDelivered ==
    \A k \in 1..MaxFrames : (Len(sealed) >= k) ~> (Len(out) >= k)
=============================================================================
