\* 4-bit bytes, so the length field is 8 bits wide and wraps at 256; the
\* tag keeps its 16 bytes.  Payloads of 0 and 3 bytes give ciphertexts of
\* 17 and 20 bytes, below the wrap as every buffer the relays frame is
\* (at most 8192 bytes against 65535 in the code).
CONSTANTS
    ByteBits = 4
    TagLen = 16
    PayloadLens = {0, 3}
    MaxFrames = 3
SPECIFICATION MCSpec
PROPERTY FramesDelivered
