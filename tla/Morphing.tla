------------------------------ MODULE Morphing ------------------------------
(***************************************************************************)
(* Traffic morphing (encoding/morphing.go and WriteFrameWithMorphing in    *)
(* encoding/frame.go) for one sending direction: each DATA frame a caller *)
(* hands to the morphing writer is split at sampled packet sizes and its   *)
(* last piece padded.  No handler calls the writer yet (both relays use    *)
(* WriteFrame), so the caller is a sequence of payload lengths.            *)
(*                                                                         *)
(* Lengths are kept exact.  The data handed to the writer is numbered from *)
(* 1; a frame payload is abstracted to the interval lo..hi of data bytes   *)
(* it carries followed by pad bytes of random padding.  A weight is kept  *)
(* in hundredths, and rand.Float64() is the midpoint of one of the Res     *)
(* equal sub-intervals of [0, 1), so that no sample falls on a boundary    *)
(* between two entries (a boundary has probability 0 in the code).         *)
(***************************************************************************)
EXTENDS Naturals, Sequences, FiniteSetsExt

CONSTANTS
    ProfileNames,   \* policy strings given to GetProfileByName
    PayloadLens,    \* lengths of the payloads a caller hands over
    MaxWrites,      \* buffers written per run (bound)
    None

Res == 100

\* The predefined profiles: (value, weight in hundredths) in code order.
YouTubeProfile ==
    [sizes  |-> << [v |-> 1400, w |-> 40], [v |-> 1200, w |-> 30],
                   [v |-> 1000, w |-> 20], [v |-> 800, w |-> 10] >>,
     delays |-> << [v |-> 10, w |-> 50], [v |-> 20, w |-> 30], [v |-> 30, w |-> 20] >>]
ZoomProfile ==
    [sizes  |-> << [v |-> 500, w |-> 30], [v |-> 600, w |-> 40], [v |-> 700, w |-> 30] >>,
     delays |-> << [v |-> 30, w |-> 40], [v |-> 40, w |-> 40], [v |-> 50, w |-> 20] >>]
HTTP2APIProfile ==
    [sizes  |-> << [v |-> 200, w |-> 20], [v |-> 500, w |-> 30],
                   [v |-> 1000, w |-> 30], [v |-> 1500, w |-> 20] >>,
     delays |-> << [v |-> 5, w |-> 30], [v |-> 10, w |-> 40], [v |-> 15, w |-> 30] >>]

\* A selection loop that compares r with each weight on its own, without
\* accumulating.
RECURSIVE PickNoAccumulate(_, _, _, _)
PickNoAccumulate(ps, r, i, cum) ==
    IF i > Len(ps) THEN ps[Len(ps)].v
    ELSE IF 2 * r + 1 <= 2 * ps[i].w THEN ps[i].v
    ELSE PickNoAccumulate(ps, r, i + 1, cum + ps[i].w)

\* The loop of GetPacketSize / GetDelay: cumulative += weight; return the
\* first entry with r <= cumulative; after the loop, the last entry.
RECURSIVE PickFrom(_, _, _, _)
PickFrom(ps, r, i, cum) ==
    IF i > Len(ps) THEN ps[Len(ps)].v
    ELSE IF 2 * r + 1 <= 2 * (cum + ps[i].w) THEN ps[i].v
    ELSE PickFrom(ps, r, i + 1, cum + ps[i].w)

GetPacketSize(p, r) == PickFrom(p.sizes, r, 1, 0)
GetDelay(p, r) == PickFrom(p.delays, r, 1, 0)

\* GetProfileByName: "youtube", "zoom", "http2-api"; anything else,
\* "" and "default" included, is the HTTP/2 API profile.
GetProfileByName(name) ==
    CASE name = "youtube" -> YouTubeProfile
      [] name = "zoom"    -> ZoomProfile
      [] OTHER            -> HTTP2APIProfile

\* NewMorphingConfig: a profile only when enabled.
NewMorphingConfig(enabled, name) ==
    [enabled |-> enabled,
     profile |-> IF enabled THEN GetProfileByName(name) ELSE None]

\* WriteFrameWithMorphing's first test: no config, disabled, or no profile
\* means a plain WriteFrame.
Morphs(cfg) == cfg.enabled /\ cfg.profile # None

Frame(lo, hi, pad) == [lo |-> lo, hi |-> hi, pad |-> pad]
DataLen(f) == f.hi - f.lo + 1
PayloadLen(f) == DataLen(f) + f.pad

\* AddPadding(data, target): data[:target] when it is at least target
\* long, otherwise data followed by target - len(data) random bytes.
AddPadding(d, t) ==
    IF DataLen(d) >= t THEN Frame(d.lo, d.lo + t - 1, 0)
    ELSE Frame(d.lo, d.hi, t - DataLen(d))

VARIABLES
    cfg,        \* the MorphingConfig of the direction
    writes,     \* buffers handed to the writer so far
    sent,       \* data bytes handed to the writer so far
    rest,       \* the part of the current buffer still to write, or None
    wire        \* the frames written, in order

vars == <<cfg, writes, sent, rest, wire>>

Init ==
    /\ \E enabled \in BOOLEAN, name \in ProfileNames :
          cfg = NewMorphingConfig(enabled, name)
    /\ writes = 0 /\ sent = 0 /\ rest = None /\ wire = <<>>

\* A caller hands one DATA frame of len bytes to WriteFrameWithMorphing
\* (no handler does yet); with no config, morphing disabled or no profile
\* it is written with WriteFrame as it is.
Submit(len) ==
    /\ rest = None /\ writes < MaxWrites
    /\ writes' = writes + 1
    /\ sent' = sent + len
    /\ IF Morphs(cfg)
       THEN rest' = Frame(sent + 1, sent + len, 0) /\ UNCHANGED wire
       ELSE wire' = Append(wire, Frame(sent + 1, sent + len, 0)) /\ UNCHANGED rest
    /\ UNCHANGED cfg

\* A split that sends the tail of the payload first.
MorphStepTailFirst ==
    /\ rest # None
    /\ \E r \in 0..(Res - 1) :
        LET t == GetPacketSize(cfg.profile, r) IN
        IF DataLen(rest) > t
        THEN /\ wire' = Append(wire, Frame(rest.hi - t + 1, rest.hi, 0))
             /\ rest' = Frame(rest.lo, rest.hi - t, 0)
        ELSE /\ wire' = Append(wire, AddPadding(rest, t))
             /\ rest' = None
    /\ UNCHANGED <<cfg, writes, sent>>

\* A split whose remainder is written with WriteFrame, unmorphed.
MorphStepPlainRemainder ==
    /\ rest # None
    /\ \E r \in 0..(Res - 1) :
        LET t == GetPacketSize(cfg.profile, r) IN
        IF DataLen(rest) > t
        THEN /\ wire' = wire \o << Frame(rest.lo, rest.lo + t - 1, 0),
                                   Frame(rest.lo + t, rest.hi, 0) >>
             /\ rest' = None
        ELSE /\ wire' = Append(wire, AddPadding(rest, t))
             /\ rest' = None
    /\ UNCHANGED <<cfg, writes, sent>>

\* One level of WriteFrameWithMorphing: sample the target size; a payload
\* longer than it is split, its head written and the remainder passed to
\* the recursive call; otherwise it is padded to the target and written.
\* The sleep of GetDelay() after each write ends the step.
MorphStep ==
    /\ rest # None
    /\ \E r \in 0..(Res - 1) :
        LET t == GetPacketSize(cfg.profile, r) IN
        IF DataLen(rest) > t
        THEN /\ wire' = Append(wire, Frame(rest.lo, rest.lo + t - 1, 0))
             /\ rest' = Frame(rest.lo + t, rest.hi, 0)
        ELSE /\ wire' = Append(wire, AddPadding(rest, t))
             /\ rest' = None
    /\ UNCHANGED <<cfg, writes, sent>>

Next == (\E len \in PayloadLens : Submit(len)) \/ MorphStep

Spec == Init /\ [][Next]_vars

Idle == rest = None /\ writes = MaxWrites

----------------------------------------------------------------------------
Sizes(ps) == {ps[i].v : i \in DOMAIN ps}
Mass(ps, v) == FoldSet(LAMBDA i, acc : acc + ps[i].w, 0, {i \in DOMAIN ps : ps[i].v = v})

\* GetPacketSize and GetDelay of the configured profile draw each value
\* with the probability the profile's weights give it: the share of [0, 1)
\* the selection loop maps to a value equals the sum of its weights.
SamplingMatchesWeights ==
    Morphs(cfg) =>
        \A dist \in {"sizes", "delays"} :
            \A v \in Sizes(cfg.profile[dist]) :
                Cardinality({r \in 0..(Res - 1) : PickFrom(cfg.profile[dist], r, 1, 0) = v})
                    = Mass(cfg.profile[dist], v)

\* With morphing on, every frame the writer puts on the wire, the pieces
\* of a split and the padded last piece alike, has a payload of one of the
\* profile's packet sizes (spec 4.5, morphing writer).
FramesLookLikeProfile ==
    Morphs(cfg) =>
        \A i \in DOMAIN wire : PayloadLen(wire[i]) \in Sizes(cfg.profile.sizes)

\* The frames carry the data handed to the writer in order, each byte
\* once (spec 5: "morphing does not reorder frames within a direction"),
\* and a finished write has put all of it on the wire.
DataInOrder ==
    /\ \A i \in DOMAIN wire :
          wire[i].lo = IF i = 1 THEN 1 ELSE wire[i - 1].hi + 1
    /\ rest = None /\ wire # <<>> => wire[Len(wire)].hi = sent

=============================================================================
