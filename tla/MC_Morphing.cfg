\* Every profile name the selection distinguishes, morphing on and off;
\* buffers of 0 bytes, one of 650 (split or padded depending on the sample)
\* and one of 1700 that needs a split under every profile.
CONSTANTS
    ProfileNames = {"youtube", "zoom", "http2-api", "default", "other"}
    PayloadLens = {0, 650, 1700}
    MaxWrites = 2
    None = None
SPECIFICATION MCSpec
INVARIANT SamplingMatchesWeights
INVARIANT FramesLookLikeProfile
INVARIANT DataInOrder
