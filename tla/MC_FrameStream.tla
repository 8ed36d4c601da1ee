----------------------------- MODULE MC_FrameStream -----------------------------
EXTENDS FrameStream

\* The encoder has written its last frame and the decoder has read the
\* whole stream, or stopped on an error.
Drained == Len(sealed) = MaxFrames /\ arrived = Len(wire) /\ ~ENABLED ReadFrame
Finished == Drained /\ UNCHANGED vars
MCNext == Next \/ Finished
MCSpec == Init /\ [][MCNext]_vars /\ WF_vars(Deliver) /\ WF_vars(ReadFrame)
=============================================================================
