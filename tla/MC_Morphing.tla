----------------------------- MODULE MC_Morphing -----------------------------
EXTENDS Morphing

\* The caller has handed over its last payload and the writer is done.
Finished == Idle /\ UNCHANGED vars
MCNext == Next \/ Finished
MCSpec == Init /\ [][MCNext]_vars
=============================================================================
