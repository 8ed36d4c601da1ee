------------------------ MODULE MC_OutboundHandshake ------------------------
EXTENDS OutboundHandshake

\* Every connection's Process has returned.
Terminated == Done /\ UNCHANGED vars
MCNext == Next \/ Terminated
MCSpec == Init /\ [][MCNext]_vars
=============================================================================
