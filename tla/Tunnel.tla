------------------------------- MODULE Tunnel -------------------------------
(***************************************************************************)
(* What a proxy session promises the two applications it connects: one    *)
(* stream per direction, each delivering, in order and once, a prefix of  *)
(* what was written into it.  Delivery may stop at any point (the session *)
(* ends on an error), so the specification has no liveness part.          *)
(***************************************************************************)
EXTENDS Naturals, Sequences

CONSTANTS
    Dirs,   \* the directions of the tunnel
    Data    \* the units an application may write

VARIABLES
    sent,   \* sent[d]: everything written into direction d
    recv    \* recv[d]: everything delivered out of direction d

Init ==
    /\ sent = [d \in Dirs |-> <<>>]
    /\ recv = [d \in Dirs |-> <<>>]

\* An application writes x into direction d.
Write(d, x) ==
    /\ sent' = [sent EXCEPT ![d] = Append(@, x)]
    /\ UNCHANGED recv

\* The next undelivered unit of direction d comes out of the other end.
Deliver(d) ==
    /\ Len(recv[d]) < Len(sent[d])
    /\ recv' = [recv EXCEPT ![d] = Append(@, sent[d][Len(@) + 1])]
    /\ UNCHANGED sent

Next == \E d \in Dirs : (\E x \in Data : Write(d, x)) \/ Deliver(d)

Spec == Init /\ [][Next]_<<sent, recv>>
=============================================================================
