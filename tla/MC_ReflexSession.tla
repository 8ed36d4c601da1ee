--------------------------- MODULE MC_ReflexSession ---------------------------
(***************************************************************************)
(* One session: the outbound sends its request header and up to two DATA  *)
(* frames, the inbound answers with up to three, and the man in the middle *)
(* takes up to two steps within each direction.                            *)
(***************************************************************************)
EXTENDS ReflexSession

Req(cmd, port, family, addr) == [cmd |-> cmd, port |-> port, family |-> family, addr |-> addr]

\* Targets whose headers fit in the 12 bytes requestDone skips: an IPv4
\* address (8 bytes), domains of 1, 2 and 7 characters (6, 7 and 12
\* bytes), over TCP and UDP, with ports on both sides of 256.
MCRequests ==
    { Req(CmdTCP, 443, "ipv4", <<10, 0, 0, 1>>),
      Req(CmdTCP, 443, "domain", <<97>>),
      Req(CmdUDP, 53, "domain", <<97, 98>>),
      Req(CmdTCP, 8080, "domain", <<101, 120, 97, 109, 112, 108, 101>>) }

\* An IPv4 target only.
MCRequestsIPv4 == { Req(CmdTCP, 443, "ipv4", <<10, 0, 0, 1>>) }

\* An IPv6 target: a 20-byte header.
MCRequestsIPv6 == { Req(CmdTCP, 443, "ipv6", [i \in 1..16 |-> IF i = 16 THEN 1 ELSE 0]) }
=============================================================================
