---------------------------- MODULE RequestHeader ----------------------------
(***************************************************************************)
(* The request header the outbound puts in its first DATA frame and the   *)
(* inbound parses before dispatching: encodeRequestHeader (outbound) and   *)
(* parseRequestHeader (inbound/inbound.go), and the destination Xray's     *)
(* RequestHeader.Destination() makes of the parsed header.                *)
(*                                                                         *)
(* A request is a record: the command (1 TCP, 2 UDP), the port, and the   *)
(* address as its family and its bytes (4 for IPv4, 16 for IPv6, the name *)
(* for a domain).  Bytes are naturals 0..255.                             *)
(***************************************************************************)
EXTENDS Naturals, Sequences

CmdTCP == 1
CmdUDP == 2

\* The address type byte of each family.
AddrType == [ipv4 |-> 1, domain |-> 3, ipv6 |-> 4]

\* encodeRequestHeader: command(1) port_be(2) type(1) address; a domain
\* is preceded by byte(len(domain)).
EncodeRequestHeader(r) ==
    << r.cmd, r.port \div 256, r.port % 256, AddrType[r.family] >>
    \o (IF r.family = "domain" THEN << Len(r.addr) % 256 >> ELSE << >>)
    \o r.addr

\* The outcome of a parse: ok with the fields read, or an error.  A header
\* of fewer than 7 bytes is ok with no address: family "none".
Parsed(cmd, port, family, addr) ==
    [ok |-> TRUE, cmd |-> cmd, port |-> port, family |-> family, addr |-> addr]
ParseError == [ok |-> FALSE]

\* A parse that reads the address only from 8 bytes on.
ParseRequestHeaderFromEight(p) ==
    LET cmd == p[1]
        port == p[2] * 256 + p[3]
        n == IF Len(p) >= 5 THEN p[5] ELSE 0
    IN  CASE Len(p) < 4 -> ParseError
          [] Len(p) < 8 -> Parsed(cmd, port, "none", << >>)
          [] p[4] = 1 -> Parsed(cmd, port, "ipv4", SubSeq(p, 5, 8))
          [] p[4] = 3 -> IF Len(p) < 5 + n THEN ParseError
                         ELSE Parsed(cmd, port, "domain", SubSeq(p, 6, 5 + n))
          [] p[4] = 4 -> IF Len(p) < 20 THEN ParseError
                         ELSE Parsed(cmd, port, "ipv6", SubSeq(p, 5, 20))
          [] OTHER -> ParseError

\* parseRequestHeader: at least 4 bytes; command, port; then, only when
\* the payload has at least 7 bytes, the address by its type byte, each
\* behind its length check.
ParseRequestHeader(p) ==
    LET cmd  == p[1]
        port == p[2] * 256 + p[3]
        n    == IF Len(p) >= 5 THEN p[5] ELSE 0
    IN  CASE Len(p) < 4 -> ParseError
          [] Len(p) < 7 -> Parsed(cmd, port, "none", << >>)
          [] p[4] = 1 -> IF Len(p) < 8 THEN ParseError
                         ELSE Parsed(cmd, port, "ipv4", SubSeq(p, 5, 8))
          [] p[4] = 3 -> IF Len(p) < 5 + n THEN ParseError
                         ELSE Parsed(cmd, port, "domain", SubSeq(p, 6, 5 + n))
          [] p[4] = 4 -> IF Len(p) < 20 THEN ParseError
                         ELSE Parsed(cmd, port, "ipv6", SubSeq(p, 5, 20))
          [] OTHER -> ParseError

\* RequestHeader.Destination(): UDP for the UDP command, TCP otherwise.
Destination(h) ==
    [net |-> IF h.cmd = CmdUDP THEN "udp" ELSE "tcp", port |-> h.port,
     family |-> h.family, addr |-> h.addr]
=============================================================================
