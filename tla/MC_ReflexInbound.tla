-------------------------- MODULE MC_ReflexInbound --------------------------
(***************************************************************************)
(* Two accepted connections: c1 carries the Reflex client of user u1, c2 a *)
(* prober.  One configured user; the fallback list has a default entry     *)
(* and an SNI-specific TLS entry.  Probe requests are 40 bytes (shorter    *)
(* than the handshake), 300 bytes (between the two peeks) and 1500 bytes.  *)
(***************************************************************************)
EXTENDS ReflexInbound

MCInitialUsers == [u \in UserIds |-> "e1"]
MCHonestUser == [c \in Conns |-> IF c = "c1" THEN "u1" ELSE NoClient]
MCFallbacks == << [name |-> "", alpn |-> "", path |-> "", dest |-> 1],
                  [name |-> "a", alpn |-> "tls", path |-> "", dest |-> 2] >>
=============================================================================
