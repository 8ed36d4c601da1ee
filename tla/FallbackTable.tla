---------------------------- MODULE FallbackTable ----------------------------
(***************************************************************************)
(* The inbound fallback table (proxy/reflex/inbound): New builds a         *)
(* three-level map name -> alpn -> path -> *Fallback from the configured   *)
(* list, and findFallback walks it, preferring an exact key over the ""    *)
(* wildcard at each level, name first.  handleFallback then retries with   *)
(* ("", "", "") when nothing matched.                                      *)
(*                                                                         *)
(* A configuration is a sequence of entries [name, alpn, path, dest]; the  *)
(* map keyed by <<name, alpn, path>> keeps the dest of the last entry      *)
(* with that key, as the nested assignment in New does.                    *)
(***************************************************************************)
EXTENDS Naturals, Sequences, SequencesExt

CONSTANTS
    Names,      \* SNI / Host values, "" (any) included
    Alpns,      \* ALPN values, "" (any) included
    Paths,      \* HTTP paths, "" (any) included
    Dests,      \* back-end destinations
    NoFallback  \* findFallback's nil

ASSUME /\ "" \in Names /\ "" \in Alpns /\ "" \in Paths
       /\ NoFallback \notin Dests

Entry == [name : Names, alpn : Alpns, path : Paths, dest : Dests]

Key(e) == <<e.name, e.alpn, e.path>>

\* New (inbound.go): fallbacks[fb.Name][fb.Alpn][fb.Path] = fb for every
\* configured entry in order, so a later entry with the same key wins.
BuildTable(cfg) ==
    [k \in {Key(cfg[i]) : i \in 1..Len(cfg)} |->
        cfg[SelectLastInSeq(cfg, LAMBDA e : Key(e) = k)].dest]

\* A mis-nested findFallback that leaves the requested name for the
\* wildcard name before trying the wildcard ALPN under the requested name.
LookupOrderWildNameFirst(name, alpn, path) ==
    << <<name, alpn, path>>, <<name, alpn, "">>,
       <<"", alpn, path>>,   <<"", alpn, "">>,
       <<name, "", path>>,   <<name, "", "">>,
       <<"", "", path>>,     <<"", "", "">> >>

\* findFallback: the lookup order of its nested ifs.  Each level falls
\* through to the next only when the entry is absent, so the result is the
\* first of these keys present in the table.
LookupOrder(name, alpn, path) ==
    << <<name, alpn, path>>, <<name, alpn, "">>,
       <<name, "", path>>,   <<name, "", "">>,
       <<"", alpn, path>>,   <<"", alpn, "">>,
       <<"", "", path>>,     <<"", "", "">> >>

FindFallback(table, name, alpn, path) ==
    LET order == LookupOrder(name, alpn, path)
        i     == SelectInSeq(order, LAMBDA k : k \in DOMAIN table)
    IN  IF i = 0 THEN NoFallback ELSE table[order[i]]

\* handleFallback: findFallback(name, alpn, path), then the default entry.
SelectFallback(table, name, alpn, path) ==
    LET fb == FindFallback(table, name, alpn, path)
    IN  IF fb # NoFallback THEN fb ELSE FindFallback(table, "", "", "")
=============================================================================
