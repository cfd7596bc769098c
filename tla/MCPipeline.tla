----------------------------- MODULE MCPipeline -----------------------------
(***************************************************************************)
(* Requests for TLC: every short string of the marks the scanners look at, *)
(* every pipeline of up to three of some segments, and a few longer ones.  *)
(***************************************************************************)
EXTENDS Pipeline

Scan   == <<"scan", " ", "t">>
Search == <<"search", " ", "t", " ", "'", "x", "|", "?", "'">>
Grep   == <<"grep", " ", "x", " ", "--field", " ", "x">>
Sh     == <<"sh", " ", "'", "x", " ", "|", " ", "x", "'">>
Watch  == <<"watch", " ", "'", "x", "'", " ", "--poll-ms", " ", "1">>
Ingest == <<"ingest", " ", "t">>
SQL    == <<"select", " ", "?", "|", "|", "'", "?", "|", "'", "'", "'">>
With   == <<"with", " ", "?">>
Fetch  == <<"Fetch", " ", "x">>

Good == {Scan, Search, Grep, Sh, Watch, Ingest, SQL, With, Fetch}

(* Segments somebody refuses. *)
Odd == {<<>>, <<"SCAN", " ", "nothing">>, <<"search", " ", "t", " ", "x", " ", "--k", " ", "0">>,
        <<"search", " ", "t", " ", "x", " ", "--col", " ", "other">>, <<"search", " ", "t", " ", "x", " ", "--k">>,
        <<"grep", " ", "x", " ", "--field", " ", "no-name">>, <<"grep", " ", "x">>,
        <<"sh", " ", "x", " ", "x">>, <<"jq", "'", "x">>, <<"watch", " ", "x", " ", "--poll-ms", " ", "x">>,
        <<"ingest", " ", "u">>, <<"SELECT", " ", "x", ";", "x">>, <<"?">>}

Bar(a, b) == a \o <<" ", "|", " ">> \o b

Raw == UNION {[1..n -> {"'", "\"", "|", "?", " ", "x"}] : n \in 0..4}

Pairs == {Bar(a, b) : a \in Good, b \in Good}
Pipelines ==
  Good \cup Odd \cup Pairs
    \cup {Bar(Scan, a) : a \in Odd} \cup {Bar(Watch, Bar(a, Ingest)) : a \in Odd}

Long == {Bar(Bar(SQL, Sh), Bar(SQL, Bar(Grep, SQL))), Bar(Bar(Search, Sh), Bar(Sh, Bar(Grep, Sh))),
         Bar(Bar(Search, Grep), Bar(SQL, Bar(Sh, SQL)))}

Triples == {Bar(p, a) : p \in Pairs, a \in Good}

Ask(T, off) ==
  {[asks |-> "query", text |-> t, given |-> n + NeedOf(t)] : t \in T, n \in off}

MCRequests ==
  Ask(Pipelines \cup Triples \cup Raw, {0}) \cup Ask(Pairs, {1})
    \cup {[asks |-> "query", text |-> t, given |-> 0] : t \in Pairs \cup Long}
    \cup Ask(Long, {0, 1})
    \cup {[asks |-> "stream", text |-> t, given |-> 0] : t \in Pipelines \cup Triples}

Policy(mode, allow, deny, denyCaps) ==
  [mode |-> mode, allow |-> allow, deny |-> deny, denyCaps |-> denyCaps]

MCPolicies == {
  Policy("read-only", {}, {}, {}),
  Policy("trusted", {}, {"watch"}, {"net"}),
  Policy("sandboxed", {}, {}, {}),
  Policy("read-only", {"sh", "scan", "Fetch"}, {}, {}) }

MCPlugins == {
  Operator("Fetch", {"net"}, TRUE, "source", FALSE, TRUE),
  Operator("SELECT", {"pure"}, TRUE, "source", FALSE, TRUE),
  Operator("SCAN", {"net"}, TRUE, "source", FALSE, TRUE) }

MCSearchable == [t \in {"t"} |-> {"body"}]
=============================================================================
