----------------------------- MODULE Operators ------------------------------
(***************************************************************************)
(* Pipeline operators (operator/): what each one is, how its arguments are *)
(* read, the registry and the policy.                                      *)
(***************************************************************************)
EXTENDS PipelineText, TLC

CONSTANTS Tables,       \* tables of the schema
          Searchable,   \* their searchable columns
          Embedder,     \* is there an embedder
          Backend       \* the search backend: "vss" or "lance"

Caps == {"pure", "fs_read", "fs_write", "net", "exec"}

ASSUME OperatorAssumption ==
  /\ Backend \in {"vss", "lance"} /\ Embedder \in BOOLEAN
  /\ \A t \in Tables : t \in DOMAIN Searchable

Operator(name, caps, bounded, duck, bash, source) ==
  [name |-> name, caps |-> caps, bounded |-> bounded,
   duck |-> duck,       \* its optimize_duck: "source", "middle" or "none"
   bash |-> bash,       \* it has an optimize_bash
   source |-> source]   \* is_source()

Builtins == {
  Operator("search", {"pure"}, TRUE, "source", FALSE, TRUE),
  Operator("scan", {"pure"}, TRUE, "source", FALSE, TRUE),
  Operator("grep", {"pure"}, TRUE, "middle", FALSE, FALSE),
  Operator("sh", {"exec"}, TRUE, "none", TRUE, FALSE),
  Operator("jq", {"exec"}, TRUE, "none", TRUE, FALSE),
  Operator("watch", {"fs_read"}, FALSE, "none", TRUE, TRUE),
  Operator("ingest", {"pure"}, TRUE, "none", FALSE, FALSE) }

-----------------------------------------------------------------------------
(* The registry: lower-case name -> operator *)

Lower(word) ==
  CASE word = "SCAN" -> "scan" [] word = "SELECT" -> "select" [] word = "Fetch" -> "fetch"
    [] OTHER -> word

SQLLeadingKeywords ==
  {"select", "with", "from", "values", "table", "show", "describe", "summarize", "pragma", "explain"}

(* A bug to rule out: the name is compared as it is written. *)
RegisterAsWritten(registry, op) ==
  IF op.name \in SQLLeadingKeywords \cup DOMAIN registry \cup {""} THEN registry
  ELSE [word \in DOMAIN registry \cup {Lower(op.name)} |->
          IF word \in DOMAIN registry THEN registry[word] ELSE op]

(* register: the registry is as before if the name is refused. *)
Register(registry, op) ==
  IF Lower(op.name) \in SQLLeadingKeywords \cup DOMAIN registry \cup {""} THEN registry
  ELSE [word \in DOMAIN registry \cup {Lower(op.name)} |->
          IF word \in DOMAIN registry THEN registry[word] ELSE op]

RegisterAll(registry, ops) == FoldSet(LAMBDA op, reg : Register(reg, op), registry, ops)

Known(registry, word) == Lower(word) \in DOMAIN registry

Resolve(registry, word) == registry[Lower(word)]

-----------------------------------------------------------------------------
(* The policy *)

ModeCaps(mode) ==
  CASE mode = "read-only" -> {"pure", "fs_read", "net"}
    [] mode = "sandboxed" -> Caps
    [] mode = "trusted" -> Caps

(* A bug to rule out: an operator on the allow list needs no more. *)
PermitsListed(policy, op) ==
  /\ op.name \notin policy.deny
  /\ \/ op.name \in policy.allow
     \/ policy.allow = {} /\ op.caps \cap policy.denyCaps = {} /\ op.caps \subseteq ModeCaps(policy.mode)

(* check: by the name the operator declares, whatever its case. *)
Permits(policy, op) ==
  /\ op.name \notin policy.deny
  /\ op.caps \cap policy.denyCaps = {}
  /\ policy.allow # {} => op.name \in policy.allow
  /\ op.caps \subseteq ModeCaps(policy.mode)

-----------------------------------------------------------------------------
(* Arguments *)

Options == {<<"--k">>, <<"--col">>, <<"--field">>, <<"--batch">>, <<"--poll-ms">>}

(* parse_tokens: an option takes the argument after it, whatever it is.    *)
ParseTokens(ws) ==
  LET from[i \in 1..(Len(ws) + 2)] ==
        CASE i > Len(ws) -> [ok |-> i = Len(ws) + 1, pos |-> <<>>, opts |-> <<>>]
          [] i <= Len(ws) /\ ws[i] \in Options ->
               IF i = Len(ws) THEN from[i + 2]
               ELSE [from[i + 2] EXCEPT !.opts = @ @@ (ws[i] :> ws[i + 1])]
          [] i <= Len(ws) /\ ws[i] \notin Options -> [from[i + 1] EXCEPT !.pos = <<ws[i]>> \o @]
  IN  from[1]

IsInt(word) == word \in {<<"0">>, <<"1">>}

IntOpt(p, o) == o \in DOMAIN p.opts => IsInt(p.opts[o])

(* parse_args of each operator: are the arguments as it wants them? *)
ArgsOK(op, ws) ==
  LET p == ParseTokens(ws)
  IN  CASE op.name = "search" ->
             p.ok /\ Len(p.pos) = 2 /\ IntOpt(p, <<"--k">>)
               /\ (<<"--k">> \in DOMAIN p.opts => p.opts[<<"--k">>] # <<"0">>)
        [] op.name = "scan" -> p.ok /\ Len(p.pos) = 1 /\ p.opts = <<>>
        [] op.name = "grep" -> p.ok /\ Len(p.pos) = 1 /\ <<"--field">> \in DOMAIN p.opts
        [] op.name \in {"sh", "jq"} -> Len(ws) = 1
        [] op.name = "watch" -> p.ok /\ Len(p.pos) = 1 /\ IntOpt(p, <<"--poll-ms">>)
        [] op.name = "ingest" -> p.ok /\ Len(p.pos) = 1 /\ IntOpt(p, <<"--batch">>)
        [] OTHER -> p.ok

IsTable(word) == word \in {<<t>> : t \in Tables}

(* prepare of search and scan: the table, and the column to search in. *)
Prepares(op, ws) ==
  LET p == ParseTokens(ws)
      columns == Searchable[p.pos[1][1]]
  IN  CASE op.name = "search" ->
             /\ IsTable(p.pos[1]) /\ Embedder
             /\ IF <<"--col">> \in DOMAIN p.opts
                  THEN p.opts[<<"--col">>] \in {<<c>> : c \in columns}
                  ELSE Cardinality(columns) = 1
        [] op.name = "scan" -> IsTable(p.pos[1])
        [] OTHER -> TRUE

(* optimize_duck of grep. *)
Lowers(op, ws) == op.name = "grep" => ParseTokens(ws).opts[<<"--field">>] # <<"no-name">>

(* How many parameters an operator's SQL comes with, and how many places   *)
(* it has for them.                                                        *)
ParamsOf(op) ==
  CASE op.name = "search" -> (IF Backend = "vss" THEN 3 ELSE 2) [] op.name = "grep" -> 1 [] OTHER -> 0

HolesOf(op) ==
  CASE op.name = "search" -> 1 + (IF Backend = "vss" THEN 2 ELSE 1) [] op.name = "grep" -> 1 [] OTHER -> 0
=============================================================================
