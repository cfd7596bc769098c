------------------------------ MODULE Pipeline ------------------------------
(***************************************************************************)
(* One request in the pipeline compiler (service/pipeline_service.py): its *)
(* text is cut into segments, each is authorized and prepared, contiguous  *)
(* runs of one runtime are fused into phases, and the phases run one after *)
(* the other on a borrowed cursor (store_service.run_plan), a bash phase   *)
(* as a chain of processes.  Or it is given to stream() and compiled there.*)
(*                                                                         *)
(* Cursors are lent to one query after the other: what the last one left   *)
(* on this one, views and the _bridge table, is still there.               *)
(***************************************************************************)
EXTENDS Operators

CONSTANTS Requests,  \* [asks, text, given]: query or stream, its text, and how
                     \* many parameters the caller gives
          Policies,
          Plugins    \* operators a user tries to register

ASSUME RequestAssumption ==
  \A r \in Requests : r.asks \in {"query", "stream"} /\ r.text \in Seq(STRING) /\ r.given \in Nat

ASSUME PluginAssumption == IsFiniteSet(Plugins)

VARIABLES
  registry, policy, request,
  at,       \* where the request is
  segments, \* its text, once it is cut
  staged,   \* its segments, compiled as far as they are
  left,     \* the user's parameters nobody has taken
  plan,     \* its phases
  step,     \* the phase that runs
  rows,     \* what the last phase gave, or NoValue
  views,    \* the window of the views on the cursor
  bridge,   \* what the _bridge table on the cursor holds
  procs     \* the processes of the bash phase: runs, good, bad, killed

ground   == <<registry, policy, request>>
compiled == <<segments, staged, left, plan>>
cursor   == <<views, bridge>>
vars     == <<ground, at, compiled, step, rows, cursor, procs>>

(* A value is the list of what was applied to get it: which segment, with  *)
(* which parameters, seeing which window of the data.                      *)
NoValue == <<>>
Stale   == <<[seg |-> 0, params |-> <<>>, window |-> "another"]>>

User(n) == [i \in 1..n |-> <<"user", i>>]

Init ==
  /\ registry = RegisterAll(RegisterAll(<<>>, Builtins), Plugins)
  /\ policy \in Policies /\ request \in Requests
  /\ at = "text" /\ segments = <<>> /\ staged = <<>> /\ left = User(request.given) /\ plan = <<>>
  /\ step = 1 /\ rows = NoValue /\ procs = <<>>
  /\ \/ views = "none" /\ bridge = NoValue
     \/ views = "another" /\ bridge = Stale

OpOf(seg) == IF Lead(seg) # "" /\ Known(registry, Lead(seg)) THEN {Resolve(registry, Lead(seg))} ELSE {}

IsSQL(seg) == OpOf(seg) = {}
Op(seg)    == CHOOSE op \in OpOf(seg) : TRUE
Words(seg) == ShellWords(Tail(seg))

End(how) ==
  /\ at' = how
  /\ UNCHANGED <<ground, compiled, step, rows, cursor, procs>>

Refuse == End("refused")

-----------------------------------------------------------------------------
(* Compiling a query *)

(* query: no text, or an empty segment, is refused; SQL alone is the whole *)
(* plan.                                                                   *)
ReadText ==
  /\ at = "text" /\ request.asks = "query"
  /\ segments' = Split(Strip(request.text))
  /\ IF \E k \in DOMAIN segments' : segments'[k] = <<>>
       THEN at' = "refused" /\ UNCHANGED <<staged, left, plan>>
     ELSE IF Len(segments') = 1 /\ IsSQL(segments'[1])
       THEN /\ at' = "run"
            /\ staged' = <<[kind |-> "sql", seg |-> 1]>>
            /\ plan' = <<[kind |-> "sql", from |-> "none", parts |-> staged', params |-> left]>>
            /\ left' = <<>>
       ELSE at' = "stage" /\ UNCHANGED <<staged, left, plan>>
  /\ UNCHANGED <<ground, step, rows, cursor, procs>>

(* A query takes this operator here. *)
Admits(op, seg) ==
  /\ Permits(policy, op) /\ op.bounded /\ op.name # "ingest"
  /\ ShellOK(Tail(seg)) /\ ArgsOK(op, Words(seg))
  /\ Prepares(op, Words(seg))
  /\ op.duck = "none" => op.bash /\ ~op.source

(* The next segment is classified, authorized, its arguments read, and it  *)
(* is prepared.                                                            *)
Stage ==
  /\ at = "stage" /\ Len(staged) < Len(segments)
  /\ LET k == Len(staged) + 1
         seg == segments[k]
         kind == IF IsSQL(seg) THEN "sql" ELSE IF Op(seg).duck # "none" THEN "duck" ELSE "bash"
     IN  IF IF IsSQL(seg) THEN \E i \in DOMAIN seg : seg[i] = ";" ELSE ~Admits(Op(seg), seg)
         THEN Refuse
         ELSE /\ staged' = Append(staged, [kind |-> kind, seg |-> k])
              /\ UNCHANGED <<ground, at, segments, left, plan, step, rows, cursor, procs>>

OpAt(part) == Op(segments[part.seg])

(* Two neighbours are in one run. *)
Alike(a, b) == (a.kind = "bash") = (b.kind = "bash")

(* Where the fuser is, and where the run that starts there ends. *)
Fused ==
  IF plan = <<>> THEN 0 ELSE LET parts == plan[Len(plan)].parts IN parts[Len(parts)].seg

(* A bug to rule out: every segment is a run of its own. *)
RunEndAtOnce(i) == i

RunEnd(i) ==
  CHOOSE j \in i..Len(staged) :
    /\ \A k \in i..j : Alike(staged[i], staged[k])
    /\ j < Len(staged) => ~Alike(staged[i], staged[j + 1])

(* An operator of a duck run stands where it can. *)
Placed(parts, from, j) ==
  parts[j].kind = "duck" =>
    /\ OpAt(parts[j]).source <=> j = 1 /\ from = "none"
    /\ Lowers(OpAt(parts[j]), Words(segments[parts[j].seg]))

(* How many of the user's parameters the first j parts of a run take. *)
Takes(parts, j) ==
  FoldFunction(+, 0, [k \in 1..j |-> IF parts[k].kind = "sql" THEN NeedOf(segments[parts[k].seg]) ELSE 0])

OwnParams(part) == [n \in 1..ParamsOf(OpAt(part)) |-> <<"op", part.seg, n>>]

(* A bug to rule out: the operators' parameters are put behind the user's. *)
ParamsBehind(parts) ==
  LET own[j \in 0..Len(parts)] ==
        IF j = 0 THEN <<>>
        ELSE own[j - 1] \o (IF parts[j].kind = "duck" THEN OwnParams(parts[j]) ELSE <<>>)
  IN  SubSeq(left, 1, Takes(parts, Len(parts))) \o own[Len(parts)]

(* The parameters of a run, part after part. *)
Params(parts) ==
  LET upto[j \in 0..Len(parts)] ==
        IF j = 0 THEN <<>>
        ELSE upto[j - 1] \o (IF parts[j].kind = "duck" THEN OwnParams(parts[j])
                             ELSE SubSeq(left, Takes(parts, j - 1) + 1, Takes(parts, j)))
  IN  upto[Len(parts)]

(* The next run is fused: processes into one chain, SQL into one WITH      *)
(* chain, which reads _bridge if it follows a phase.  What the user gave   *)
(* must be taken in the end.                                               *)
Fuse ==
  /\ at = "stage" /\ Len(staged) = Len(segments)
  /\ IF Fused = Len(staged)
     THEN IF left # <<>> THEN Refuse ELSE End("run")
     ELSE LET i == Fused + 1
              parts == SubSeq(staged, i, RunEnd(i))
              from == IF plan = <<>> THEN "none" ELSE "_bridge"
          IN  IF parts[1].kind = "bash"
              THEN IF plan = <<>> THEN Refuse
                   ELSE /\ plan' = Append(plan, [kind |-> "bash", parts |-> parts])
                        /\ UNCHANGED <<ground, at, segments, staged, left, step, rows, cursor, procs>>
              ELSE IF \/ \E j \in DOMAIN parts : ~Placed(parts, from, j)
                      \/ Takes(parts, Len(parts)) > Len(left)
              THEN Refuse
              ELSE /\ plan' = Append(plan, [kind |-> "duck", from |-> from, parts |-> parts,
                                            params |-> Params(parts)])
                   /\ left' = SubSeq(left, Takes(parts, Len(parts)) + 1, Len(left))
                   /\ UNCHANGED <<ground, at, segments, staged, step, rows, cursor, procs>>

-----------------------------------------------------------------------------
(* Running the plan *)

Phase == plan[step]

(* _install_views, at the start of every run. *)
InstallViews == "asked"

Holes(part) == IF part.kind = "duck" THEN HolesOf(OpAt(part)) ELSE NeedOf(segments[part.seg])

(* What a WITH chain gives: DuckDB puts the parameters into the places for *)
(* them in order.  A source operator has its window in its SQL.            *)
Chain(phase, window) ==
  LET gone[j \in 0..Len(phase.parts)] == IF j = 0 THEN 0 ELSE gone[j - 1] + Holes(phase.parts[j])
      window_of(part) == IF part.kind = "duck" THEN "asked" ELSE window
      value[j \in 0..Len(phase.parts)] ==
        IF j = 0 THEN IF phase.from = "_bridge" THEN bridge ELSE NoValue
        ELSE Append(value[j - 1],
               [seg |-> phase.parts[j].seg,
                params |-> SubSeq(phase.params, gone[j - 1] + 1, gone[j]),
                window |-> IF j = 1 /\ phase.from = "none" THEN window_of(phase.parts[j]) ELSE "none"])
  IN  value[Len(phase.parts)]

(* The statement is one SELECT: no second statement in plain SQL, nothing  *)
(* that writes, no WITH of its own behind the WITH it is given; and as     *)
(* many parameters as places for them.                                     *)
Readable(phase) ==
  LET holes == FoldFunction(+, 0, [j \in DOMAIN phase.parts |-> Holes(phase.parts[j])])
  IN  /\ Len(phase.params) = holes
      /\ \A j \in DOMAIN phase.parts : phase.parts[j].kind = "sql" =>
           LET seg == segments[phase.parts[j].seg]
           IN  /\ \A i \in DOMAIN seg : seg[i] # ";"
               /\ Lead(seg) \in {"select", "from", "values"}
                    \cup (IF j = 1 /\ phase.from = "none" THEN {"with"} ELSE {})

(* After a phase: the next one, or the rows are the answer. *)
Proceed == IF step = Len(plan) THEN at' = "done" /\ UNCHANGED step ELSE at' = "next" /\ step' = step + 1

(* A duck phase, or run_query; DuckDB may refuse it for its own reasons. *)
RunDuck ==
  /\ at \in {"run", "next"} /\ Phase.kind # "bash"
  /\ \/ /\ views' = IF at = "run" THEN InstallViews ELSE views
        /\ Readable(Phase) /\ rows' = Chain(Phase, views') /\ Proceed
     \/ /\ views' \in {views, InstallViews}
        /\ at' = "failed" /\ UNCHANGED <<rows, step>>
  /\ UNCHANGED <<ground, compiled, bridge, procs>>

Tailmost == Len(Phase.parts)

InChain == at = "next" /\ Phase.kind = "bash"

(* A bug to rule out: only the last process is killed. *)
KilledLast == [p \in DOMAIN procs |-> IF p = Len(procs) THEN "killed" ELSE procs[p]]

(* finally: those that still run are killed. *)
Killed == [p \in DOMAIN procs |-> IF procs[p] = "runs" THEN "killed" ELSE procs[p]]

(* _run_bash_chain: the processes are started one after the other; a       *)
(* command may not be there.                                               *)
Spawn ==
  /\ InChain /\ Len(procs) < Tailmost
  /\ \/ procs' = Append(procs, "runs") /\ UNCHANGED at
     \/ at' = "failed" /\ procs' = Killed
  /\ UNCHANGED <<ground, compiled, step, rows, cursor>>

Started == InChain /\ Len(procs) = Tailmost

ProcessEnds(p) ==
  /\ at = "next" /\ p \in DOMAIN procs /\ procs[p] = "runs"
  /\ \E how \in {"good", "bad"} : procs' = [procs EXCEPT ![p] = how]
  /\ UNCHANGED <<ground, at, compiled, step, rows, cursor>>

(* A bug to rule out: the time limit is that of a chain of one. *)
TimesOutAlone ==
  /\ Started /\ Tailmost = 1 /\ procs[Tailmost] = "runs"
  /\ at' = "failed"
  /\ procs' = Killed
  /\ UNCHANGED <<ground, compiled, step, rows, cursor>>

(* The clock runs while the last process does. *)
TimesOut ==
  /\ Started /\ procs[Tailmost] = "runs"
  /\ at' = "failed"
  /\ procs' = Killed
  /\ UNCHANGED <<ground, compiled, step, rows, cursor>>

(* _load_bridge: CREATE OR REPLACE. *)
LoadBridge(value) == value

(* What the phase's processes make of the rows.  One that fails has passed *)
(* on a part of them.                                                      *)
Piped ==
  rows \o [p \in 1..Tailmost |->
             [seg |-> Phase.parts[p].seg, params |-> <<>>,
              window |-> IF procs[p] = "good" THEN "none" ELSE "part"]]

(* All have ended; the exit code of the last one counts.  Its output is    *)
(* the answer, or the next phase's _bridge; it may not be JSON.            *)
Collect ==
  /\ Started /\ \A p \in 1..Tailmost : procs[p] # "runs"
  /\ \/ /\ procs[Tailmost] = "good"
        /\ rows' = Piped
        /\ bridge' = IF step < Len(plan) THEN LoadBridge(rows') ELSE bridge
        /\ Proceed
     \/ at' = "failed" /\ UNCHANGED <<rows, bridge, step>>
  /\ procs' = <<>>
  /\ UNCHANGED <<ground, compiled, views>>

-----------------------------------------------------------------------------
(* Compiling a stream *)

(* A bug to rule out: any operator can be a stream's source. *)
StreamsAny(segs) ==
  /\ Len(segs) >= 2
  /\ \A k \in DOMAIN segs :
       /\ segs[k] # <<>> /\ ~IsSQL(segs[k]) /\ Permits(policy, Op(segs[k]))
       /\ ShellOK(Tail(segs[k])) /\ ArgsOK(Op(segs[k]), Words(segs[k]))

(* _compile: operators only, an unbounded source, processes, ingest into a *)
(* table there is.                                                         *)
Streams(segs) ==
  /\ Len(segs) >= 2
  /\ \A k \in DOMAIN segs :
       /\ segs[k] # <<>> /\ ~IsSQL(segs[k]) /\ Permits(policy, Op(segs[k]))
       /\ ShellOK(Tail(segs[k])) /\ ArgsOK(Op(segs[k]), Words(segs[k]))
  /\ ~Op(segs[1]).bounded
  /\ Op(segs[Len(segs)]).name = "ingest"
  /\ IsTable(ParseTokens(Words(segs[Len(segs)])).pos[1])
  /\ \A k \in 2..(Len(segs) - 1) : Op(segs[k]).bash

CompileStream ==
  /\ at = "text" /\ request.asks = "stream"
  /\ segments' = Split(request.text)
  /\ at' = IF Streams(segments') THEN "streaming" ELSE "refused"
  /\ UNCHANGED <<ground, staged, left, plan, step, rows, cursor, procs>>

Next ==
  \/ ReadText \/ Stage \/ Fuse \/ CompileStream
  \/ RunDuck \/ Spawn \/ TimesOut \/ Collect
  \/ \E p \in 1..Len(procs) : ProcessEnds(p)

(* The read thread goes on, and so does the clock; no process owes an end. *)
Fairness == WF_vars(Spawn \/ TimesOut \/ Collect)

Spec == Init /\ [][Next]_vars /\ Fairness

-----------------------------------------------------------------------------
(* Properties *)

TypeOK ==
  /\ at \in {"text", "stage", "run", "next", "done", "failed", "refused", "streaming"}
  /\ request.asks \in {"query", "stream"} /\ policy \in Policies
  /\ \A k \in DOMAIN staged : staged[k].kind \in {"sql", "duck", "bash"} /\ staged[k].seg = k
  /\ views \in {"none", "another", "asked"}
  /\ step \in 1..(Len(plan) + 1)
  /\ \A p \in DOMAIN procs : procs[p] \in {"runs", "good", "bad", "killed"}
  \* run_plan's phases: duck first, and never two of a kind in a row
  /\ \A n \in DOMAIN plan : (plan[n].kind = "bash") <=> (n % 2 = 0)
  /\ at \in {"run", "next", "done"} => Fused = Len(segments)

(* The two scanners of pipeline_service.py (35-89) have one idea of what a *)
(* literal is: a text is cut at the bars outside literals, no segment can  *)
(* be cut again, and the segments' placeholders are the text's.            *)
ScannersAgree ==
  at = "text" =>
    LET t == request.text
        segs == Split(t)
    IN  /\ Cuts(t) = TrueCuts(t) /\ Placeholders(t) = TruePlaceholders(t)
        /\ \A k \in DOMAIN segs : Cuts(segs[k]) = {}
        /\ FoldFunction(+, 0, [k \in DOMAIN segs |-> NeedOf(segs[k])]) = NeedOf(t)

(* An answer is that of its text: every segment applied once, in order,    *)
(* over however many runtimes, to the data of the window asked for and to  *)
(* nothing another query has left on the cursor; every place for a         *)
(* parameter has its own, the caller's in the order of the text.  The code *)
(* sees only the last process of a bash phase fail (store_service.py:168): *)
(* of one before it a part may have been passed on as the whole.           *)
AnswerIsTheTexts ==
  at = "done" =>
    LET mine(k) == IF IsSQL(segments[k])
                     THEN [i \in 1..NeedOf(segments[k]) |->
                             <<"user", i + FoldFunction(+, 0, [j \in 1..(k - 1) |->
                                IF IsSQL(segments[j]) THEN NeedOf(segments[j]) ELSE 0])>>]
                     ELSE [i \in 1..ParamsOf(Op(segments[k])) |-> <<"op", k, i>>]
        bash(k) == k \in DOMAIN segments /\ staged[k].kind = "bash"
    IN  /\ Len(rows) = Len(segments)
        /\ \A k \in DOMAIN rows :
             /\ rows[k].seg = k /\ rows[k].params = mine(k)
             /\ \/ rows[k].window = (IF k = 1 THEN "asked" ELSE "none")
                \/ rows[k].window = "part" /\ bash(k) /\ bash(k + 1)

(* "deny wins over everything", and the default policy runs no process and *)
(* writes no file: whatever the text, nothing runs one of whose operators  *)
(* has a name or a capability that is denied, or not one of its mode.      *)
NothingForbiddenRuns ==
  at \in {"run", "next", "done", "failed", "streaming"} =>
    \A k \in DOMAIN segments :
      LET seg == segments[k]
      IN  ~IsSQL(seg) =>
            /\ Op(seg).name \notin policy.deny
            /\ Op(seg).caps \cap policy.denyCaps = {}
            /\ policy.mode = "read-only" => Op(seg).caps \cap {"exec", "fs_write"} = {}

(* A text is a query or a stream: what the one compiler takes the other    *)
(* one refuses, so no query can land rows and none waits for a source that *)
(* does not end.                                                           *)
QueryOrStream == at \in {"run", "next", "done", "failed"} => ~Streams(segments)

(* "an operator taking one of these names would make that SQL unreachable" *)
(* (registry.py:17), and no operator takes another's place.                *)
NamesKeepTheirMeaning ==
  /\ \A word \in {"select", "SELECT", "with", "from"} : ~Known(registry, word)
  /\ \A op \in Builtins : Resolve(registry, op.name) = op

(* A bash phase leaves no process behind, whether it ends well, fails to   *)
(* start or runs out of time (store_service.py:175, finally).              *)
NoProcessLeft == ~InChain => \A p \in DOMAIN procs : procs[p] # "runs"

(* A bash phase ends, whatever its processes do.  The limit is that of the *)
(* last process: one before it that goes on after the last has ended is    *)
(* waited for without a limit (store_service.py:166).                      *)
ChainEnds ==
  \A n \in 1..4 :
    InChain /\ step = n ~>
      \/ ~InChain \/ step # n
      \/ Len(procs) = Tailmost /\ procs[Tailmost] # "runs" /\ \E p \in 1..Tailmost : procs[p] = "runs"
=============================================================================
