--------------------------- MODULE PipelineProofs ---------------------------
(***************************************************************************)
(* The pipeline compiler, for any text, operators and policy: what it lets *)
(* run, that a text is a query or a stream, how its plan is made up, how   *)
(* its text is read, that no process outlives its chain, and that the      *)
(* answer is that of the text.                                             *)
(***************************************************************************)
EXTENDS Pipeline, NumberLemmas, SequenceTheorems, FiniteSetTheorems

-----------------------------------------------------------------------------
(* Cutting a text *)

IsCuts(t, f) == f = [i \in 1..(Len(t) + 2) |-> CutRow(t, i, f[i + 1], f[i + 2])]

(* Cuts picks a function that scans the text from its end. *)
LEMMA CutsChosen ==
  ASSUME NEW t
  PROVE  Cuts(t) = (CHOOSE f : IsCuts(t, f))[1][""]
BY DEF Cuts, IsCuts

Found(t) == [Quotes \cup {""} -> SUBSET (1..Len(t))]

(* A row of that scan gives positions of the text. *)
LEMMA CutRowType ==
  ASSUME NEW t, Len(t) \in Nat, NEW i \in 1..Len(t), NEW x \in Found(t), NEW y \in Found(t)
  PROVE  CutRow(t, i, x, y) \in Found(t)
BY DEF CutRow, Found, Quotes

(* A text is cut at some of its positions. *)
LEMMA CutsType ==
  ASSUME NEW t, Len(t) \in Nat
  PROVE  Cuts(t) \subseteq 1..Len(t)
<1>0. PICK n \in Nat : n = Len(t)
  OBVIOUS
<1> DEFINE X == Found(t)
           z == [q \in Quotes \cup {""} |-> {}]
           H == [i \in 1..n |-> [x \in X |-> [y \in X |-> CutRow(t, i, x, y)]]]
<1>1. z \in X
  BY DEF Found
<1>2. H \in Steps(n, X)
  BY <1>0, CutRowType DEF Steps
<1>3. \A i \in 1..n : \A x \in X : \A y \in X : H[i][x][y] = CutRow(t, i, x, y)
  OBVIOUS
<1>4. \A x, y : CutRow(t, n + 1, x, y) = z /\ CutRow(t, n + 2, x, y) = z
  <2>1. n + 1 > Len(t) /\ n + 2 > Len(t)
    BY <1>0
  <2> QED
    BY <2>1, Zenon DEF CutRow
<1> HIDE DEF H, z, X
<1>5. PICK f : f \in WorkedBack(n, X, z, H)
  BY <1>1, <1>2, Backwards
<1> USE <1>5 DEF WorkedBack
<1>6. IsCuts(t, f)
  <2>1. ASSUME NEW i \in 1..(n + 2) PROVE f[i] = CutRow(t, i, f[i + 1], f[i + 2])
    <3>1. CASE i \in 1..n
      <4>1. f[i + 1] \in X /\ f[i + 2] \in X
        BY <3>1
      <4> QED
        BY <1>3, <1>5, <3>1, <4>1
    <3>2. CASE i = n + 1 \/ i = n + 2
      BY <1>4, <1>5, <3>2, Zenon
    <3> QED
      BY <3>1, <3>2
  <2> QED
    BY <1>0, <2>1 DEF IsCuts
<1> DEFINE g == CHOOSE h : IsCuts(t, h)
<1>7. IsCuts(t, g)
  BY <1>6, Zenon
<1> HIDE DEF g
<1>8. \A i \in 1..(n + 2) : g[i] = CutRow(t, i, g[i + 1], g[i + 2])
  BY <1>0, <1>7, Zenon DEF IsCuts
<1>9. g[n + 1] = z /\ g[n + 2] = z
  <2>1. n + 1 \in 1..(n + 2) /\ n + 2 \in 1..(n + 2)
    OBVIOUS
  <2>2. g[n + 1] = CutRow(t, n + 1, g[(n + 1) + 1], g[(n + 1) + 2])
    BY <1>8, <2>1, Zenon
  <2>3. g[n + 2] = CutRow(t, n + 2, g[(n + 2) + 1], g[(n + 2) + 2])
    BY <1>8, <2>1, Zenon
  <2> QED
    BY <1>4, <2>2, <2>3, Zenon
<1>10. \A i \in 1..(n + 2) : g[i] \in X
  <2> DEFINE S == {i \in 1..(n + 2) : g[i] \in X}
  <2>1. n + 1 \in S /\ n + 2 \in S
    <3>1. n + 1 \in 1..(n + 2) /\ n + 2 \in 1..(n + 2)
      OBVIOUS
    <3> QED
      BY <1>1, <1>9, <3>1
  <2>2. ASSUME NEW i \in 1..n, i + 1 \in S, i + 2 \in S PROVE i \in S
    <3>1. i \in 1..(n + 2) /\ i \in 1..Len(t)
      BY <1>0
    <3>2. g[i + 1] \in X /\ g[i + 2] \in X
      BY <2>2
    <3>3. CutRow(t, i, g[i + 1], g[i + 2]) \in X
      BY <3>1, <3>2, CutRowType DEF X
    <3> QED
      BY <1>8, <3>1, <3>3
  <2> HIDE DEF S
  <2>3. 1..(n + 2) \subseteq S
    BY <2>1, <2>2, DownFrom
  <2> QED
    BY <2>3 DEF S
<1>11. 1 \in 1..(n + 2)
  OBVIOUS
<1>12. g[1][""] \in SUBSET (1..Len(t))
  BY <1>10, <1>11 DEF X, Found
<1> QED
  BY <1>12, CutsChosen DEF g

(* The text without the blanks around it is a text. *)
LEMMA StripType ==
  ASSUME NEW S, NEW t \in Seq(S)
  PROVE  Strip(t) \in Seq(S)
<1> DEFINE solid == {i \in 1..Len(t) : t[i] # " "}
           first == CHOOSE i \in solid : \A j \in solid : i <= j
           last == CHOOSE i \in solid : \A j \in solid : i >= j
<1>0. Strip(t) = IF solid = {} THEN <<>> ELSE SubSeq(t, first, last)
  BY Zenon DEF Strip
<1>1. CASE solid = {}
  <2> HIDE DEF solid, first, last
  <2> QED
    BY <1>0, <1>1
<1>2. CASE solid # {}
  <2>1. solid \subseteq 1..Len(t) /\ Len(t) \in Nat /\ solid \subseteq Nat
    <3>1. solid \subseteq 1..Len(t)
      BY Zenon
    <3> HIDE DEF solid
    <3> QED
      BY <3>1
  <2>2. PICK a \in solid : \A j \in solid : a <= j
    <3> HIDE DEF solid
    <3> QED
      BY <1>2, <2>1, SmallestIn
  <2>3. PICK b \in solid : \A j \in solid : b >= j
    <3> HIDE DEF solid
    <3> QED
      BY <1>2, <2>1, LargestIn
  <2>4. first \in solid /\ last \in solid
    <3> HIDE DEF solid
    <3> QED
      BY <2>2, <2>3, Zenon
  <2>5. first \in 1..Len(t) /\ last \in 1..Len(t)
    BY <2>4
  <2>6. Strip(t) = SubSeq(t, first, last)
    BY <1>0, <1>2, Zenon
  <2> HIDE DEF solid, first, last
  <2> QED
    BY <2>5, <2>6
<1> QED
  BY <1>1, <1>2

IsSeq(s) == s \in Seq({s[k] : k \in DOMAIN s})

(* A list stays one when something is put behind it. *)
LEMMA AppendIsSeq ==
  ASSUME NEW s, IsSeq(s), NEW x
  PROVE  /\ IsSeq(Append(s, x)) /\ Len(Append(s, x)) = Len(s) + 1
         /\ \A i \in 1..Len(s) : Append(s, x)[i] = s[i]
         /\ Append(s, x)[Len(s) + 1] = x
<1> DEFINE S == {s[k] : k \in DOMAIN s}
           a == Append(s, x)
<1>1. s \in Seq(S \cup {x})
  <2>1. s \in Seq(S)
    BY DEF IsSeq
  <2> HIDE DEF S
  <2> QED
    BY <2>1
<1>2. /\ a \in Seq(S \cup {x}) /\ Len(a) = Len(s) + 1
      /\ \A i \in 1..Len(s) : a[i] = s[i]
      /\ a[Len(s) + 1] = x
  <2> HIDE DEF S
  <2> QED
    BY <1>1
<1>3. Len(s) \in Nat /\ DOMAIN a = 1..(Len(s) + 1) /\ Len(s) + 1 \in Nat
  <2> HIDE DEF S, a
  <2> QED
    BY <1>1, <1>2
<1>4. a \in Seq({a[k] : k \in DOMAIN a})
  <2> HIDE DEF a
  <2>1. a = [k \in 1..(Len(s) + 1) |-> a[k]]
    BY <1>2, <1>3
  <2> QED
    BY <1>2, <1>3, <2>1
<1> QED
  BY <1>2, <1>4 DEF IsSeq

(* A sequence of anything has its length and its places. *)
LEMMA IsSeqType ==
  ASSUME NEW s, IsSeq(s)
  PROVE  Len(s) \in Nat /\ DOMAIN s = 1..Len(s)
<1> DEFINE S == {s[k] : k \in DOMAIN s}
<1>1. s \in Seq(S)
  BY DEF IsSeq
<1> HIDE DEF S
<1> QED
  BY <1>1

(* A text has segments, and they are a list. *)
LEMMA SplitType ==
  ASSUME NEW S, NEW t \in Seq(S)
  PROVE  IsSeq(Split(t)) /\ Len(Split(t)) >= 1
<1> DEFINE n == Cardinality(Cuts(t))
           s == Split(t)
<1>1. n \in Nat
  <2>1. Len(t) \in Nat
    OBVIOUS
  <2>2. IsFiniteSet(1..Len(t))
    BY <2>1, FS_Interval
  <2>3. Cuts(t) \subseteq 1..Len(t)
    BY <2>1, CutsType
  <2>4. IsFiniteSet(Cuts(t))
    BY <2>2, <2>3, FS_Subset
  <2> QED
    BY <2>4, FS_CardinalityType
<1>2. DOMAIN s = 1..(n + 1) /\ s = [k \in 1..(n + 1) |-> s[k]]
  BY DEF Split
<1> HIDE DEF s, n
<1>3. s \in Seq({s[k] : k \in 1..(n + 1)}) /\ Len(s) = n + 1
  BY <1>1, <1>2
<1> QED
  BY <1>1, <1>2, <1>3 DEF s, IsSeq

-----------------------------------------------------------------------------
(* The invariant *)

Part == [kind : {"sql", "duck", "bash"}, seg : Nat]

Compiled == {"run", "next", "done", "failed"}

Typed ==
  /\ at \in {"text", "stage", "refused", "streaming"} \cup Compiled
  /\ request \in Requests /\ policy \in Policies
  /\ IsSeq(segments) /\ staged \in Seq(Part) /\ IsSeq(plan)
  /\ views \in {"none", "another", "asked"}
  /\ procs \in Seq({"runs", "good", "bad", "killed"})

(* A segment a query may have. *)
Accepts(seg) == IsSQL(seg) \/ Admits(Op(seg), seg)

(* The segments are staged in order, and only those a query may have; the  *)
(* plan waits for the last of them.                                        *)
Staging ==
  /\ at = "text" => staged = <<>> /\ plan = <<>>
  /\ at # "text" => Len(segments) >= 1
  /\ Len(staged) <= Len(segments)
  /\ \A k \in 1..Len(staged) : staged[k].seg = k /\ Accepts(segments[k])
  /\ plan # <<>> \/ at \in Compiled => Len(staged) = Len(segments)

(* The phases alternate, and the last of them ends where a run ends. *)
Fusing ==
  /\ \A n \in 1..Len(plan) : plan[n].kind = "bash" <=> n % 2 = 0
  /\ plan # <<>> =>
       /\ Fused \in 1..Len(staged)
       /\ staged[Fused].kind = "bash" <=> plan[Len(plan)].kind = "bash"
       /\ Fused < Len(staged) => ~Alike(staged[Fused], staged[Fused + 1])
  /\ at \in Compiled => Fused = Len(segments)

Running ==
  /\ step \in 1..(Len(plan) + 1)
  /\ at \in {"run", "next"} => step \in 1..Len(plan)
  /\ at \in {"text", "stage"} => step = 1
  /\ at = "streaming" => Streams(segments)

Inv == Typed /\ Staging /\ Fusing /\ Running

-----------------------------------------------------------------------------
(* What a step leaves alone *)

(* What a query may have does not change while it is compiled and run. *)
LEMMA AcceptsStays ==
  ASSUME UNCHANGED <<ground, segments>>, NEW k
  PROVE  Accepts(segments[k])' <=> Accepts(segments[k])
BY DEF Accepts, IsSQL, Admits, OpOf, Op, Known, Resolve, Permits, ground

(* Nor does what is a stream. *)
LEMMA StreamsStays ==
  ASSUME UNCHANGED <<ground, segments>>
  PROVE  Streams(segments)' <=> Streams(segments)
BY DEF Streams, IsSQL, OpOf, Op, Known, Resolve, Permits, ground

(* A step that compiles nothing, and runs nothing but what is compiled. *)
LEMMA CompiledStays ==
  ASSUME Inv, UNCHANGED <<ground, compiled>>, at # "text", at' # "text",
         at' \in Compiled => Len(staged) = Len(segments) /\ Fused = Len(segments)
  PROVE  Staging' /\ Fusing'
<1>1. segments' = segments /\ staged' = staged /\ plan' = plan
  BY DEF compiled
<1>2. Fused' = Fused
  BY <1>1 DEF Fused
<1>3. Staging'
  <2>1. \A k : Accepts(segments[k])' <=> Accepts(segments[k])
    BY <1>1, AcceptsStays
  <2> QED
    BY <1>1, <2>1 DEF Inv, Staging
<1>4. Fusing'
  BY <1>1, <1>2 DEF Inv, Fusing, Alike
<1> QED
  BY <1>3, <1>4

(* A step that runs the plan. *)
LEMMA RunningStays ==
  ASSUME Inv, UNCHANGED <<ground, compiled>>, at \in {"run", "next"},
         at' \in {"run", "next", "done", "failed"},
         step' \in 1..(Len(plan) + 1), at' \in {"run", "next"} => step' \in 1..Len(plan),
         views' \in {"none", "another", "asked"},
         procs' \in Seq({"runs", "good", "bad", "killed"})
  PROVE  Inv'
<1>1. Staging' /\ Fusing'
  BY CompiledStays DEF Inv, Staging, Fusing, Compiled
<1>2. segments' = segments /\ staged' = staged /\ plan' = plan /\ request' = request /\ policy' = policy
  BY DEF ground, compiled
<1>3. Typed'
  BY <1>2 DEF Inv, Typed, Compiled
<1>4. Running'
  BY <1>2 DEF Inv, Running
<1> QED
  BY <1>1, <1>3, <1>4 DEF Inv

-----------------------------------------------------------------------------
(* The steps that run the plan *)

Ends == {"runs", "good", "bad", "killed"}

(* After a phase the step is one of the plan or the answer is there. *)
LEMMA ProceedKeeps ==
  ASSUME Inv, at \in {"run", "next"}, Proceed
  PROVE  /\ at' \in {"next", "done"} /\ step' \in 1..(Len(plan) + 1)
         /\ at' = "next" => step' \in 1..Len(plan)
<1>1. Len(plan) \in Nat /\ step \in 1..Len(plan)
  BY IsSeqType DEF Inv, Typed, Running
<1> QED
  BY <1>1 DEF Proceed

(* Killing the processes that run leaves a state for each of them. *)
LEMMA KilledType ==
  ASSUME procs \in Seq(Ends)
  PROVE  Killed \in Seq(Ends) /\ \A p \in DOMAIN Killed : Killed[p] # "runs"
BY DEF Killed, Ends

(* RunDuck keeps the invariant: it moves on in the plan. *)
LEMMA RunDuckKeeps == ASSUME Inv, RunDuck PROVE Inv'
<1>1. at \in {"run", "next"} /\ UNCHANGED <<ground, compiled, procs>>
  BY DEF RunDuck
<1>2. step \in 1..Len(plan) /\ procs \in Seq(Ends) /\ Len(plan) \in Nat /\ views \in {"none", "another", "asked"}
  BY <1>1, IsSeqType DEF Inv, Typed, Running, Ends
<1>3. CASE Proceed /\ views' = IF at = "run" THEN InstallViews ELSE views
  BY <1>1, <1>2, <1>3, ProceedKeeps, RunningStays DEF InstallViews, Ends
<1>4. CASE at' = "failed" /\ UNCHANGED step /\ views' \in {views, InstallViews}
  BY <1>1, <1>2, <1>4, RunningStays DEF InstallViews, Ends
<1> QED
  BY <1>3, <1>4 DEF RunDuck

(* So does a step of a bash chain that stays at its phase. *)
LEMMA ChainStepKeeps ==
  ASSUME Inv, UNCHANGED <<ground, compiled, step, rows, cursor>>, at = "next", at' \in {"next", "failed"},
         procs' \in Seq(Ends)
  PROVE  Inv'
<1>1. step \in 1..Len(plan) /\ views' \in {"none", "another", "asked"} /\ step' = step /\ Len(plan) \in Nat
  BY IsSeqType DEF Inv, Typed, Running, cursor
<1> QED
  BY <1>1, RunningStays DEF Ends

(* Spawn: one process more, or the chain fails. *)
LEMMA SpawnKeeps == ASSUME Inv, Spawn PROVE Inv'
<1>1. procs \in Seq(Ends) /\ "runs" \in Ends
  BY DEF Inv, Typed, Ends
<1>2. Append(procs, "runs") \in Seq(Ends)
  BY <1>1
<1>3. at = "next" /\ at' \in {"next", "failed"} /\ UNCHANGED <<ground, compiled, step, rows, cursor>>
  BY DEF Spawn, InChain
<1>4. procs' \in Seq(Ends)
  BY <1>1, <1>2, KilledType DEF Spawn
<1> QED
  BY <1>3, <1>4, ChainStepKeeps

(* ProcessEnds: one of the states of the processes changes. *)
LEMMA ProcessEndsKeeps == ASSUME Inv, NEW p, ProcessEnds(p) PROVE Inv'
<1>1. procs \in Seq(Ends)
  BY DEF Inv, Typed, Ends
<1>2. PICK how \in Ends : procs' = [procs EXCEPT ![p] = how]
  BY DEF ProcessEnds, Ends
<1>3. procs' \in Seq(Ends)
  <2>1. p \in 1..Len(procs)
    BY <1>1 DEF ProcessEnds
  <2>2. [procs EXCEPT ![p] = how] \in Seq(Ends)
    BY <1>1, <2>1, ExceptSeq
  <2> QED
    BY <1>2, <2>2
<1> QED
  BY <1>3, ChainStepKeeps DEF ProcessEnds

(* TimesOut: the run fails. *)
LEMMA TimesOutKeeps == ASSUME Inv, TimesOut PROVE Inv'
<1>1. procs \in Seq(Ends)
  BY DEF Inv, Typed, Ends
<1>2. procs' \in Seq(Ends)
  BY <1>1, KilledType DEF TimesOut
<1> QED
  BY <1>2, ChainStepKeeps DEF TimesOut, Started, InChain

(* Collect: it moves on in the plan. *)
LEMMA CollectKeeps == ASSUME Inv, Collect PROVE Inv'
<1>1. at = "next" /\ UNCHANGED <<ground, compiled, views>> /\ procs' = <<>>
  BY DEF Collect, Started, InChain
<1>2. step \in 1..Len(plan) /\ Len(plan) \in Nat /\ procs' \in Seq(Ends) /\ views \in {"none", "another", "asked"}
  BY <1>1, IsSeqType DEF Inv, Typed, Running
<1>3. CASE Proceed
  BY <1>1, <1>2, <1>3, ProceedKeeps, RunningStays DEF Ends
<1>4. CASE at' = "failed" /\ UNCHANGED step
  BY <1>1, <1>2, <1>4, RunningStays DEF Ends
<1> QED
  BY <1>3, <1>4 DEF Collect

-----------------------------------------------------------------------------
(* The steps that compile *)

(* A request that has not been read has no segments, no plan and no phase. *)
LEMMA InitHolds == Init => Inv
<1> SUFFICES ASSUME Init PROVE Inv
  OBVIOUS
<1>1. /\ at = "text" /\ segments = <<>> /\ staged = <<>> /\ plan = <<>> /\ step = 1 /\ procs = <<>>
      /\ request \in Requests /\ policy \in Policies /\ views \in {"none", "another"}
  BY DEF Init
<1>2. Typed
  <2>1. IsSeq(<<>>)
    BY DEF IsSeq
  <2>2. <<>> \in Seq(Part) /\ <<>> \in Seq({"runs", "good", "bad", "killed"})
    BY DEF Part
  <2> QED
    BY <1>1, <2>1, <2>2 DEF Typed
<1>3. Staging
  BY <1>1 DEF Staging, Compiled
<1>4. Fusing
  BY <1>1 DEF Fusing, Compiled
<1>5. Running
  BY <1>1 DEF Running
<1> QED
  BY <1>2, <1>3, <1>4, <1>5 DEF Inv

(* ReadText cuts the text, and refuses it or compiles SQL alone to a plan  *)
(* of one phase.                                                           *)
LEMMA ReadTextKeeps == ASSUME Inv, ReadText PROVE Inv'
<1>1. /\ at = "text" /\ segments' = Split(Strip(request.text))
      /\ UNCHANGED <<ground, step, rows, cursor, procs>>
  BY DEF ReadText
<1>2. staged = <<>> /\ plan = <<>> /\ step = 1 /\ request \in Requests
  BY <1>1 DEF Inv, Typed, Staging, Running
<1>3. IsSeq(segments') /\ Len(segments') >= 1
  <2>1. request.text \in Seq(STRING)
    BY <1>2, RequestAssumption
  <2>2. Strip(request.text) \in Seq(STRING)
    BY <2>1, StripType
  <2> QED
    BY <1>1, <2>2, SplitType
<1>4. Len(segments') \in Nat
  BY <1>3, IsSeqType
<1>5. registry' = registry /\ policy' = policy /\ request' = request /\ views' = views /\ procs' = procs /\ step' = 1
  BY <1>1, <1>2 DEF ground, cursor
<1>6. CASE at' \in {"refused", "stage"} /\ UNCHANGED <<staged, left, plan>>
  <2>1. staged' = <<>> /\ plan' = <<>>
    BY <1>2, <1>6
  <2>2. Typed'
    BY <1>3, <1>5, <1>6 DEF Inv, Typed
  <2>3. Staging'
    BY <1>3, <1>4, <1>6, <2>1 DEF Staging, Compiled
  <2>4. Fusing'
    BY <1>6, <2>1 DEF Fusing, Compiled
  <2>5. Running'
    BY <1>5, <1>6, <2>1 DEF Running
  <2> QED
    BY <2>2, <2>3, <2>4, <2>5 DEF Inv
<1>7. CASE /\ Len(segments') = 1 /\ IsSQL(segments'[1]) /\ at' = "run"
           /\ staged' = <<[kind |-> "sql", seg |-> 1]>>
           /\ plan' = <<[kind |-> "sql", from |-> "none", parts |-> staged', params |-> left]>>
  <2>1. Len(staged') = 1 /\ staged'[1].seg = 1 /\ staged'[1].kind = "sql" /\ staged' \in Seq(Part)
    BY <1>7 DEF Part
  <2>2. Len(plan') = 1 /\ plan'[1].kind = "sql" /\ plan'[1].parts = staged' /\ plan' # <<>> /\ IsSeq(plan')
    BY <1>7 DEF IsSeq
  <2>3. Fused' = 1
    BY <2>1, <2>2 DEF Fused
  <2>4. Accepts(segments[1])'
    BY <1>5, <1>7 DEF Accepts, IsSQL, OpOf, Known, Resolve
  <2>5. Typed'
    BY <1>3, <1>5, <1>7, <2>1, <2>2 DEF Inv, Typed, Compiled
  <2>6. Staging'
    <3>1. \A k \in 1..1 : k = 1
      OBVIOUS
    <3> QED
      BY <1>7, <2>1, <2>4, <3>1 DEF Staging, Compiled
  <2>7. Fusing'
    <3>1. \A k \in 1..1 : k = 1 /\ k % 2 = 1
      OBVIOUS
    <3>2. 1 \in 1..1 /\ ~(1 < 1)
      OBVIOUS
    <3>3. \A n \in 1..1 : plan'[n].kind = "bash" <=> n % 2 = 0
      BY <2>2, <3>1
    <3> QED
      BY <1>7, <2>1, <2>2, <2>3, <3>2, <3>3 DEF Fusing
  <2>8. Running'
    BY <1>5, <1>7, <2>2 DEF Running
  <2> QED
    BY <2>5, <2>6, <2>7, <2>8 DEF Inv
<1> QED
  BY <1>1, <1>6, <1>7 DEF ReadText

(* Stage takes only what a query may have. *)
LEMMA StageKeeps == ASSUME Inv, Stage PROVE Inv'
<1> DEFINE k == Len(staged) + 1
           seg == segments[k]
           kind == IF IsSQL(seg) THEN "sql" ELSE IF Op(seg).duck # "none" THEN "duck" ELSE "bash"
<1>1. at = "stage" /\ Len(staged) < Len(segments)
  BY DEF Stage
<1>2. CASE Refuse
  <2>1. at' = "refused" /\ UNCHANGED <<ground, compiled, step, rows, cursor, procs>>
    BY <1>2 DEF Refuse, End
  <2>2. Staging' /\ Fusing'
    BY <1>1, <2>1, CompiledStays DEF Compiled
  <2>3. Typed' /\ Running'
    BY <1>1, <2>1 DEF Inv, Typed, Running, ground, compiled, cursor
  <2> QED
    BY <2>2, <2>3 DEF Inv
<1>3. CASE /\ Accepts(seg)
           /\ staged' = Append(staged, [kind |-> kind, seg |-> k])
           /\ UNCHANGED <<ground, at, segments, left, plan, step, rows, cursor, procs>>
  <2>1. staged \in Seq(Part) /\ Len(staged) \in Nat /\ Len(segments) \in Nat
    BY IsSeqType DEF Inv, Typed
  <2>2. [kind |-> kind, seg |-> k] \in Part
    BY <2>1 DEF Part
  <2>3. plan = <<>> /\ plan' = <<>>
    BY <1>1, <1>3, <2>1 DEF Inv, Staging
  <2>4. /\ staged' \in Seq(Part) /\ Len(staged') = k
        /\ \A i \in 1..Len(staged) : staged'[i] = staged[i]
        /\ staged'[k].seg = k
    <3> DEFINE r == [kind |-> kind, seg |-> k]
    <3>1. r.seg = k
      BY Zenon
    <3> HIDE DEF r
    <3> QED
      BY <1>3, <2>1, <2>2, <3>1 DEF r
  <2> HIDE DEF kind
  <2>5. Staging'
    <3>1. \A i : Accepts(segments[i])' <=> Accepts(segments[i])
      BY <1>3, AcceptsStays
    <3>2. ASSUME NEW i \in 1..k PROVE staged'[i].seg = i /\ Accepts(segments[i])
      <4>1. i \in 1..Len(staged) \/ i = k
        BY <2>1
      <4> QED
        BY <1>3, <2>4, <4>1 DEF Inv, Staging
    <3>3. k <= Len(segments)
      BY <1>1, <2>1
    <3> QED
      BY <1>1, <1>3, <2>3, <2>4, <3>1, <3>2, <3>3 DEF Inv, Staging, Compiled
  <2>6. Typed' /\ Running' /\ Fusing'
    BY <1>1, <1>3, <2>3, <2>4 DEF Inv, Typed, Running, Fusing, Compiled, ground, cursor
  <2> QED
    BY <2>5, <2>6 DEF Inv
<1> QED
  BY <1>1, <1>2, <1>3, Zenon DEF Stage, Accepts

(* CompileStream takes only what is a stream. *)
LEMMA CompileStreamKeeps == ASSUME Inv, CompileStream PROVE Inv'
<1>1. /\ at = "text" /\ segments' = Split(request.text) /\ at' \in {"streaming", "refused"}
      /\ at' = "streaming" => Streams(segments')
      /\ UNCHANGED <<ground, staged, left, plan, step, rows, cursor, procs>>
  BY DEF CompileStream
<1>2. /\ staged' = <<>> /\ plan' = <<>> /\ step' = 1 /\ request \in Requests /\ registry' = registry
      /\ policy' = policy
  BY <1>1 DEF Inv, Typed, Staging, Running, ground
<1>3. IsSeq(segments') /\ Len(segments') >= 1
  BY <1>1, <1>2, RequestAssumption, SplitType
<1>4. Len(segments') \in Nat
  BY <1>3, IsSeqType
<1>5. Typed'
  BY <1>1, <1>3 DEF Inv, Typed, ground, cursor
<1>6. Staging' /\ Fusing'
  BY <1>1, <1>2, <1>3, <1>4 DEF Staging, Fusing, Compiled
<1>7. Streams(segments)' <=> Streams(segments')
  BY <1>2 DEF Streams, IsSQL, OpOf, Op, Known, Resolve
<1>8. Running'
  BY <1>1, <1>2, <1>7 DEF Running
<1> QED
  BY <1>5, <1>6, <1>8 DEF Inv

(* There is a place where a run ends. *)
LEMMA RunEnds ==
  ASSUME staged \in Seq(Part), NEW i \in 1..Len(staged)
  PROVE  LET j == RunEnd(i)
         IN  /\ j \in i..Len(staged) /\ Alike(staged[i], staged[j])
             /\ \A k \in i..j : Alike(staged[i], staged[k])
             /\ j < Len(staged) => ~Alike(staged[i], staged[j + 1])
<1> DEFINE Ending(j) == /\ \A k \in i..j : Alike(staged[i], staged[k])
                        /\ j < Len(staged) => ~Alike(staged[i], staged[j + 1])
           J == {j \in i..Len(staged) : \A k \in i..j : Alike(staged[i], staged[k])}
<1>0. Len(staged) \in Nat
  OBVIOUS
<1>1. J \subseteq 1..Len(staged) /\ J # {}
  <2>1. \A k \in i..i : k = i
    BY <1>0
  <2>2. Alike(staged[i], staged[i])
    BY DEF Alike
  <2>3. i \in i..Len(staged)
    BY <1>0
  <2>4. i \in J
    BY <2>1, <2>2, <2>3
  <2>5. i..Len(staged) \subseteq 1..Len(staged)
    BY <1>0
  <2> QED
    BY <2>4, <2>5
<1>2. PICK m \in J : \A n \in J : n <= m
  <2> HIDE DEF J
  <2> QED
    BY <1>0, <1>1, LargestIn
<1>3. m \in i..Len(staged) /\ \A k \in i..m : Alike(staged[i], staged[k])
  OBVIOUS
<1>4. ASSUME m < Len(staged), Alike(staged[i], staged[m + 1]) PROVE FALSE
  <2>1. m + 1 \in i..Len(staged) /\ ~(m + 1 <= m)
    BY <1>0, <1>3, <1>4
  <2>2. \A k \in i..(m + 1) : k \in i..m \/ k = m + 1
    BY <1>0, <1>3
  <2>3. m + 1 \in J
    BY <1>3, <1>4, <2>1, <2>2
  <2> HIDE DEF J
  <2> QED
    BY <1>2, <2>1, <2>3
<1>5. \E j \in i..Len(staged) : Ending(j)
  BY <1>3, <1>4
<1>6. RunEnd(i) = CHOOSE j \in i..Len(staged) : Ending(j)
  BY Zenon DEF RunEnd
<1> HIDE DEF Ending
<1>7. RunEnd(i) \in i..Len(staged) /\ Ending(RunEnd(i))
  BY <1>5, <1>6, Zenon
<1>8. RunEnd(i) \in i..RunEnd(i)
  BY <1>0, <1>7
<1> QED
  BY <1>7, <1>8 DEF Ending

(* Every second number is even. *)
LEMMA Parity == \A n \in Nat : (n + 1) % 2 = 0 <=> ~(n % 2 = 0)
OBVIOUS

(* The next phase is of the other kind than the last one, and ends where a *)
(* run ends.                                                               *)
LEMMA PhaseAdded ==
  ASSUME Inv, at = "stage", Len(staged) = Len(segments), Fused # Len(staged),
         NEW phase, phase.parts = SubSeq(staged, Fused + 1, RunEnd(Fused + 1)),
         phase.kind = "bash" <=> staged[Fused + 1].kind = "bash",
         plan = <<>> => phase.kind # "bash",
         plan' = Append(plan, phase),
         UNCHANGED <<ground, at, segments, staged, step, rows, cursor, procs>>
  PROVE  Inv'
<1> DEFINE i == Fused + 1
           e == RunEnd(i)
<1>1. /\ staged \in Seq(Part) /\ Len(staged) \in Nat /\ Len(segments) \in Nat /\ IsSeq(plan)
      /\ Len(plan) \in Nat
  BY IsSeqType DEF Inv, Typed
<1>2. Fused \in 0..Len(staged) /\ i \in 1..Len(staged) /\ i \in Nat
  <2>1. Fused \in 0..Len(staged)
    <3>1. CASE plan = <<>>
      BY <1>1, <3>1 DEF Fused
    <3>2. CASE plan # <<>>
      BY <1>1, <3>2 DEF Inv, Fusing
    <3> QED
      BY <3>1, <3>2
  <2> QED
    BY <1>1, <2>1
<1> HIDE DEF i, e
<1>3. /\ e \in i..Len(staged) /\ Alike(staged[i], staged[e])
      /\ e < Len(staged) => ~Alike(staged[i], staged[e + 1])
  BY <1>1, <1>2, RunEnds DEF e
<1>4. Len(phase.parts) = e - i + 1 /\ Len(phase.parts) \in Nat /\ phase.parts[Len(phase.parts)] = staged[e]
  <2>1. phase.parts = SubSeq(staged, i, e)
    BY DEF i, e
  <2>2. e - i + 1 \in Nat /\ e <= Len(staged)
    BY <1>1, <1>2, <1>3
  <2>3. e - i + 1 >= 1 /\ i + (e - i + 1) - 1 = e
    BY <1>1, <1>2, <1>3
  <2>4. SubSeq(staged, i, e) = [k \in 1..(e - i + 1) |-> staged[i + k - 1]]
    BY <1>1, <1>2, <1>3
  <2>5. Len(SubSeq(staged, i, e)) = e - i + 1
    BY <1>1, <1>2, <1>3, <2>2
  <2>6. e - i + 1 \in 1..(e - i + 1)
    BY <2>2, <2>3
  <2>7. SubSeq(staged, i, e)[e - i + 1] = staged[i + (e - i + 1) - 1]
    BY <2>4, <2>6, Zenon
  <2> QED
    BY <2>1, <2>2, <2>3, <2>5, <2>7
<1>5. e \in 1..Len(staged) /\ staged[e].seg = e
  BY <1>1, <1>2, <1>3 DEF Inv, Staging
<1>6. /\ IsSeq(plan') /\ Len(plan') = Len(plan) + 1 /\ plan'[Len(plan')] = phase
      /\ \A n \in 1..Len(plan) : plan'[n] = plan[n]
  BY <1>1, AppendIsSeq
<1>7. plan' # <<>>
  BY <1>1, <1>6
<1>8. Fused' = e
  BY <1>4, <1>5, <1>6, <1>7 DEF Fused
<1>9. phase.kind = "bash" <=> Len(plan') % 2 = 0
  <2>1. CASE plan = <<>>
    <3>1. Len(plan') = 1
      BY <1>6, <2>1
    <3> QED
      BY <2>1, <3>1
  <2>2. CASE plan # <<>>
    <3>1. Len(plan) \in 1..Len(plan)
      BY <1>1, <2>2 DEF IsSeq
    <3>2. plan[Len(plan)].kind = "bash" <=> Len(plan) % 2 = 0
      BY <3>1 DEF Inv, Fusing
    <3>3. staged[Fused].kind = "bash" <=> plan[Len(plan)].kind = "bash"
      BY <2>2 DEF Inv, Fusing
    <3>4. ~Alike(staged[Fused], staged[Fused + 1])
      BY <1>1, <1>2, <2>2 DEF Inv, Fusing
    <3>5. phase.kind = "bash" <=> ~(plan[Len(plan)].kind = "bash")
      BY <3>3, <3>4 DEF Alike
    <3> QED
      BY <1>1, <1>6, <3>2, <3>5, Parity
  <2> QED
    BY <2>1, <2>2
<1>10. Typed'
  BY <1>6 DEF Inv, Typed, ground, cursor
<1>11. Staging'
  <2>1. \A k : Accepts(segments[k])' <=> Accepts(segments[k])
    BY AcceptsStays
  <2> QED
    BY <1>7, <2>1 DEF Inv, Staging, Compiled
<1>12. Fusing'
  <2>1. ASSUME NEW n \in 1..Len(plan') PROVE plan'[n].kind = "bash" <=> n % 2 = 0
    <3>1. n \in 1..Len(plan) \/ n = Len(plan')
      BY <1>1, <1>6
    <3> QED
      BY <1>6, <1>9, <3>1 DEF Inv, Fusing
  <2>2. staged[e].kind = "bash" <=> phase.kind = "bash"
    BY <1>3 DEF Alike, i
  <2>3. e < Len(staged) => ~Alike(staged[e], staged[e + 1])
    BY <1>3 DEF Alike
  <2> QED
    BY <1>5, <1>6, <1>8, <2>1, <2>2, <2>3 DEF Fusing, Compiled, Alike
<1>13. Running'
  BY <1>1, <1>6 DEF Inv, Running
<1> QED
  BY <1>10, <1>11, <1>12, <1>13 DEF Inv

(* Fuse adds the run that starts where the last phase ended. *)
LEMMA FuseKeeps == ASSUME Inv, Fuse PROVE Inv'
<1>1. at = "stage" /\ Len(staged) = Len(segments)
  BY DEF Fuse
<1>2. Len(staged) \in Nat /\ Len(plan) \in Nat /\ Len(segments) >= 1 /\ step = 1
  BY <1>1, IsSeqType DEF Inv, Typed, Staging, Running
<1>3. CASE Refuse
  <2>1. at' = "refused" /\ UNCHANGED <<ground, compiled, step, rows, cursor, procs>>
    BY <1>3 DEF Refuse, End
  <2>2. Staging' /\ Fusing'
    BY <1>1, <2>1, CompiledStays DEF Compiled
  <2>3. Typed' /\ Running'
    BY <1>1, <2>1 DEF Inv, Typed, Running, ground, compiled, cursor
  <2> QED
    BY <2>2, <2>3 DEF Inv
<1>4. CASE Fused = Len(staged) /\ End("run")
  <2>1. at' = "run" /\ UNCHANGED <<ground, compiled, step, rows, cursor, procs>>
    BY <1>4 DEF End
  <2>2. Staging' /\ Fusing'
    BY <1>1, <1>4, <2>1, CompiledStays DEF Compiled
  <2>3. plan # <<>>
    BY <1>1, <1>2, <1>4 DEF Fused
  <2>4. Len(plan) >= 1
    BY <1>2, <2>3 DEF Inv, Typed, IsSeq
  <2>5. Typed' /\ Running'
    BY <1>1, <1>2, <2>1, <2>4 DEF Inv, Typed, Running, Compiled, ground, compiled, cursor
  <2> QED
    BY <2>2, <2>5 DEF Inv
<1>5. ASSUME Fused # Len(staged), ~Refuse PROVE Inv'
  <2> DEFINE i == Fused + 1
             parts == SubSeq(staged, i, RunEnd(i))
             from == IF plan = <<>> THEN "none" ELSE "_bridge"
  <2>1. parts[1] = staged[i]
    <3>1. Fused \in 0..Len(staged)
      BY <1>2 DEF Inv, Fusing, Fused
    <3>2. i \in 1..Len(staged) /\ staged \in Seq(Part)
      BY <1>2, <1>5, <3>1 DEF Inv, Typed
    <3>3. RunEnd(i) \in i..Len(staged)
      BY <3>2, RunEnds
    <3> HIDE DEF i
    <3> QED
      BY <1>2, <3>2, <3>3
  <2>2. CASE parts[1].kind = "bash"
    <3> DEFINE phase == [kind |-> "bash", parts |-> parts]
    <3>1. /\ plan # <<>> /\ plan' = Append(plan, phase)
          /\ UNCHANGED <<ground, at, segments, staged, left, step, rows, cursor, procs>>
      BY <1>5, <2>2 DEF Fuse
    <3>2. phase.parts = SubSeq(staged, Fused + 1, RunEnd(Fused + 1)) /\ phase.kind = "bash"
      OBVIOUS
    <3> HIDE DEF parts, phase
    <3> QED
      BY <1>1, <1>5, <2>1, <2>2, <3>1, <3>2, PhaseAdded
  <2>3. CASE parts[1].kind # "bash"
    <3> DEFINE phase == [kind |-> "duck", from |-> from, parts |-> parts, params |-> Params(parts)]
    <3>1. /\ plan' = Append(plan, phase)
          /\ UNCHANGED <<ground, at, segments, staged, step, rows, cursor, procs>>
      BY <1>5, <2>3 DEF Fuse
    <3>2. phase.parts = SubSeq(staged, Fused + 1, RunEnd(Fused + 1)) /\ phase.kind = "duck"
      OBVIOUS
    <3> HIDE DEF parts, phase
    <3> QED
      BY <1>1, <1>5, <2>1, <2>3, <3>1, <3>2, PhaseAdded
  <2> QED
    BY <2>2, <2>3
<1> QED
  BY <1>3, <1>4, <1>5 DEF Fuse

-----------------------------------------------------------------------------
(* What holds of every request *)

(* Every step keeps the invariant. *)
LEMMA NextKeeps == Inv /\ [Next]_vars => Inv'
<1> SUFFICES ASSUME Inv, [Next]_vars PROVE Inv'
  OBVIOUS
<1>1. CASE Next
  BY <1>1, ReadTextKeeps, StageKeeps, FuseKeeps, CompileStreamKeeps, RunDuckKeeps, SpawnKeeps, TimesOutKeeps,
     CollectKeeps, ProcessEndsKeeps DEF Next
<1>2. CASE UNCHANGED vars
  <2>1. /\ at' = at /\ segments' = segments /\ staged' = staged /\ plan' = plan /\ step' = step
        /\ procs' = procs /\ views' = views /\ UNCHANGED ground /\ request' = request /\ policy' = policy
    BY <1>2 DEF vars, ground, compiled, cursor
  <2>2. \A k : Accepts(segments[k])' <=> Accepts(segments[k])
    BY <2>1, AcceptsStays
  <2>3. Streams(segments)' <=> Streams(segments)
    BY <2>1, StreamsStays
  <2>4. Typed' /\ Fusing' /\ Running'
    BY <2>1, <2>3 DEF Inv, Typed, Fusing, Fused, Alike, Running
  <2>5. Staging'
    BY <2>1, <2>2 DEF Inv, Staging
  <2> QED
    BY <2>4, <2>5 DEF Inv
<1> QED
  BY <1>1, <1>2

(* The invariant of the compiler and of the run holds throughout. *)
THEOREM Invariance == Spec => []Inv
<1>1. Init => Inv
  BY InitHolds
<1>2. Inv /\ [Next]_vars => Inv'
  BY NextKeeps
<1> QED
  BY <1>1, <1>2, PTL DEF Spec

(* run_plan can rely on the plan: its phases alternate, a DuckDB phase     *)
(* first, and they cover every segment of the text.                        *)
THEOREM TypeCorrect == Spec => []TypeOK
<1>1. Inv => TypeOK
  <2> SUFFICES ASSUME Inv PROVE TypeOK
    OBVIOUS
  <2>1. Len(plan) \in Nat /\ DOMAIN plan = 1..Len(plan)
    BY IsSeqType DEF Inv, Typed
  <2>2. request.asks \in {"query", "stream"}
    BY RequestAssumption DEF Inv, Typed
  <2>3. \A k \in DOMAIN staged : staged[k].kind \in {"sql", "duck", "bash"} /\ staged[k].seg = k
    <3>1. staged \in Seq(Part) /\ DOMAIN staged = 1..Len(staged)
      BY DEF Inv, Typed
    <3>2. \A k \in 1..Len(staged) : staged[k] \in Part
      BY <3>1
    <3> QED
      BY <3>1, <3>2 DEF Inv, Staging, Part
  <2>4. \A p \in DOMAIN procs : procs[p] \in {"runs", "good", "bad", "killed"}
    BY DEF Inv, Typed
  <2> QED
    BY <2>1, <2>2, <2>3, <2>4 DEF Inv, Typed, Fusing, Running, Compiled, TypeOK
<1> QED
  BY <1>1, Invariance, PTL

(* What an operator may do in read-only mode. *)
LEMMA ReadOnlyCaps == ModeCaps("read-only") = {"pure", "fs_read", "net"}
BY Zenon DEF ModeCaps

(* What is permitted is not denied, by its name or by what it can do.      *)
LEMMA PermittedMeans ==
  ASSUME NEW op, Permits(policy, op)
  PROVE  /\ op.name \notin policy.deny /\ op.caps \cap policy.denyCaps = {}
         /\ policy.mode = "read-only" => op.caps \cap {"exec", "fs_write"} = {}
<1>1. policy.mode = "read-only" => op.caps \subseteq {"pure", "fs_read", "net"}
  BY ReadOnlyCaps DEF Permits
<1> QED
  BY <1>1 DEF Permits

(* Whatever the text, nothing that is denied runs: the compiler asks the   *)
(* policy about every operator of the text, of a query and of a stream.    *)
THEOREM DenyWins == Spec => []NothingForbiddenRuns
<1>1. Inv => NothingForbiddenRuns
  <2> SUFFICES ASSUME Inv, at \in {"run", "next", "done", "failed", "streaming"}, NEW k \in DOMAIN segments,
                      ~IsSQL(segments[k])
               PROVE  Permits(policy, Op(segments[k]))
    BY PermittedMeans DEF NothingForbiddenRuns
  <2>1. k \in 1..Len(segments)
    BY IsSeqType DEF Inv, Typed
  <2>2. CASE at = "streaming"
    BY <2>2 DEF Inv, Running, Streams
  <2>3. CASE at # "streaming"
    <3>1. Accepts(segments[k])
      BY <2>1, <2>3 DEF Inv, Staging, Compiled
    <3> QED
      BY <3>1 DEF Accepts, Admits
  <2> QED
    BY <2>2, <2>3
<1> QED
  BY <1>1, Invariance, PTL

(* No text is both a query and a stream: a query's segments are those a    *)
(* query may have, and ingest, which ends every stream, is not.            *)
THEOREM OneCompiler == Spec => []QueryOrStream
<1>1. Inv => QueryOrStream
  <2> SUFFICES ASSUME Inv, at \in {"run", "next", "done", "failed"}, Streams(segments)
               PROVE  FALSE
    BY DEF QueryOrStream
  <2>1. Len(segments) \in Nat /\ Len(segments) >= 1 /\ DOMAIN segments = 1..Len(segments)
    BY IsSeqType DEF Inv, Typed, Staging
  <2>2. Len(segments) \in 1..Len(segments)
    BY <2>1
  <2>3. Accepts(segments[Len(segments)])
    BY <2>2 DEF Inv, Staging, Compiled
  <2>4. ~IsSQL(segments[Len(segments)]) /\ Op(segments[Len(segments)]).name = "ingest"
    BY <2>1, <2>2 DEF Streams
  <2> QED
    BY <2>3, <2>4 DEF Accepts, Admits
<1> QED
  BY <1>1, Invariance, PTL

(* No step leaves a process behind when the chain is left. *)
THEOREM ChainCleansUp == Spec => []NoProcessLeft
<1>1. Init => NoProcessLeft
  BY DEF Init, NoProcessLeft
<1>2. NoProcessLeft /\ [Next]_vars => NoProcessLeft'
  <2> SUFFICES ASSUME NoProcessLeft, [Next]_vars PROVE NoProcessLeft'
    OBVIOUS
  <2>1. ASSUME ~InChain, UNCHANGED procs PROVE NoProcessLeft'
    BY <2>1 DEF NoProcessLeft
  <2>2. ASSUME procs' = Killed PROVE NoProcessLeft'
    BY <2>2 DEF NoProcessLeft, Killed
  <2>3. ASSUME at' = at, step' = step, plan' = plan, InChain PROVE NoProcessLeft'
    BY <2>3 DEF NoProcessLeft, InChain, Phase
  <2>4. CASE ReadText \/ Stage \/ Fuse \/ CompileStream \/ RunDuck
    <3>1. ~InChain /\ UNCHANGED procs
      BY <2>4 DEF ReadText, Stage, Fuse, CompileStream, RunDuck, Refuse, End, InChain
    <3> QED
      BY <2>1, <3>1
  <2>5. CASE Spawn
    BY <2>2, <2>3, <2>5 DEF Spawn, compiled
  <2>6. CASE TimesOut
    BY <2>2, <2>6 DEF TimesOut
  <2>7. CASE Collect
    BY <2>7 DEF Collect, NoProcessLeft
  <2>8. ASSUME NEW p, ProcessEnds(p) PROVE NoProcessLeft'
    <3>1. InChain
      BY <2>8 DEF ProcessEnds, NoProcessLeft
    <3> QED
      BY <2>3, <2>8, <3>1 DEF ProcessEnds, compiled
  <2>9. CASE UNCHANGED vars
    BY <2>9 DEF vars, compiled, NoProcessLeft, InChain, Phase
  <2> QED
    BY <2>4, <2>5, <2>6, <2>7, <2>8, <2>9 DEF Next
<1> QED
  BY <1>1, <1>2, PTL DEF Spec

-----------------------------------------------------------------------------
(* The registry *)

Some(s) == CHOOSE x \in s : TRUE

(* The registry when the operators of s have been registered, by what it   *)
(* is when all of them but one have been.                                  *)
IsRegistering(base, S, f) ==
  f = [s \in SUBSET S |-> IF s = {} THEN base ELSE Register(f[s \ {Some(s)}], Some(s))]

(* RegisterAll picks a function that registers one operator after the      *)
(* other.                                                                  *)
LEMMA RegisterAllChosen ==
  ASSUME NEW base, NEW S
  PROVE  RegisterAll(base, S) = (CHOOSE f : IsRegistering(base, S, f))[S]
BY Zenon DEF RegisterAll, FoldSet, MapThenFoldSet, IsRegistering, Some

(* As far as there are sets of n operators, there is such a function. *)
UpToSize(S, n) == {s \in SUBSET S : Cardinality(s) <= n}

(* A set without one of its members is one size smaller. *)
LEMMA SmallerSet ==
  ASSUME NEW S, IsFiniteSet(S), NEW n \in Nat, NEW s \in UpToSize(S, n + 1), s # {}
  PROVE  Some(s) \in s /\ s \ {Some(s)} \in UpToSize(S, n) /\ s \in SUBSET S
<1>1. Some(s) \in s
  BY Zenon DEF Some
<1>2. s \in SUBSET S /\ Cardinality(s) <= n + 1
  BY DEF UpToSize
<1>3. IsFiniteSet(s)
  BY <1>2, FS_Subset
<1>4. Cardinality(s \ {Some(s)}) = Cardinality(s) - 1 /\ Cardinality(s) \in Nat
  BY <1>1, <1>3, FS_RemoveElement, FS_CardinalityType
<1>5. s \ {Some(s)} \in SUBSET S
  BY <1>2
<1> QED
  BY <1>1, <1>2, <1>4, <1>5 DEF UpToSize

(* There is such a function. *)
LEMMA RegisteringExists ==
  ASSUME NEW base, NEW S, IsFiniteSet(S)
  PROVE  \E f : IsRegistering(base, S, f)
<1> DEFINE After(f, s) == IF s = {} THEN base ELSE Register(f[s \ {Some(s)}], Some(s))
           So(n, f) == f = [s \in UpToSize(S, n) |-> After(f, s)]
           N == {n \in 0..Cardinality(S) : \E f : So(n, f)}
<1>1. Cardinality(S) \in Nat
  BY FS_CardinalityType
<1>2. 0 \in N
  <2> DEFINE f == [s \in UpToSize(S, 0) |-> base]
  <2>1. ASSUME NEW s \in UpToSize(S, 0) PROVE s = {}
    <3>1. s \in SUBSET S /\ Cardinality(s) <= 0
      BY DEF UpToSize
    <3>2. IsFiniteSet(s)
      BY <3>1, FS_Subset
    <3>3. Cardinality(s) = 0
      BY <3>1, <3>2, FS_CardinalityType
    <3> QED
      BY <3>2, <3>3, FS_EmptySet
  <2>2. \A s \in UpToSize(S, 0) : After(f, s) = base
    BY <2>1, Zenon
  <2>3. So(0, f)
    <3> HIDE DEF After
    <3> QED
      BY <2>2, Zenon
  <2>4. 0 \in 0..Cardinality(S)
    BY <1>1
  <2> QED
    BY <2>3, <2>4
<1>3. ASSUME NEW n \in 0..Cardinality(S), n \in N, n < Cardinality(S) PROVE n + 1 \in N
  <2>1. PICK f : So(n, f)
    BY <1>3
  <2> DEFINE g == [s \in UpToSize(S, n + 1) |-> After(f, s)]
  <2>2. ASSUME NEW s \in UpToSize(S, n) PROVE g[s] = f[s]
    <3>1. f[s] = After(f, s)
      <4> HIDE DEF After
      <4> QED
        BY <2>1, Zenon
    <3>2. s \in UpToSize(S, n + 1)
      <4>1. s \in SUBSET S /\ Cardinality(s) <= n
        BY DEF UpToSize
      <4>2. Cardinality(s) \in Nat
        BY <4>1, FS_Subset, FS_CardinalityType
      <4> QED
        BY <4>1, <4>2 DEF UpToSize
    <3> HIDE DEF After
    <3> QED
      BY <3>1, <3>2, Zenon
  <2>3. ASSUME NEW s \in UpToSize(S, n + 1) PROVE After(f, s) = After(g, s)
    <3>1. CASE s = {}
      BY <3>1, Zenon
    <3>2. CASE s # {}
      <4>1. s \ {Some(s)} \in UpToSize(S, n)
        BY <3>2, SmallerSet
      <4>2. g[s \ {Some(s)}] = f[s \ {Some(s)}]
        BY <2>2, <4>1
      <4> HIDE DEF g
      <4> QED
        BY <4>2, Zenon
    <3> QED
      BY <3>1, <3>2
  <2>4. So(n + 1, g)
    <3>1. \A s \in UpToSize(S, n + 1) : g[s] = After(g, s)
      <4> HIDE DEF After
      <4> QED
        BY <2>3, Zenon
    <3>2. g = [s \in UpToSize(S, n + 1) |-> g[s]]
      BY Zenon
    <3> HIDE DEF After, g
    <3> QED
      BY <3>1, <3>2, Zenon
  <2>5. n + 1 \in 0..Cardinality(S)
    BY <1>1, <1>3
  <2> HIDE DEF So, g
  <2> QED
    BY <2>4, <2>5
<1>4. \E f : So(Cardinality(S), f)
  <2> HIDE DEF So
  <2>1. 0..Cardinality(S) \subseteq N
    <3> HIDE DEF N
    <3> QED
      BY <1>1, <1>2, <1>3, UpTo
  <2>2. Cardinality(S) \in 0..Cardinality(S)
    BY <1>1
  <2> QED
    BY <2>1, <2>2
<1>5. UpToSize(S, Cardinality(S)) = SUBSET S
  <2>1. \A s \in SUBSET S : Cardinality(s) <= Cardinality(S)
    BY FS_Subset
  <2> QED
    BY <2>1, Zenon DEF UpToSize
<1> QED
  BY <1>4, <1>5, Zenon DEF IsRegistering

(* What registering the operators of s makes of a registry. *)
Registered(base, s, reg) ==
  /\ DOMAIN reg \cap SQLLeadingKeywords = {}
  /\ \A w \in DOMAIN base : w \in DOMAIN reg /\ reg[w] = base[w]
  /\ \A w \in DOMAIN reg : w \in DOMAIN base \/ \E op \in s : w = Lower(op.name) /\ reg[w] = op
  /\ \A op \in s : Lower(op.name) \in DOMAIN reg \cup SQLLeadingKeywords \cup {""}

(* Registering one operator more. *)
LEMMA RegisterOne ==
  ASSUME NEW base, NEW s, NEW reg, Registered(base, s, reg), NEW op
  PROVE  Registered(base, s \cup {op}, Register(reg, op))
<1> DEFINE name == Lower(op.name)
           new == [word \in DOMAIN reg \cup {name} |-> IF word \in DOMAIN reg THEN reg[word] ELSE op]
<1>1. CASE name \in SQLLeadingKeywords \cup DOMAIN reg \cup {""}
  <2>1. Register(reg, op) = reg
    BY <1>1, Zenon DEF Register
  <2> QED
    BY <1>1, <2>1 DEF Registered
<1>2. CASE name \notin SQLLeadingKeywords \cup DOMAIN reg \cup {""}
  <2>1. Register(reg, op) = new
    BY <1>2, Zenon DEF Register
  <2>2. DOMAIN new = DOMAIN reg \cup {name} /\ new[name] = op /\ \A w \in DOMAIN reg : new[w] = reg[w]
    <3> HIDE DEF name
    <3> QED
      BY <1>2
  <2> HIDE DEF new
  <2>3. DOMAIN new \cap SQLLeadingKeywords = {}
    BY <1>2, <2>2 DEF Registered
  <2>4. \A w \in DOMAIN base : w \in DOMAIN new /\ new[w] = base[w]
    BY <2>2 DEF Registered
  <2>5. ASSUME NEW w \in DOMAIN new
        PROVE  w \in DOMAIN base \/ \E o \in s \cup {op} : w = Lower(o.name) /\ new[w] = o
    BY <2>2 DEF Registered
  <2>6. \A o \in s \cup {op} : Lower(o.name) \in DOMAIN new \cup SQLLeadingKeywords \cup {""}
    BY <2>2 DEF Registered
  <2>7. Registered(base, s \cup {op}, new)
    BY <2>3, <2>4, <2>5, <2>6, Zenon DEF Registered
  <2> QED
    BY <2>1, <2>7
<1> QED
  BY <1>1, <1>2

(* Registering a finite set of operators, in whatever order. *)
LEMMA RegisterAllMeans ==
  ASSUME NEW base, NEW S, IsFiniteSet(S), DOMAIN base \cap SQLLeadingKeywords = {}
  PROVE  Registered(base, S, RegisterAll(base, S))
<1> DEFINE f == CHOOSE f : IsRegistering(base, S, f)
<1>1. IsRegistering(base, S, f)
  BY RegisteringExists, Zenon
<1>2. RegisterAll(base, S) = f[S]
  BY RegisterAllChosen
<1> HIDE DEF f
<1> DEFINE N == {n \in 0..Cardinality(S) : \A s \in UpToSize(S, n) : Registered(base, s, f[s])}
<1>3. Cardinality(S) \in Nat
  BY FS_CardinalityType
<1>4. f[{}] = base /\ Registered(base, {}, base)
  <2>1. {} \in SUBSET S
    OBVIOUS
  <2>2. f[{}] = base
    BY <1>1, <2>1, Zenon DEF IsRegistering
  <2> QED
    BY <2>2 DEF Registered
<1>5. 0 \in N
  <2>1. ASSUME NEW s \in UpToSize(S, 0) PROVE s = {}
    <3>1. s \in SUBSET S /\ Cardinality(s) <= 0
      BY DEF UpToSize
    <3>2. IsFiniteSet(s)
      BY <3>1, FS_Subset
    <3>3. Cardinality(s) = 0
      BY <3>1, <3>2, FS_CardinalityType
    <3> QED
      BY <3>2, <3>3, FS_EmptySet
  <2>2. 0 \in 0..Cardinality(S)
    BY <1>3
  <2> QED
    BY <1>4, <2>1, <2>2
<1>6. ASSUME NEW n \in 0..Cardinality(S), n \in N, n < Cardinality(S) PROVE n + 1 \in N
  <2>1. ASSUME NEW s \in UpToSize(S, n + 1) PROVE Registered(base, s, f[s])
    <3>1. CASE s = {}
      BY <1>4, <3>1
    <3>2. CASE s # {}
      <4> DEFINE rest == s \ {Some(s)}
      <4>1. Some(s) \in s /\ rest \in UpToSize(S, n) /\ s \in SUBSET S
        BY <3>2, SmallerSet
      <4>2. Registered(base, rest, f[rest])
        BY <1>6, <4>1
      <4>3. f[s] = Register(f[rest], Some(s))
        BY <1>1, <3>2, <4>1, Zenon DEF IsRegistering
      <4>4. rest \cup {Some(s)} = s
        BY <4>1
      <4> HIDE DEF rest
      <4>5. Registered(base, rest \cup {Some(s)}, Register(f[rest], Some(s)))
        BY <4>2, RegisterOne
      <4> QED
        BY <4>3, <4>4, <4>5
    <3> QED
      BY <3>1, <3>2
  <2>2. n + 1 \in 0..Cardinality(S)
    BY <1>3, <1>6
  <2> QED
    BY <2>1, <2>2
<1>7. Cardinality(S) \in N
  <2>1. 0..Cardinality(S) \subseteq N
    <3> HIDE DEF N
    <3> QED
      BY <1>3, <1>5, <1>6, UpTo
  <2>2. Cardinality(S) \in 0..Cardinality(S)
    BY <1>3
  <2> QED
    BY <2>1, <2>2
<1>8. S \in UpToSize(S, Cardinality(S))
  BY <1>3 DEF UpToSize
<1> QED
  BY <1>2, <1>7, <1>8

(* The names of the operators seekbase brings along are not SQL's. *)
LEMMA BuiltinNames ==
  /\ IsFiniteSet(Builtins)
  /\ \A op \in Builtins : Lower(op.name) \notin SQLLeadingKeywords \cup {""}
  /\ \A a, b \in Builtins : Lower(a.name) = Lower(b.name) => a = b
<1>1. /\ Lower("search") = "search" /\ Lower("scan") = "scan" /\ Lower("grep") = "grep" /\ Lower("sh") = "sh"
      /\ Lower("jq") = "jq" /\ Lower("watch") = "watch" /\ Lower("ingest") = "ingest"
  BY Zenon DEF Lower
<1>2. \A op \in Builtins : op.name \in {"search", "scan", "grep", "sh", "jq", "watch", "ingest"}
  BY DEF Builtins, Operator
<1>3. \A op \in Builtins : Lower(op.name) = op.name
  BY <1>1, <1>2
<1>4. \A op \in Builtins : op.name \notin SQLLeadingKeywords \cup {""}
  BY <1>2 DEF SQLLeadingKeywords
<1> DEFINE o1 == Operator("search", {"pure"}, TRUE, "source", FALSE, TRUE)
           o2 == Operator("scan", {"pure"}, TRUE, "source", FALSE, TRUE)
           o3 == Operator("grep", {"pure"}, TRUE, "middle", FALSE, FALSE)
           o4 == Operator("sh", {"exec"}, TRUE, "none", TRUE, FALSE)
           o5 == Operator("jq", {"exec"}, TRUE, "none", TRUE, FALSE)
           o6 == Operator("watch", {"fs_read"}, FALSE, "none", TRUE, TRUE)
           o7 == Operator("ingest", {"pure"}, TRUE, "none", FALSE, FALSE)
<1>5. /\ o1.name = "search" /\ o2.name = "scan" /\ o3.name = "grep" /\ o4.name = "sh" /\ o5.name = "jq"
      /\ o6.name = "watch" /\ o7.name = "ingest"
  BY DEF Operator
<1>6. Builtins = {o1, o2, o3, o4, o5, o6, o7}
  BY Zenon DEF Builtins
<1> HIDE DEF o1, o2, o3, o4, o5, o6, o7
<1>7. \A a, b \in Builtins : a.name = b.name => a = b
  BY <1>5, <1>6
<1>8. IsFiniteSet(Builtins)
  <2>1. \A X, y : IsFiniteSet(X) => IsFiniteSet(X \cup {y})
    BY FS_AddElement
  <2> DEFINE S1 == {o1}  S2 == S1 \cup {o2}  S3 == S2 \cup {o3}  S4 == S3 \cup {o4}
             S5 == S4 \cup {o5}  S6 == S5 \cup {o6}  S7 == S6 \cup {o7}
  <2>2. Builtins = S7
    BY <1>6
  <2>3. IsFiniteSet(S1)
    BY FS_Singleton
  <2> HIDE DEF S1
  <2>4. IsFiniteSet(S2)
    BY <2>1, <2>3
  <2> HIDE DEF S2
  <2>5. IsFiniteSet(S3)
    BY <2>1, <2>4
  <2> HIDE DEF S3
  <2>6. IsFiniteSet(S4)
    BY <2>1, <2>5
  <2> HIDE DEF S4
  <2>7. IsFiniteSet(S5)
    BY <2>1, <2>6
  <2> HIDE DEF S5
  <2>8. IsFiniteSet(S6)
    BY <2>1, <2>7
  <2> HIDE DEF S6
  <2>9. IsFiniteSet(S7)
    BY <2>1, <2>8
  <2> QED
    BY <2>2, <2>9
<1> QED
  BY <1>3, <1>4, <1>7, <1>8

(* The operators that are registered in the end: those that come with the  *)
(* program, by their names, and a user's beside them.                      *)
LEMMA Registry ==
  ASSUME Init
  PROVE  /\ \A op \in Builtins : Lower(op.name) \in DOMAIN registry /\ registry[Lower(op.name)] = op
         /\ DOMAIN registry \cap SQLLeadingKeywords = {}
         /\ \A w \in DOMAIN registry : w = Lower(registry[w].name)
<1> DEFINE first == RegisterAll(<<>>, Builtins)
           both == RegisterAll(first, Plugins)
<1>1. Registered(<<>>, Builtins, first)
  <2>1. DOMAIN <<>> \cap SQLLeadingKeywords = {}
    OBVIOUS
  <2> QED
    BY <2>1, BuiltinNames, RegisterAllMeans
<1>2. Registered(first, Plugins, both)
  <2>1. DOMAIN first \cap SQLLeadingKeywords = {}
    BY <1>1 DEF Registered
  <2> HIDE DEF first
  <2> QED
    BY <2>1, PluginAssumption, RegisterAllMeans
<1>3. registry = both
  BY DEF Init
<1> HIDE DEF first, both
<1>4. \A w \in DOMAIN <<>> : FALSE
  OBVIOUS
<1>5. ASSUME NEW op \in Builtins PROVE Lower(op.name) \in DOMAIN both /\ both[Lower(op.name)] = op
  <2>1. Lower(op.name) \in DOMAIN first
    BY <1>1, BuiltinNames DEF Registered
  <2>2. PICK o \in Builtins : Lower(op.name) = Lower(o.name) /\ first[Lower(op.name)] = o
    BY <1>1, <1>4, <2>1, Zenon DEF Registered
  <2>3. first[Lower(op.name)] = op
    BY <2>2, BuiltinNames, Zenon
  <2> QED
    BY <1>2, <2>1, <2>3, Zenon DEF Registered
<1>6. ASSUME NEW w \in DOMAIN both PROVE w = Lower(both[w].name)
  <2>1. w \in DOMAIN first \/ \E op \in Plugins : w = Lower(op.name) /\ both[w] = op
    BY <1>2, Zenon DEF Registered
  <2>2. CASE w \in DOMAIN first
    <3>1. both[w] = first[w]
      BY <1>2, <2>2, Zenon DEF Registered
    <3>2. \E op \in Builtins : w = Lower(op.name) /\ first[w] = op
      BY <1>1, <1>4, <2>2, Zenon DEF Registered
    <3> QED
      BY <3>1, <3>2, Zenon
  <2> QED
    BY <2>1, <2>2, Zenon
<1>7. DOMAIN both \cap SQLLeadingKeywords = {}
  BY <1>2 DEF Registered
<1> QED
  BY <1>3, <1>5, <1>6, <1>7, Zenon

(* Whatever operators a user registers, a text that starts with a word of  *)
(* SQL is SQL, and an operator that comes with the program keeps its name. *)
THEOREM NamesStay == Spec => []NamesKeepTheirMeaning
<1>1. Init => NamesKeepTheirMeaning
  <2> SUFFICES ASSUME Init PROVE NamesKeepTheirMeaning
    OBVIOUS
  <2>1. Lower("select") = "select" /\ Lower("SELECT") = "select" /\ Lower("with") = "with" /\ Lower("from") = "from"
    BY Zenon DEF Lower
  <2>2. {"select", "with", "from"} \subseteq SQLLeadingKeywords
    BY DEF SQLLeadingKeywords
  <2>3. \A word \in {"select", "SELECT", "with", "from"} : Lower(word) \in {"select", "with", "from"}
    BY <2>1
  <2>4. \A word \in {"select", "SELECT", "with", "from"} : Lower(word) \notin DOMAIN registry
    BY <2>2, <2>3, Registry
  <2> QED
    BY <2>4, Registry, Zenon DEF NamesKeepTheirMeaning, Known, Resolve
<1>2. NamesKeepTheirMeaning /\ [Next]_vars => NamesKeepTheirMeaning'
  <2>1. [Next]_vars => registry' = registry
    BY DEF Next, ReadText, Stage, Fuse, CompileStream, RunDuck, Spawn, TimesOut, Collect, ProcessEnds, Refuse, End,
       vars, ground
  <2> QED
    BY <2>1, Zenon DEF NamesKeepTheirMeaning, Known, Resolve
<1> QED
  BY <1>1, <1>2, PTL DEF Spec

-----------------------------------------------------------------------------
(* Sums *)

(* The sums of a function over the sets of its places.                     *)
IsSumming(S, f, F) ==
  F = [s \in SUBSET S |-> IF s = {} THEN 0 ELSE f[Some(s)] + F[s \ {Some(s)}]]

(* FoldFunction picks such a function. *)
LEMMA SumChosen ==
  ASSUME NEW f, NEW S, S = DOMAIN f
  PROVE  FoldFunction(+, 0, f) = (CHOOSE F : IsSumming(S, f, F))[S]
BY Zenon DEF FoldFunction, FoldFunctionOnSet, MapThenFoldSet, IsSumming, Some

(* The running totals of f.                                                *)
Totals(n, f, g) ==
  /\ g[0] = 0 /\ \A k \in 0..n : g[k] \in Nat
  /\ \A k \in 1..n : f[k] \in Nat /\ g[k] = g[k - 1] + f[k]

(* The totals never fall. *)
LEMMA TotalsGrow ==
  ASSUME NEW n \in Nat, NEW f, NEW g, Totals(n, f, g)
  PROVE  \A j \in 0..n : \A i \in 0..j : g[i] <= g[j]
<1> DEFINE T == {j \in 0..n : \A i \in 0..j : g[i] <= g[j]}
<1>1. 0 \in T
  BY DEF Totals
<1>2. ASSUME NEW j \in 0..n, j \in T, j < n PROVE j + 1 \in T
  <2>1. j + 1 \in 1..n /\ (j + 1) - 1 = j /\ j + 1 \in 0..n
    BY <1>2
  <2>2. g[j + 1] = g[j] + f[j + 1] /\ f[j + 1] \in Nat /\ g[j] \in Nat /\ g[j + 1] \in Nat
    BY <2>1 DEF Totals
  <2>3. ASSUME NEW i \in 0..(j + 1) PROVE g[i] <= g[j + 1]
    <3>1. i = j + 1 \/ i \in 0..j
      BY <2>1
    <3>2. i \in 0..n
      BY <2>1
    <3>3. g[i] \in Nat
      BY <3>2 DEF Totals
    <3>4. CASE i \in 0..j
      <4>1. g[i] <= g[j]
        BY <1>2, <3>4
      <4> QED
        BY <2>2, <3>3, <4>1
    <3> QED
      BY <2>2, <3>1, <3>4
  <2> QED
    BY <2>1, <2>3
<1>3. 0..n \subseteq T
  <2> HIDE DEF T
  <2> QED
    BY <1>1, <1>2, UpTo
<1> QED
  BY <1>3

(* The share of a set of places in the total, counted out.                 *)
Share(n, g, s) == {i \in 1..g[n] : \E k \in s : g[k - 1] < i /\ i <= g[k]}

(* A place adds its own number to the share of a set. *)
LEMMA ShareAdds ==
  ASSUME NEW n \in Nat, NEW f, NEW g, Totals(n, f, g), NEW s \in SUBSET (1..n), NEW x \in s
  PROVE  /\ Cardinality(Share(n, g, s)) = f[x] + Cardinality(Share(n, g, s \ {x}))
         /\ Cardinality(Share(n, g, s)) \in Nat
<1> DEFINE A == Share(n, g, s)
           B == Share(n, g, s \ {x})
           D == (g[x - 1] + 1)..g[x]
<1>1. /\ x \in 1..n /\ x - 1 \in 0..n /\ x \in 0..n
      /\ g[x - 1] \in Nat /\ g[x] \in Nat /\ f[x] \in Nat /\ g[x] = g[x - 1] + f[x] /\ g[n] \in Nat
  BY DEF Totals
<1>2. ASSUME NEW S, NEW y \in Nat, S \subseteq 1..y PROVE IsFiniteSet(S) /\ Cardinality(S) \in Nat
  <2>1. IsFiniteSet(1..y)
    BY FS_Interval
  <2>2. S \in SUBSET (1..y)
    BY <1>2
  <2> QED
    BY <2>1, <2>2, FS_Subset, FS_CardinalityType
<1>3. A \subseteq 1..g[n] /\ B \subseteq 1..g[n]
  BY DEF Share
<1>4. g[x] <= g[n]
  BY <1>1, TotalsGrow
<1>5. D \subseteq A
  <2>1. ASSUME NEW i \in D PROVE i \in 1..g[n] /\ g[x - 1] < i /\ i <= g[x]
    BY <1>1, <1>4
  <2> QED
    BY <2>1 DEF Share
<1>6. ASSUME NEW i \in A, i \notin D PROVE i \in B
  <2>1. PICK k \in s : g[k - 1] < i /\ i <= g[k]
    BY DEF Share
  <2>2. k # x
    BY <1>1, <1>3, <1>6, <2>1
  <2> QED
    BY <2>1, <2>2 DEF Share
<1>7. B \subseteq A
  BY DEF Share
<1>8. B \cap D = {}
  <2>1. ASSUME NEW i \in B, i \in D PROVE FALSE
    <3>1. PICK k \in s \ {x} : g[k - 1] < i /\ i <= g[k]
      BY DEF Share
    <3>2. k \in 1..n /\ k - 1 \in 0..n /\ k \in 0..n /\ (k \in 0..(x - 1) \/ x \in 0..(k - 1))
      BY <1>1, <3>1
    <3>3. (k \in 0..(x - 1) => g[k] <= g[x - 1]) /\ (x \in 0..(k - 1) => g[x] <= g[k - 1])
      BY <1>1, <3>2, TotalsGrow
    <3>4. g[k] \in Nat /\ g[k - 1] \in Nat
      BY <3>2 DEF Totals
    <3>5. i \in Nat /\ g[x - 1] < i /\ i <= g[x]
      BY <1>1, <2>1
    <3> QED
      BY <1>1, <3>1, <3>2, <3>3, <3>4, <3>5
  <2> QED
    BY <2>1
<1>9. IsFiniteSet(D) /\ Cardinality(D) = f[x]
  <2>0. g[x - 1] + 1 \in Int /\ g[x] \in Int
    BY <1>1
  <2>1. Cardinality(D) = IF g[x - 1] + 1 > g[x] THEN 0 ELSE g[x] - (g[x - 1] + 1) + 1
    BY <2>0, FS_Interval, Zenon
  <2>2. IsFiniteSet(D)
    BY <2>0, FS_Interval, Zenon
  <2> HIDE DEF D
  <2> QED
    BY <1>1, <2>1, <2>2
<1>10. IsFiniteSet(A) /\ IsFiniteSet(B) /\ Cardinality(A) \in Nat /\ Cardinality(B) \in Nat
  <2> HIDE DEF A, B
  <2> QED
    BY <1>1, <1>2, <1>3
<1>11. A = B \cup D
  <2> HIDE DEF A, B, D
  <2> QED
    BY <1>5, <1>6, <1>7
<1> HIDE DEF A, B, D
<1>12. Cardinality(B \cup D) = Cardinality(B) + Cardinality(D) - Cardinality(B \cap D)
  BY <1>9, <1>10, FS_Union
<1>13. Cardinality(B \cap D) = 0
  BY <1>8, FS_EmptySet
<1>14. Cardinality(A) = f[x] + Cardinality(B)
  BY <1>1, <1>9, <1>10, <1>11, <1>12, <1>13
<1> QED
  BY <1>10, <1>14 DEF A, B

(* A sum of numbers is the last of the running totals.                     *)
LEMMA SumIsTotal ==
  ASSUME NEW n \in Nat, NEW f, DOMAIN f = 1..n, NEW g, Totals(n, f, g)
  PROVE  FoldFunction(+, 0, f) = g[n]
<1> DEFINE S == 1..n
           W(s) == Cardinality(Share(n, g, s))
           w == [s \in SUBSET S |-> W(s)]
           F == CHOOSE F : IsSumming(S, f, F)
<1>0. IsFiniteSet(S) /\ Cardinality(S) = n
  <2>1. Cardinality(1..n) = IF 1 > n THEN 0 ELSE n - 1 + 1
    BY FS_Interval
  <2> QED
    BY <2>1, FS_Interval
<1>1. W({}) = 0
  <2>1. Share(n, g, {}) = {}
    BY DEF Share
  <2> QED
    BY <2>1, FS_EmptySet
<1>2. ASSUME NEW s \in SUBSET S, s # {} PROVE Some(s) \in s /\ W(s) = f[Some(s)] + W(s \ {Some(s)})
  <2>1. Some(s) \in s
    BY <1>2, Zenon DEF Some
  <2>2. s \in SUBSET (1..n)
    BY <1>2
  <2> DEFINE x == Some(s)
  <2> HIDE DEF x
  <2>3. Cardinality(Share(n, g, s)) = f[x] + Cardinality(Share(n, g, s \ {x}))
    <3>1. x \in s
      BY <2>1 DEF x
    <3> QED
      BY <2>2, <3>1, ShareAdds
  <2> QED
    BY <2>1, <2>3, Zenon DEF x
<1> HIDE DEF W
<1>3. IsSumming(S, f, w)
  <2>1. ASSUME NEW s \in SUBSET S PROVE w[s] = IF s = {} THEN 0 ELSE f[Some(s)] + w[s \ {Some(s)}]
    <3>1. w[s] = W(s)
      BY Zenon
    <3>2. CASE s = {}
      BY <1>1, <3>1, <3>2, Zenon
    <3>3. CASE s # {}
      <4>1. s \ {Some(s)} \in SUBSET S
        OBVIOUS
      <4>2. w[s \ {Some(s)}] = W(s \ {Some(s)})
        BY <4>1, Zenon
      <4> HIDE DEF w
      <4> QED
        BY <1>2, <3>1, <3>3, <4>2, Zenon
    <3> QED
      BY <3>2, <3>3
  <2>2. w = [s \in SUBSET S |-> w[s]]
    BY Zenon
  <2> HIDE DEF w
  <2> QED
    BY <2>1, <2>2, Zenon DEF IsSumming
<1>4. IsSumming(S, f, F)
  <2> HIDE DEF w
  <2> QED
    BY <1>3, Zenon
<1>5. FoldFunction(+, 0, f) = F[S]
  BY SumChosen
<1> HIDE DEF F
<1> DEFINE N == {m \in 0..n : \A s \in UpToSize(S, m) : F[s] = W(s)}
<1>6. F[{}] = 0
  <2>1. {} \in SUBSET S
    OBVIOUS
  <2> QED
    BY <1>4, <2>1, Zenon DEF IsSumming
<1>7. 0 \in N
  <2>1. ASSUME NEW s \in UpToSize(S, 0) PROVE s = {}
    <3>1. s \in SUBSET S /\ Cardinality(s) <= 0
      BY DEF UpToSize
    <3>2. IsFiniteSet(s)
      BY <1>0, <3>1, FS_Subset
    <3>3. Cardinality(s) = 0
      BY <3>1, <3>2, FS_CardinalityType
    <3> QED
      BY <3>2, <3>3, FS_EmptySet
  <2>2. 0 \in 0..n
    OBVIOUS
  <2> QED
    BY <1>1, <1>6, <2>1, <2>2
<1>8. ASSUME NEW m \in 0..n, m \in N, m < n PROVE m + 1 \in N
  <2>1. ASSUME NEW s \in UpToSize(S, m + 1) PROVE F[s] = W(s)
    <3>1. CASE s = {}
      BY <1>1, <1>6, <3>1
    <3>2. CASE s # {}
      <4> DEFINE rest == s \ {Some(s)}
      <4>1. Some(s) \in s /\ rest \in UpToSize(S, m) /\ s \in SUBSET S
        <5>1. m \in Nat
          BY <1>8
        <5> HIDE DEF S, N, W, w
        <5> QED
          BY <1>0, <3>2, <5>1, SmallerSet
      <4>2. F[rest] = W(rest)
        BY <1>8, <4>1
      <4>3. F[s] = f[Some(s)] + F[rest]
        BY <1>4, <3>2, <4>1, Zenon DEF IsSumming
      <4>4. W(s) = f[Some(s)] + W(rest)
        BY <1>2, <3>2, <4>1
      <4> HIDE DEF rest
      <4> QED
        BY <4>2, <4>3, <4>4
    <3> QED
      BY <3>1, <3>2
  <2>2. m + 1 \in 0..n
    BY <1>8
  <2> QED
    BY <2>1, <2>2
<1>9. n \in N
  <2>1. 0..n \subseteq N
    <3> HIDE DEF N
    <3> QED
      BY <1>7, <1>8, UpTo
  <2>2. n \in 0..n
    OBVIOUS
  <2> QED
    BY <2>1, <2>2
<1>10. F[S] = W(S)
  <2>1. S \in UpToSize(S, n)
    BY <1>0 DEF UpToSize
  <2> QED
    BY <1>9, <2>1
<1>11. Share(n, g, S) = 1..g[n]
  <2>1. ASSUME NEW i \in 1..g[n] PROVE \E k \in 1..n : g[k - 1] < i /\ i <= g[k]
    <3> DEFINE K == {k \in 0..n : i <= g[k]}
    <3>1. n \in K /\ K \subseteq Nat
      OBVIOUS
    <3>2. PICK k \in K : \A j \in K : k <= j
      <4> HIDE DEF K
      <4> QED
        BY <3>1, SmallestIn
    <3>3. k # 0
      BY DEF Totals
    <3>4. k \in 1..n /\ k - 1 \in 0..n /\ ~(k <= k - 1)
      BY <3>3
    <3>5. k - 1 \notin K
      BY <3>2, <3>4
    <3>6. g[k - 1] \in Nat
      BY <3>4 DEF Totals
    <3>7. g[k - 1] < i /\ i <= g[k]
      <4>1. ~(i <= g[k - 1]) /\ i <= g[k]
        BY <3>4, <3>5
      <4> QED
        BY <3>6, <4>1
    <3> QED
      BY <3>4, <3>7
  <2> QED
    BY <2>1 DEF Share
<1>12. Cardinality(1..g[n]) = g[n]
  <2>0. 1 \in Int
    OBVIOUS
  <2>1. g[n] \in Nat /\ g[n] \in Int
    BY DEF Totals
  <2>2. Cardinality(1..g[n]) = IF 1 > g[n] THEN 0 ELSE g[n] - 1 + 1
    BY <2>0, <2>1, FS_Interval, Zenon
  <2> QED
    BY <2>1, <2>2
<1> QED
  BY <1>5, <1>10, <1>11, <1>12 DEF W

-----------------------------------------------------------------------------
(* Where a text is cut *)

Literals == Quotes \cup {""}

(* What the scanner of the cuts finds, place by place. *)
IsScan(t, g) ==
  /\ Cuts(t) = g[1][""]
  /\ \A q \in Literals : g[Len(t) + 1][q] = {}
  /\ \A i \in 1..Len(t) : g[i] = CutRow(t, i, g[i + 1], g[i + 2])

(* There is such a scan. *)
LEMMA CutsScan ==
  ASSUME NEW t, Len(t) \in Nat
  PROVE  \E g : IsScan(t, g)
<1>0. PICK n \in Nat : n = Len(t)
  OBVIOUS
<1> DEFINE X == Found(t)
           z == [q \in Quotes \cup {""} |-> {}]
           H == [i \in 1..n |-> [x \in X |-> [y \in X |-> CutRow(t, i, x, y)]]]
<1>1. z \in X /\ \A q \in Literals : z[q] = {}
  BY DEF Found, Literals
<1>2. H \in Steps(n, X)
  BY <1>0, CutRowType DEF Steps
<1>3. \A i \in 1..n : \A x \in X : \A y \in X : H[i][x][y] = CutRow(t, i, x, y)
  OBVIOUS
<1>4. \A x, y : CutRow(t, n + 1, x, y) = z /\ CutRow(t, n + 2, x, y) = z
  <2>1. n + 1 > Len(t) /\ n + 2 > Len(t)
    BY <1>0
  <2> QED
    BY <2>1, Zenon DEF CutRow
<1> HIDE DEF H, z, X
<1>5. PICK f : f \in WorkedBack(n, X, z, H)
  BY <1>1, <1>2, Backwards
<1> USE <1>5 DEF WorkedBack
<1>6. IsCuts(t, f)
  <2>1. ASSUME NEW i \in 1..(n + 2) PROVE f[i] = CutRow(t, i, f[i + 1], f[i + 2])
    <3>1. CASE i \in 1..n
      <4>1. f[i + 1] \in X /\ f[i + 2] \in X
        BY <3>1
      <4> QED
        BY <1>3, <1>5, <3>1, <4>1
    <3>2. CASE i = n + 1 \/ i = n + 2
      BY <1>4, <1>5, <3>2, Zenon
    <3> QED
      BY <3>1, <3>2
  <2> QED
    BY <1>0, <2>1 DEF IsCuts
<1> DEFINE g == CHOOSE h : IsCuts(t, h)
<1>7. IsCuts(t, g)
  BY <1>6, Zenon
<1> HIDE DEF g
<1>8. \A i \in 1..(n + 2) : g[i] = CutRow(t, i, g[i + 1], g[i + 2])
  BY <1>0, <1>7, Zenon DEF IsCuts
<1>9. g[n + 1] = z
  <2>1. n + 1 \in 1..(n + 2)
    OBVIOUS
  <2> QED
    BY <1>4, <1>8, <2>1, Zenon
<1>10. \A i \in 1..n : i \in 1..(n + 2)
  OBVIOUS
<1>11. Cuts(t) = g[1][""]
  BY CutsChosen DEF g
<1> QED
  BY <1>0, <1>1, <1>8, <1>9, <1>10, <1>11 DEF IsScan

(* One place of the scan, by the literal it is in. *)
CutRules(t, g, i, q) ==
  /\ q # "" /\ t[i] # q => g[i][q] = g[i + 1][q]
  /\ q # "" /\ t[i] = q /\ Twice(t, i) => g[i][q] = g[i + 2][q]
  /\ q # "" /\ t[i] = q /\ ~Twice(t, i) => g[i][q] = g[i + 1][""]
  /\ q = "" /\ t[i] \in Quotes => g[i][q] = g[i + 1][t[i]]
  /\ q = "" /\ t[i] \notin Quotes /\ t[i] # "|" => g[i][q] = g[i + 1][""]
  /\ q = "" /\ t[i] = "|" /\ Twice(t, i) => g[i][q] = g[i + 2][""]
  /\ q = "" /\ t[i] = "|" /\ ~Twice(t, i) => g[i][q] = {i} \cup g[i + 1][""]

(* Every place of the scan keeps the rules of CutRow. *)
LEMMA CutStep ==
  ASSUME NEW t, Len(t) \in Nat, NEW g, IsScan(t, g), NEW i \in 1..Len(t), NEW q \in Literals
  PROVE  CutRules(t, g, i, q)
<1>1. g[i] = CutRow(t, i, g[i + 1], g[i + 2]) /\ ~(i > Len(t))
  <2>1. ~(i > Len(t))
    OBVIOUS
  <2> QED
    BY <2>1, Zenon DEF IsScan
<1>2. q \in Quotes \cup {""}
  BY DEF Literals
<1> DEFINE x == g[i + 1]  y == g[i + 2]
<1>3. g[i][q] = IF q # "" THEN IF t[i] # q THEN x[q] ELSE IF Twice(t, i) THEN y[q] ELSE x[""]
                ELSE IF t[i] \in Quotes THEN x[t[i]]
                ELSE IF t[i] # "|" THEN x[""]
                ELSE IF Twice(t, i) THEN y[""] ELSE {i} \cup x[""]
  <2> HIDE DEF x, y
  <2>1. CutRow(t, i, x, y)[q] =
          IF i > Len(t) THEN {}
          ELSE IF q # "" THEN IF t[i] # q THEN x[q] ELSE IF Twice(t, i) THEN y[q] ELSE x[""]
          ELSE IF t[i] \in Quotes THEN x[t[i]]
          ELSE IF t[i] # "|" THEN x[""]
          ELSE IF Twice(t, i) THEN y[""] ELSE {i} \cup x[""]
    BY <1>2, Zenon DEF CutRow
  <2> QED
    BY <1>1, <2>1 DEF x, y
<1>4. ~("|" \in Quotes) /\ ~("" \in Quotes)
  BY DEF Quotes
<1> HIDE DEF x, y
<1>5. /\ q # "" /\ t[i] # q => g[i][q] = x[q]
      /\ q # "" /\ t[i] = q /\ Twice(t, i) => g[i][q] = y[q]
      /\ q # "" /\ t[i] = q /\ ~Twice(t, i) => g[i][q] = x[""]
      /\ q = "" /\ t[i] \in Quotes => g[i][q] = x[t[i]]
      /\ q = "" /\ t[i] \notin Quotes /\ t[i] # "|" => g[i][q] = x[""]
      /\ q = "" /\ t[i] = "|" /\ Twice(t, i) => g[i][q] = y[""]
      /\ q = "" /\ t[i] = "|" /\ ~Twice(t, i) => g[i][q] = {i} \cup x[""]
  BY <1>3, <1>4
<1> QED
  BY <1>5, Zenon DEF x, y, CutRules

(* The literal a place is in, by the place before. *)
After(q, c) == IF q = "" /\ c \in Quotes THEN c ELSE IF c = q THEN "" ELSE q

IsInLiteral(t, f) ==
  f = [i \in 1..(Len(t) + 1) |->
         IF i = 1 THEN ""
         ELSE IF f[i - 1] = "" /\ t[i - 1] \in Quotes THEN t[i - 1]
              ELSE IF t[i - 1] = f[i - 1] THEN "" ELSE f[i - 1]]

(* InLiteral picks a function that goes from place to place. *)
LEMMA InLiteralChosen ==
  ASSUME NEW t
  PROVE  InLiteral(t) = CHOOSE f : IsInLiteral(t, f)
BY Zenon DEF InLiteral, IsInLiteral

(* Behind a literal comes a literal or none. *)
LEMMA AfterType == ASSUME NEW q \in Literals, NEW c PROVE After(q, c) \in Literals
BY DEF After, Literals

(* Outside every literal at the start, and then as After says. *)
LEMMA InLiteralMeans ==
  ASSUME NEW t, Len(t) \in Nat
  PROVE  /\ InLiteral(t)[1] = ""
         /\ \A i \in 1..(Len(t) + 1) : InLiteral(t)[i] \in Literals
         /\ \A i \in 1..Len(t) : InLiteral(t)[i + 1] = After(InLiteral(t)[i], t[i])
<1>0. PICK n \in Nat : n = Len(t)
  OBVIOUS
<1> DEFINE H == [i \in 1..n |-> [q \in Literals |-> After(q, t[i])]]
<1>1. H \in Moves(n, Literals) /\ "" \in Literals
  BY AfterType DEF Moves, Literals
<1>2. \A i \in 1..n, q \in Literals : H[i][q] = After(q, t[i])
  OBVIOUS
<1> HIDE DEF H
<1> DEFINE z == ""
<1> HIDE DEF z
<1>a. z \in Literals
  BY <1>1 DEF z
<1>b. PICK f : f \in WorkedOn(n, Literals, z, H)
  BY <1>0, <1>1, <1>a, Forwards
<1>3. f \in [0..n -> Literals] /\ f[0] = z /\ \A i \in 1..n : f[i] = H[i][f[i - 1]]
  BY <1>b DEF WorkedOn
<1> DEFINE h == [i \in 1..(n + 1) |-> f[i - 1]]
<1>4. /\ h[1] = z
      /\ \A i \in 1..(n + 1) : h[i] \in Literals
      /\ \A i \in 2..(n + 1) : h[i] = After(h[i - 1], t[i - 1])
  <2>0. 1 \in 1..(n + 1) /\ 1 - 1 = 0 /\ \A i \in 1..(n + 1) : i - 1 \in 0..n
    BY <1>0
  <2>1. h[1] = z /\ \A i \in 1..(n + 1) : h[i] \in Literals
    <3>1. f[0] = z /\ \A i \in 0..n : f[i] \in Literals
      BY <1>3
    <3> QED
      BY <2>0, <3>1
  <2>2. ASSUME NEW i \in 2..(n + 1) PROVE h[i] = After(h[i - 1], t[i - 1])
    <3>1. i - 1 \in 1..n /\ i - 1 \in 1..(n + 1) /\ i \in 1..(n + 1) /\ (i - 1) - 1 \in 0..n
      OBVIOUS
    <3>2. h[i] = f[i - 1] /\ h[i - 1] = f[(i - 1) - 1] /\ f[(i - 1) - 1] \in Literals
      BY <1>3, <3>1
    <3> HIDE DEF h
    <3> QED
      BY <1>2, <1>3, <3>1, <3>2
  <2> QED
    BY <2>1, <2>2
<1>5. IsInLiteral(t, h)
  <2> DEFINE W(i) == IF i = 1 THEN ""
         ELSE IF h[i - 1] = "" /\ t[i - 1] \in Quotes THEN t[i - 1]
              ELSE IF t[i - 1] = h[i - 1] THEN "" ELSE h[i - 1]
  <2>1. ASSUME NEW i \in 1..(n + 1) PROVE h[i] = W(i)
    <3>1. i = 1 \/ (i # 1 /\ i \in 2..(n + 1))
      OBVIOUS
    <3>2. CASE i = 1
      BY <1>4, <3>2, Zenon DEF z
    <3>3. CASE i # 1 /\ i \in 2..(n + 1)
      BY <1>4, <3>3, Zenon DEF After
    <3> QED
      BY <3>1, <3>2, <3>3
  <2>2. h = [i \in 1..(n + 1) |-> h[i]]
    OBVIOUS
  <2> HIDE DEF h
  <2> QED
    BY <1>0, <2>1, <2>2, Zenon DEF IsInLiteral
<1> HIDE DEF h
<1> DEFINE g == InLiteral(t)
<1>6. IsInLiteral(t, g)
  BY <1>5, InLiteralChosen, Zenon
<1> HIDE DEF g
<1>7. \A i \in 1..(n + 1) : g[i] = IF i = 1 THEN ""
         ELSE IF g[i - 1] = "" /\ t[i - 1] \in Quotes THEN t[i - 1]
              ELSE IF t[i - 1] = g[i - 1] THEN "" ELSE g[i - 1]
  BY <1>0, <1>6, Zenon DEF IsInLiteral
<1>8. g[1] = ""
  <2>1. 1 \in 1..(n + 1)
    BY <1>0
  <2> QED
    BY <1>7, <2>1, Zenon
<1>9. ASSUME NEW i \in 1..n PROVE g[i + 1] = After(g[i], t[i])
  <2>1. i + 1 \in 1..(n + 1) /\ i + 1 # 1 /\ (i + 1) - 1 = i
    OBVIOUS
  <2> QED
    BY <1>7, <2>1 DEF After
<1>10. \A i \in 1..(n + 1) : g[i] \in Literals
  <2> DEFINE S == {i \in 0..n : g[i + 1] \in Literals}
  <2>1. 0 \in S
    <3>1. 0 \in 0..n /\ 0 + 1 = 1
      BY <1>0
    <3> QED
      BY <1>1, <1>8, <3>1
  <2>2. ASSUME NEW i \in 0..n, i \in S, i < n PROVE i + 1 \in S
    <3>1. i + 1 \in 1..n /\ i + 1 \in 0..n /\ g[i + 1] \in Literals
      BY <2>2
    <3>2. g[(i + 1) + 1] \in Literals
      BY <1>9, <3>1, AfterType
    <3> QED
      BY <3>1, <3>2
  <2> HIDE DEF S
  <2>3. 0..n \subseteq S
    BY <1>0, <2>1, <2>2, UpTo
  <2>4. \A i \in 1..(n + 1) : i - 1 \in 0..n /\ (i - 1) + 1 = i
    OBVIOUS
  <2> QED
    BY <2>3, <2>4 DEF S
<1> QED
  BY <1>0, <1>8, <1>9, <1>10 DEF g

-----------------------------------------------------------------------------
(* The bars in a row that end at a place. *)
Bars(t, i) == Cardinality({j \in 1..i : \A k \in j..i : t[k] = "|"})

(* A bar makes the run of bars one longer, anything else ends it. *)
LEMMA BarsStep ==
  ASSUME NEW t, NEW i \in Nat
  PROVE  /\ Bars(t, i) \in Nat /\ Bars(t, 0) = 0
         /\ t[i + 1] # "|" => Bars(t, i + 1) = 0
         /\ t[i + 1] = "|" => Bars(t, i + 1) = Bars(t, i) + 1
<1> DEFINE B(m) == {j \in 1..m : \A k \in j..m : t[k] = "|"}
<1>1. ASSUME NEW m \in Nat PROVE IsFiniteSet(B(m)) /\ Cardinality(B(m)) \in Nat
  <2>1. IsFiniteSet(1..m)
    BY FS_Interval
  <2>2. B(m) \in SUBSET (1..m)
    OBVIOUS
  <2> QED
    BY <2>1, <2>2, FS_Subset, FS_CardinalityType
<1>2. B(0) = {}
  OBVIOUS
<1>3. CASE t[i + 1] # "|"
  <2>1. B(i + 1) = {}
    BY <1>3
  <2> QED
    BY <1>1, <1>2, <1>3, <2>1, FS_EmptySet DEF Bars
<1>4. CASE t[i + 1] = "|"
  <2>1. B(i + 1) = B(i) \cup {i + 1}
    <3>1. ASSUME NEW j \in B(i + 1) PROVE j \in B(i) \cup {i + 1}
      <4>1. j \in 1..(i + 1) /\ \A k \in j..(i + 1) : t[k] = "|"
        OBVIOUS
      <4>2. j = i + 1 \/ j \in 1..i
        BY <4>1
      <4>3. \A k \in j..i : t[k] = "|"
        BY <4>1
      <4> QED
        BY <4>2, <4>3
    <3>2. ASSUME NEW j \in B(i) PROVE j \in B(i + 1)
      <4>1. j \in 1..i /\ \A k \in j..i : t[k] = "|"
        OBVIOUS
      <4>2. \A k \in j..(i + 1) : k = i + 1 \/ k \in j..i
        BY <4>1
      <4>3. j \in 1..(i + 1)
        BY <4>1
      <4> QED
        BY <1>4, <4>1, <4>2, <4>3
    <3>3. i + 1 \in B(i + 1)
      <4>1. i + 1 \in 1..(i + 1) /\ \A k \in (i + 1)..(i + 1) : k = i + 1
        OBVIOUS
      <4> QED
        BY <1>4, <4>1
    <3> QED
      BY <3>1, <3>2, <3>3
  <2>2. i + 1 \notin B(i)
    OBVIOUS
  <2> HIDE DEF B
  <2>3. Cardinality(B(i + 1)) = Cardinality(B(i)) + 1
    BY <1>1, <2>1, <2>2, FS_AddElement
  <2> QED
    BY <1>1, <1>2, <1>4, <2>3, FS_EmptySet DEF Bars, B
<1> QED
  BY <1>3, <1>4

(* A number is even or odd. *)
LEMMA Halves == \A n \in Nat : n % 2 = 0 \/ n % 2 = 1
OBVIOUS

(* The cuts the definition by position asks for from a place on. *)
CutsFrom(t, i) == {j \in TrueCuts(t) : i <= j}

(* The cuts from a place on are those from the next one on, and it, if it  *)
(* is one.                                                                 *)
LEMMA TrueCutsMeans ==
  ASSUME NEW t, Len(t) \in Nat, NEW i \in 1..Len(t)
  PROVE  /\ i \in TrueCuts(t) <=> /\ t[i] = "|" /\ ~Twice(t, i) /\ InLiteral(t)[i] = ""
                                  /\ Bars(t, i) % 2 = 1
         /\ CutsFrom(t, i) = CutsFrom(t, i + 1) \cup (IF i \in TrueCuts(t) THEN {i} ELSE {})
<1>1. TrueCuts(t) \subseteq 1..Len(t)
  BY DEF TrueCuts
<1>2. i \in TrueCuts(t) <=> t[i] = "|" /\ ~Twice(t, i) /\ InLiteral(t)[i] = "" /\ Bars(t, i) % 2 = 1
  BY Zenon DEF TrueCuts, Bars
<1>3. \A j \in TrueCuts(t) : i <= j <=> j = i \/ i + 1 <= j
  BY <1>1
<1> QED
  BY <1>2, <1>3 DEF CutsFrom

(* The scanner stands between two bars of a pair nowhere. *)
Standing(t, i) == i <= Len(t) /\ InLiteral(t)[i] = "" /\ t[i] = "|" => Bars(t, i - 1) % 2 = 0

(* Whatever the literal, the scan from a place on finds the cuts from there *)
(* on, if it stands there.                                                 *)
LEMMA ScanFinds ==
  ASSUME NEW t, Len(t) \in Nat, NEW g, IsScan(t, g), NEW i \in 1..(Len(t) + 1), Standing(t, i)
  PROVE  g[i][InLiteral(t)[i]] = CutsFrom(t, i)
<1>0. PICK n \in Nat : n = Len(t)
  OBVIOUS
<1> DEFINE L == InLiteral(t)
           S == {m \in 1..(n + 2) : m <= n + 1 /\ Standing(t, m) => g[m][L[m]] = CutsFrom(t, m)}
<1>1. /\ L[1] = "" /\ \A m \in 1..(n + 1) : L[m] \in Literals
      /\ \A m \in 1..n : L[m + 1] = After(L[m], t[m])
  BY <1>0, InLiteralMeans
<1>2. TrueCuts(t) \subseteq 1..n
  BY <1>0 DEF TrueCuts
<1> HIDE DEF L
<1>3. n + 2 \in S /\ n + 1 \in S
  <2>1. n + 1 \in 1..(n + 2) /\ n + 2 \in 1..(n + 2) /\ ~(n + 2 <= n + 1) /\ n + 1 \in 1..(n + 1)
    BY <1>0
  <2>2. g[n + 1][L[n + 1]] = {}
    BY <1>0, <1>1, <2>1 DEF IsScan
  <2>3. CutsFrom(t, n + 1) = {}
    BY <1>0, <1>2 DEF CutsFrom
  <2> QED
    BY <2>1, <2>2, <2>3
<1>4. ASSUME NEW m \in 1..n, m + 1 \in S, m + 2 \in S PROVE m \in S
  <2>1. SUFFICES ASSUME Standing(t, m) PROVE g[m][L[m]] = CutsFrom(t, m)
    OBVIOUS
  <2> DEFINE q == L[m]
  <2>2. /\ m \in 1..Len(t) /\ m \in 1..(n + 1) /\ m + 1 \in 1..(n + 1) /\ m \in Nat /\ m - 1 \in Nat
        /\ m + 1 \in Nat /\ (m - 1) + 1 = m /\ (m + 1) - 1 = m /\ (m + 2) - 1 = m + 1 /\ m + 1 + 1 = m + 2
    BY <1>0
  <2>3. q \in Literals /\ L[m + 1] = After(q, t[m])
    BY <1>1, <2>2
  <2>4. /\ Standing(t, m + 1) => g[m + 1][L[m + 1]] = CutsFrom(t, m + 1)
        /\ m + 2 <= n + 1 /\ Standing(t, m + 2) => g[m + 2][L[m + 2]] = CutsFrom(t, m + 2)
    <3>1. m + 1 <= n + 1
      BY <1>0
    <3> QED
      BY <1>4, <3>1
  <2> HIDE DEF S
  <2>5. Twice(t, m) => /\ m + 1 \in 1..n /\ m + 2 <= n + 1 /\ t[m + 1] = t[m]
                       /\ m + 1 \in 1..Len(t)
    BY <1>0, <2>2 DEF Twice
  <2>6. /\ CutsFrom(t, m) = CutsFrom(t, m + 1) \cup (IF m \in TrueCuts(t) THEN {m} ELSE {})
        /\ m \in TrueCuts(t) <=> t[m] = "|" /\ ~Twice(t, m) /\ q = "" /\ Bars(t, m) % 2 = 1
    BY <2>2, TrueCutsMeans DEF L
  <2>7. Twice(t, m) =>
          /\ CutsFrom(t, m + 1) = CutsFrom(t, m + 2) \cup (IF m + 1 \in TrueCuts(t) THEN {m + 1} ELSE {})
          /\ m + 1 \in TrueCuts(t) <=> t[m + 1] = "|" /\ ~Twice(t, m + 1) /\ L[m + 1] = "" /\ Bars(t, m + 1) % 2 = 1
    BY <2>2, <2>5, TrueCutsMeans DEF L
  <2>8. Twice(t, m) => L[m + 2] = After(L[m + 1], t[m + 1])
    BY <1>1, <2>2, <2>5
  <2>9. /\ Bars(t, m) \in Nat /\ Bars(t, m - 1) \in Nat
        /\ t[m] # "|" => Bars(t, m) = 0
        /\ t[m] = "|" => Bars(t, m) = Bars(t, m - 1) + 1
        /\ t[m + 1] = "|" => Bars(t, m + 1) = Bars(t, m) + 1
    <3>1. /\ Bars(t, m - 1) \in Nat
          /\ t[(m - 1) + 1] # "|" => Bars(t, (m - 1) + 1) = 0
          /\ t[(m - 1) + 1] = "|" => Bars(t, (m - 1) + 1) = Bars(t, m - 1) + 1
      BY <2>2, BarsStep
    <3>2. Bars(t, m) \in Nat /\ (t[m + 1] = "|" => Bars(t, m + 1) = Bars(t, m) + 1)
      BY <2>2, BarsStep
    <3> QED
      BY <2>2, <3>1, <3>2
  <2>13. CutRules(t, g, m, q)
    <3> HIDE DEF q
    <3>1. m \in 1..Len(t)
      BY <2>2
    <3> QED
      BY <2>3, <3>1, CutStep
  <2>10. q = "" \/ q \in Quotes
    BY <2>3 DEF Literals
  <2>11. \A c \in Quotes : c # "" /\ c # "|"
    BY DEF Quotes
  \* beyond m the scanner stands, unless m is the first bar of a pair
  <2>12. t[m] # "|" \/ q # "" \/ ~Twice(t, m) => Standing(t, m + 1)
    <3>1. SUFFICES ASSUME t[m] # "|" \/ q # "" \/ ~Twice(t, m),
                          m + 1 <= Len(t), L[m + 1] = "", t[m + 1] = "|"
                   PROVE  Bars(t, m) % 2 = 0
      BY <2>2 DEF Standing, L
    <3>2. t[m] # "|"
      <4>1. CASE q # ""
        BY <2>3, <2>10, <2>11, <3>1, <4>1 DEF After
      <4>2. CASE ~Twice(t, m)
        <5>1. m + 1 <= Len(t)
          BY <3>1
        <5>2. m < Len(t)
          BY <1>0, <5>1
        <5> QED
          BY <3>1, <4>2, <5>2 DEF Twice
      <4> QED
        BY <3>1, <4>1, <4>2
    <3>3. Bars(t, m) = 0
      BY <2>9, <3>2
    <3> QED
      BY <3>3
  <2> QED
    <3>1. CASE q # "" /\ t[m] # q
      <4>1. L[m + 1] = q
        BY <2>3, <3>1 DEF After
      <4>2. g[m][q] = g[m + 1][q]
        BY <2>13, <3>1 DEF CutRules
      <4> QED
        BY <2>4, <2>6, <2>12, <3>1, <4>1, <4>2
    <3>2. CASE q # "" /\ t[m] = q /\ Twice(t, m)
      <4>1. t[m] # "|" /\ t[m + 1] # "|" /\ t[m + 1] = q /\ q \in Quotes
        BY <2>5, <2>10, <2>11, <3>2
      <4>2. L[m + 2] = q
        BY <2>3, <2>8, <3>2, <4>1 DEF After
      <4>3. Standing(t, m + 2)
        BY <3>2, <4>2 DEF Standing, L
      <4>4. g[m][q] = g[m + 2][q]
        BY <2>13, <3>2 DEF CutRules
      <4> QED
        BY <2>4, <2>5, <2>6, <2>7, <3>2, <4>1, <4>2, <4>3, <4>4
    <3>3. CASE q # "" /\ t[m] = q /\ ~Twice(t, m)
      <4>1. L[m + 1] = ""
        BY <2>3, <3>3 DEF After
      <4>2. g[m][q] = g[m + 1][""]
        BY <2>13, <3>3 DEF CutRules
      <4> QED
        BY <2>4, <2>6, <2>12, <3>3, <4>1, <4>2
    <3>4. CASE q = "" /\ t[m] \in Quotes
      <4>1. L[m + 1] = t[m] /\ t[m] # "|"
        BY <2>3, <2>11, <3>4 DEF After
      <4>2. g[m][q] = g[m + 1][t[m]]
        BY <2>13, <3>4 DEF CutRules
      <4> QED
        BY <2>4, <2>6, <2>12, <3>4, <4>1, <4>2
    <3>5. CASE q = "" /\ t[m] \notin Quotes /\ t[m] # "|"
      <4>1. L[m + 1] = ""
        BY <2>3, <3>5 DEF After
      <4>2. g[m][q] = g[m + 1][""]
        BY <2>13, <3>5 DEF CutRules
      <4> QED
        BY <2>4, <2>6, <2>12, <3>5, <4>1, <4>2
    <3>6. CASE q = "" /\ t[m] = "|"
      <4>0. t[m] \notin Quotes
        BY <2>11, <3>6
      <4>1. Bars(t, m - 1) % 2 = 0 /\ Bars(t, m) = Bars(t, m - 1) + 1
        <5>1. m <= Len(t)
          BY <1>0
        <5>2. InLiteral(t)[m] = ""
          BY <3>6 DEF L
        <5> QED
          BY <2>1, <2>9, <3>6, <5>1, <5>2 DEF Standing
      <4>2. Bars(t, m) % 2 = 1
        BY <2>9, <4>1, Parity, Halves
      <4>3. CASE Twice(t, m)
        <5>1. L[m + 1] = "" /\ L[m + 2] = ""
          BY <2>3, <2>5, <2>8, <3>6, <4>0, <4>3 DEF After
        <5>2. Bars(t, m + 1) % 2 = 0
          <6>1. Bars(t, m + 1) = Bars(t, m) + 1
            BY <2>5, <2>9, <3>6, <4>3
          <6> QED
            BY <2>9, <4>2, <6>1, Parity
        <5>3. Standing(t, m + 2)
          BY <2>2, <5>2 DEF Standing
        <5>4. g[m][q] = g[m + 2][""]
          BY <2>13, <3>6, <4>3 DEF CutRules
        <5>5. m \notin TrueCuts(t) /\ m + 1 \notin TrueCuts(t)
          <6>1. Bars(t, m + 1) % 2 # 1
            BY <5>2
          <6> QED
            BY <2>6, <2>7, <4>3, <6>1
        <5> QED
          BY <2>4, <2>5, <2>6, <2>7, <4>3, <5>1, <5>3, <5>4, <5>5
      <4>4. CASE ~Twice(t, m)
        <5>1. L[m + 1] = ""
          BY <2>3, <3>6, <4>0 DEF After
        <5>2. g[m][q] = {m} \cup g[m + 1][""]
          BY <2>13, <3>6, <4>4 DEF CutRules
        <5>3. m \in TrueCuts(t)
          BY <2>6, <3>6, <4>2, <4>4
        <5> QED
          BY <2>4, <2>6, <2>12, <4>4, <5>1, <5>2, <5>3
      <4> QED
        BY <4>3, <4>4
    <3> QED
      BY <3>1, <3>2, <3>3, <3>4, <3>5, <3>6
<1>5. 1..(n + 2) \subseteq S
  <2> HIDE DEF S
  <2> QED
    BY <1>0, <1>3, <1>4, DownFrom
<1>6. i \in S /\ i <= n + 1
  BY <1>0, <1>5
<1> QED
  BY <1>6 DEF L

(* split_pipeline cuts where the definition by position says. *)
LEMMA CutsAreTrue ==
  ASSUME NEW t, Len(t) \in Nat
  PROVE  Cuts(t) = TrueCuts(t)
<1>1. PICK g : IsScan(t, g)
  BY CutsScan
<1>2. 1 \in 1..(Len(t) + 1)
  OBVIOUS
<1>3. InLiteral(t)[1] = ""
  BY InLiteralMeans
<1>4. Bars(t, 1 - 1) = 0
  <2>1. 0 \in Nat /\ 1 - 1 = 0
    OBVIOUS
  <2> QED
    BY <2>1, BarsStep
<1>5. Standing(t, 1)
  <2>1. 0 % 2 = 0
    OBVIOUS
  <2> QED
    BY <1>4, <2>1 DEF Standing
<1>6. g[1][""] = CutsFrom(t, 1)
  BY <1>1, <1>2, <1>3, <1>5, ScanFinds
<1>7. CutsFrom(t, 1) = TrueCuts(t)
  <2>0. TrueCuts(t) \subseteq 1..Len(t)
    BY Zenon DEF TrueCuts
  <2>1. \A j \in TrueCuts(t) : 1 <= j
    BY <2>0
  <2> QED
    BY <2>1 DEF CutsFrom
<1> QED
  BY <1>1, <1>6, <1>7 DEF IsScan

-----------------------------------------------------------------------------
(* The second scanner, of the placeholders. *)

IsMarks(t, f) == f = [i \in 1..(Len(t) + 2) |-> MarkRow(t, i, f[i + 1], f[i + 2])]

(* Placeholders picks a function that scans the text from its end. *)
LEMMA MarksChosen ==
  ASSUME NEW t
  PROVE  Placeholders(t) = (CHOOSE f : IsMarks(t, f))[1][""]
BY DEF Placeholders, IsMarks

(* A row of that scan gives positions of the text. *)
LEMMA MarkRowType ==
  ASSUME NEW t, Len(t) \in Nat, NEW i \in 1..Len(t), NEW x \in Found(t), NEW y \in Found(t)
  PROVE  MarkRow(t, i, x, y) \in Found(t)
BY DEF MarkRow, Found, Quotes

IsMarkScan(t, g) ==
  /\ Placeholders(t) = g[1][""]
  /\ \A q \in Literals : g[Len(t) + 1][q] = {}
  /\ \A i \in 1..Len(t) : g[i] = MarkRow(t, i, g[i + 1], g[i + 2])

(* There is such a scan. *)
LEMMA MarksScan ==
  ASSUME NEW t, Len(t) \in Nat
  PROVE  \E g : IsMarkScan(t, g)
<1>0. PICK n \in Nat : n = Len(t)
  OBVIOUS
<1> DEFINE X == Found(t)
           z == [q \in Quotes \cup {""} |-> {}]
           H == [i \in 1..n |-> [x \in X |-> [y \in X |-> MarkRow(t, i, x, y)]]]
<1>1. z \in X /\ \A q \in Literals : z[q] = {}
  BY DEF Found, Literals
<1>2. H \in Steps(n, X)
  BY <1>0, MarkRowType DEF Steps
<1>3. \A i \in 1..n : \A x \in X : \A y \in X : H[i][x][y] = MarkRow(t, i, x, y)
  OBVIOUS
<1>4. \A x, y : MarkRow(t, n + 1, x, y) = z /\ MarkRow(t, n + 2, x, y) = z
  <2>1. n + 1 > Len(t) /\ n + 2 > Len(t)
    BY <1>0
  <2> QED
    BY <2>1, Zenon DEF MarkRow
<1> HIDE DEF H, z, X
<1>5. PICK f : f \in WorkedBack(n, X, z, H)
  BY <1>1, <1>2, Backwards
<1> USE <1>5 DEF WorkedBack
<1>6. IsMarks(t, f)
  <2>1. ASSUME NEW i \in 1..(n + 2) PROVE f[i] = MarkRow(t, i, f[i + 1], f[i + 2])
    <3>1. CASE i \in 1..n
      <4>1. f[i + 1] \in X /\ f[i + 2] \in X
        BY <3>1
      <4> QED
        BY <1>3, <1>5, <3>1, <4>1
    <3>2. CASE i = n + 1 \/ i = n + 2
      BY <1>4, <1>5, <3>2, Zenon
    <3> QED
      BY <3>1, <3>2
  <2> QED
    BY <1>0, <2>1 DEF IsMarks
<1> DEFINE g == CHOOSE h : IsMarks(t, h)
<1>7. IsMarks(t, g)
  BY <1>6, Zenon
<1> HIDE DEF g
<1>8. \A i \in 1..(n + 2) : g[i] = MarkRow(t, i, g[i + 1], g[i + 2])
  BY <1>0, <1>7, Zenon DEF IsMarks
<1>9. g[n + 1] = z
  <2>1. n + 1 \in 1..(n + 2)
    OBVIOUS
  <2> QED
    BY <1>4, <1>8, <2>1, Zenon
<1>10. \A i \in 1..n : i \in 1..(n + 2)
  OBVIOUS
<1>11. Placeholders(t) = g[1][""]
  BY MarksChosen DEF g
<1> QED
  BY <1>0, <1>1, <1>8, <1>9, <1>10, <1>11 DEF IsMarkScan

MarkRules(t, g, i, q) ==
  /\ q # "" /\ t[i] # q => g[i][q] = g[i + 1][q]
  /\ q # "" /\ t[i] = q /\ Twice(t, i) => g[i][q] = g[i + 2][q]
  /\ q # "" /\ t[i] = q /\ ~Twice(t, i) => g[i][q] = g[i + 1][""]
  /\ q = "" /\ t[i] \in Quotes => g[i][q] = g[i + 1][t[i]]
  /\ q = "" /\ t[i] \notin Quotes /\ t[i] # "?" => g[i][q] = g[i + 1][""]
  /\ q = "" /\ t[i] = "?" => g[i][q] = {i} \cup g[i + 1][""]

(* Every place of the scan keeps the rules of MarkRow. *)
LEMMA MarkStep ==
  ASSUME NEW t, Len(t) \in Nat, NEW g, IsMarkScan(t, g), NEW i \in 1..Len(t), NEW q \in Literals
  PROVE  MarkRules(t, g, i, q)
<1>1. g[i] = MarkRow(t, i, g[i + 1], g[i + 2]) /\ ~(i > Len(t))
  <2>1. ~(i > Len(t))
    OBVIOUS
  <2> QED
    BY <2>1, Zenon DEF IsMarkScan
<1>2. q \in Quotes \cup {""}
  BY DEF Literals
<1> DEFINE x == g[i + 1]  y == g[i + 2]
<1>3. g[i][q] = IF q # "" THEN IF t[i] # q THEN x[q] ELSE IF Twice(t, i) THEN y[q] ELSE x[""]
                ELSE IF t[i] \in Quotes THEN x[t[i]]
                ELSE (IF t[i] = "?" THEN {i} ELSE {}) \cup x[""]
  <2> HIDE DEF x, y
  <2>1. MarkRow(t, i, x, y)[q] =
          IF i > Len(t) THEN {}
          ELSE IF q # "" THEN IF t[i] # q THEN x[q] ELSE IF Twice(t, i) THEN y[q] ELSE x[""]
          ELSE IF t[i] \in Quotes THEN x[t[i]]
          ELSE (IF t[i] = "?" THEN {i} ELSE {}) \cup x[""]
    BY <1>2, Zenon DEF MarkRow
  <2> QED
    BY <1>1, <2>1 DEF x, y
<1>4. ~("?" \in Quotes) /\ ~("" \in Quotes)
  BY DEF Quotes
<1> HIDE DEF x, y
<1>5. /\ q # "" /\ t[i] # q => g[i][q] = x[q]
      /\ q # "" /\ t[i] = q /\ Twice(t, i) => g[i][q] = y[q]
      /\ q # "" /\ t[i] = q /\ ~Twice(t, i) => g[i][q] = x[""]
      /\ q = "" /\ t[i] \in Quotes => g[i][q] = x[t[i]]
      /\ q = "" /\ t[i] \notin Quotes /\ t[i] # "?" => g[i][q] = x[""]
      /\ q = "" /\ t[i] = "?" => g[i][q] = {i} \cup x[""]
  BY <1>3, <1>4
<1> QED
  BY <1>5, Zenon DEF x, y, MarkRules

MarksFrom(t, i) == {j \in TruePlaceholders(t) : i <= j}

(* The placeholders from a place on are those from the next one on, and    *)
(* it, if it is one.                                                       *)
LEMMA TrueMarksMeans ==
  ASSUME NEW t, Len(t) \in Nat, NEW i \in 1..Len(t)
  PROVE  /\ i \in TruePlaceholders(t) <=> t[i] = "?" /\ InLiteral(t)[i] = ""
         /\ MarksFrom(t, i) = MarksFrom(t, i + 1) \cup (IF i \in TruePlaceholders(t) THEN {i} ELSE {})
<1>1. TruePlaceholders(t) \subseteq 1..Len(t)
  BY Zenon DEF TruePlaceholders
<1>2. i \in TruePlaceholders(t) <=> t[i] = "?" /\ InLiteral(t)[i] = ""
  BY Zenon DEF TruePlaceholders
<1>3. \A j \in TruePlaceholders(t) : i <= j <=> j = i \/ i + 1 <= j
  BY <1>1
<1> QED
  BY <1>2, <1>3 DEF MarksFrom

(* _count_placeholders counts what the definition by position says. *)
LEMMA MarksAreTrue ==
  ASSUME NEW t, Len(t) \in Nat
  PROVE  Placeholders(t) = TruePlaceholders(t)
<1>0. PICK n \in Nat : n = Len(t)
  OBVIOUS
<1>a. PICK g : IsMarkScan(t, g)
  BY MarksScan
<1> DEFINE L == InLiteral(t)
           S == {m \in 1..(n + 2) : m <= n + 1 => g[m][L[m]] = MarksFrom(t, m)}
<1>1. /\ L[1] = "" /\ \A m \in 1..(n + 1) : L[m] \in Literals
      /\ \A m \in 1..n : L[m + 1] = After(L[m], t[m])
  BY <1>0, InLiteralMeans
<1>2. TruePlaceholders(t) \subseteq 1..n
  BY <1>0, Zenon DEF TruePlaceholders
<1> HIDE DEF L
<1>3. n + 2 \in S /\ n + 1 \in S
  <2>1. n + 1 \in 1..(n + 2) /\ n + 2 \in 1..(n + 2) /\ ~(n + 2 <= n + 1) /\ n + 1 \in 1..(n + 1)
    BY <1>0
  <2>2. g[n + 1][L[n + 1]] = {}
    BY <1>0, <1>a, <1>1, <2>1 DEF IsMarkScan
  <2>3. MarksFrom(t, n + 1) = {}
    BY <1>0, <1>2 DEF MarksFrom
  <2> QED
    BY <2>1, <2>2, <2>3
<1>4. ASSUME NEW m \in 1..n, m + 1 \in S, m + 2 \in S PROVE m \in S
  <2>1. SUFFICES g[m][L[m]] = MarksFrom(t, m)
    <3>1. m \in 1..(n + 2)
      BY <1>0
    <3> QED
      BY <3>1
  <2> DEFINE q == L[m]
  <2>2. m \in 1..Len(t) /\ m \in 1..(n + 1) /\ m + 1 <= n + 1
    BY <1>0
  <2>3. q \in Literals /\ L[m + 1] = After(q, t[m])
    BY <1>1, <2>2
  <2>4. /\ g[m + 1][L[m + 1]] = MarksFrom(t, m + 1)
        /\ m + 2 <= n + 1 => g[m + 2][L[m + 2]] = MarksFrom(t, m + 2)
    BY <1>4, <2>2
  <2> HIDE DEF S
  <2>5. Twice(t, m) => m + 1 \in 1..n /\ m + 2 <= n + 1 /\ t[m + 1] = t[m] /\ m + 1 \in 1..Len(t)
    BY <1>0, <2>2 DEF Twice
  <2>6. /\ MarksFrom(t, m) = MarksFrom(t, m + 1) \cup (IF m \in TruePlaceholders(t) THEN {m} ELSE {})
        /\ m \in TruePlaceholders(t) <=> t[m] = "?" /\ q = ""
    BY <2>2, TrueMarksMeans DEF L
  <2>7. Twice(t, m) =>
          /\ MarksFrom(t, m + 1) = MarksFrom(t, m + 2) \cup (IF m + 1 \in TruePlaceholders(t) THEN {m + 1} ELSE {})
          /\ m + 1 \in TruePlaceholders(t) <=> t[m + 1] = "?" /\ L[m + 1] = ""
    <3>1. m + 1 + 1 = m + 2
      BY <1>0
    <3> QED
      BY <2>5, <3>1, TrueMarksMeans DEF L
  <2>8. Twice(t, m) => L[m + 2] = After(L[m + 1], t[m + 1])
    <3>1. m + 1 + 1 = m + 2
      BY <1>0
    <3> QED
      BY <1>1, <2>5, <3>1
  <2>9. MarkRules(t, g, m, q)
    <3> HIDE DEF q
    <3>1. m \in 1..Len(t)
      BY <2>2
    <3> QED
      BY <1>a, <2>3, <3>1, MarkStep
  <2>10. q = "" \/ q \in Quotes
    BY <2>3 DEF Literals
  <2>11. \A c \in Quotes : c # "" /\ c # "?"
    BY DEF Quotes
  <2> QED
    <3>1. CASE q # "" /\ t[m] # q
      <4>1. L[m + 1] = q
        BY <2>3, <3>1 DEF After
      <4>2. g[m][q] = g[m + 1][q]
        BY <2>9, <3>1 DEF MarkRules
      <4> QED
        BY <2>4, <2>6, <3>1, <4>1, <4>2
    <3>2. CASE q # "" /\ t[m] = q /\ Twice(t, m)
      <4>1. t[m] # "?" /\ t[m + 1] # "?" /\ t[m + 1] = q /\ q \in Quotes
        BY <2>5, <2>10, <2>11, <3>2
      <4>2. L[m + 2] = q
        BY <2>3, <2>8, <3>2, <4>1 DEF After
      <4>4. g[m][q] = g[m + 2][q]
        BY <2>9, <3>2 DEF MarkRules
      <4> QED
        BY <2>4, <2>5, <2>6, <2>7, <3>2, <4>1, <4>2, <4>4
    <3>3. CASE q # "" /\ t[m] = q /\ ~Twice(t, m)
      <4>1. L[m + 1] = ""
        BY <2>3, <3>3 DEF After
      <4>2. g[m][q] = g[m + 1][""]
        BY <2>9, <3>3 DEF MarkRules
      <4> QED
        BY <2>4, <2>6, <3>3, <4>1, <4>2
    <3>4. CASE q = "" /\ t[m] \in Quotes
      <4>1. L[m + 1] = t[m] /\ t[m] # "?"
        BY <2>3, <2>11, <3>4 DEF After
      <4>2. g[m][q] = g[m + 1][t[m]]
        BY <2>9, <3>4 DEF MarkRules
      <4> QED
        BY <2>4, <2>6, <3>4, <4>1, <4>2
    <3>5. CASE q = "" /\ t[m] \notin Quotes
      <4>1. L[m + 1] = ""
        BY <2>3, <3>5 DEF After
      <4>2. g[m][q] = IF t[m] = "?" THEN {m} \cup g[m + 1][""] ELSE g[m + 1][""]
        BY <2>9, <3>5 DEF MarkRules
      <4> QED
        BY <2>4, <2>6, <3>5, <4>1, <4>2
    <3> QED
      BY <2>10, <3>1, <3>2, <3>3, <3>4, <3>5
<1>5. 1..(n + 2) \subseteq S
  <2> HIDE DEF S
  <2> QED
    BY <1>0, <1>3, <1>4, DownFrom
<1>6. g[1][L[1]] = MarksFrom(t, 1)
  <2>1. 1 \in 1..(n + 2) /\ 1 <= n + 1
    BY <1>0
  <2> QED
    BY <1>5, <2>1
<1>7. MarksFrom(t, 1) = TruePlaceholders(t)
  <2>1. \A j \in TruePlaceholders(t) : 1 <= j
    BY <1>2
  <2> QED
    BY <2>1 DEF MarksFrom
<1> QED
  BY <1>a, <1>1, <1>6, <1>7 DEF IsMarkScan

-----------------------------------------------------------------------------
(* The segments *)

Rank(C, i) == Cardinality({j \in C : j <= i})

(* The members of a finite set of numbers, in order: each has a rank, a    *)
(* later one a greater rank, and every rank is some member's.              *)
LEMMA Ranks ==
  ASSUME NEW C \in SUBSET Nat, IsFiniteSet(C)
  PROVE  /\ Cardinality(C) \in Nat
         /\ \A i \in C : Rank(C, i) \in 1..Cardinality(C)
         /\ \A i, j \in C : i < j => Rank(C, i) < Rank(C, j)
         /\ \A k \in 1..Cardinality(C) : \E i \in C : Rank(C, i) = k
<1> DEFINE n == Cardinality(C)
           B(i) == {j \in C : j <= i}
<1>1. n \in Nat
  BY FS_CardinalityType
<1>2. ASSUME NEW i \in C PROVE IsFiniteSet(B(i)) /\ Cardinality(B(i)) \in 1..n
  <2>1. B(i) \in SUBSET C /\ i \in B(i)
    OBVIOUS
  <2>2. IsFiniteSet(B(i)) /\ Cardinality(B(i)) <= n
    BY <2>1, FS_Subset
  <2> HIDE DEF B, n
  <2>3. Cardinality(B(i)) \in Nat /\ Cardinality(B(i)) # 0
    BY <2>1, <2>2, FS_CardinalityType, FS_EmptySet
  <2> QED
    BY <1>1, <2>2, <2>3
<1>3. ASSUME NEW i \in C, NEW j \in C, i < j PROVE Cardinality(B(i)) < Cardinality(B(j))
  <2>1. B(i) \in SUBSET B(j) /\ j \in B(j) /\ ~(j \in B(i))
    <3>1. \A m \in C : m <= i => m <= j
      BY <1>3
    <3>2. ~(j <= i) /\ j <= j
      BY <1>3
    <3> QED
      BY <3>1, <3>2
  <2>2. IsFiniteSet(B(j)) /\ Cardinality(B(j)) \in 1..n /\ Cardinality(B(i)) \in 1..n
    BY <1>2
  <2> HIDE DEF B, n
  <2>3. Cardinality(B(i)) <= Cardinality(B(j)) /\ Cardinality(B(i)) # Cardinality(B(j))
    BY <2>1, <2>2, FS_Subset
  <2> QED
    BY <2>2, <2>3
<1> DEFINE f == [i \in C |-> Rank(C, i)]
<1>4. \A i \in C : Rank(C, i) = Cardinality(B(i))
  BY DEF Rank
<1> HIDE DEF B, n
<1>5. f \in Injection(C, 1..n)
  <2>1. f \in [C -> 1..n]
    BY <1>2, <1>4
  <2>2. ASSUME NEW i \in C, NEW j \in C, f[i] = f[j] PROVE i = j
    <3>1. Cardinality(B(i)) = Cardinality(B(j))
      BY <1>4, <2>2
    <3>2. i < j \/ j < i \/ i = j
      OBVIOUS
    <3> QED
      BY <1>2, <1>3, <3>1, <3>2
  <2> HIDE DEF f
  <2> QED
    BY <2>1, <2>2 DEF Injection, IsInjective
<1>6. IsFiniteSet(1..n) /\ Cardinality(1..n) = n
  BY <1>1, FS_Interval
<1>7. f \in Surjection(C, 1..n)
  <2> HIDE DEF f
  <2> QED
    BY <1>5, <1>6, FS_Injection DEF n
<1>8. ASSUME NEW k \in 1..n PROVE \E i \in C : Rank(C, i) = k
  <2>1. \E i \in C : f[i] = k
    <3> HIDE DEF f
    <3> QED
      BY <1>7 DEF Surjection
  <2> QED
    BY <2>1
<1> QED
  BY <1>1, <1>2, <1>3, <1>4, <1>8 DEF n

(* Where a segment begins and ends: the cuts, and the ends of the text.    *)
Edge(t, k) ==
  IF k = 0 THEN 0
  ELSE IF k = Cardinality(Cuts(t)) + 1 THEN Len(t) + 1
  ELSE CHOOSE i \in Cuts(t) : Rank(Cuts(t), i) = k

Between(t, k) == SubSeq(t, Edge(t, k - 1) + 1, Edge(t, k) - 1)

(* A text has finitely many cuts. *)
LEMMA CutsFinite ==
  ASSUME NEW t, Len(t) \in Nat
  PROVE  Cuts(t) \in SUBSET Nat /\ IsFiniteSet(Cuts(t)) /\ Cardinality(Cuts(t)) \in Nat
<1>1. IsFiniteSet(1..Len(t))
  BY FS_Interval
<1>2. Cuts(t) \in SUBSET (1..Len(t))
  BY CutsType
<1>3. IsFiniteSet(Cuts(t))
  BY <1>1, <1>2, FS_Subset
<1> QED
  BY <1>2, <1>3, FS_CardinalityType

(* The edges between the first and the last are the cuts, in order. *)
LEMMA Edges ==
  ASSUME NEW t, Len(t) \in Nat, NEW n, n = Cardinality(Cuts(t))
  PROVE  /\ n \in Nat /\ Edge(t, 0) = 0 /\ Edge(t, n + 1) = Len(t) + 1
         /\ \A k \in 1..n : Edge(t, k) \in Cuts(t) /\ Rank(Cuts(t), Edge(t, k)) = k
         /\ \A k \in 0..(n + 1) : Edge(t, k) \in 0..(Len(t) + 1)
<1>1. n \in Nat /\ Cuts(t) \in SUBSET Nat /\ IsFiniteSet(Cuts(t)) /\ Cuts(t) \subseteq 1..Len(t)
  BY CutsFinite, CutsType
<1>2. ASSUME NEW k \in 1..n PROVE Edge(t, k) \in Cuts(t) /\ Rank(Cuts(t), Edge(t, k)) = k
  <2>1. \E i \in Cuts(t) : Rank(Cuts(t), i) = k
    BY <1>1, Ranks
  <2>2. k # 0 /\ k # Cardinality(Cuts(t)) + 1
    BY <1>1
  <2>3. Edge(t, k) = CHOOSE i \in Cuts(t) : Rank(Cuts(t), i) = k
    BY <2>2, Zenon DEF Edge
  <2> QED
    BY <2>1, <2>3, Zenon
<1>3. Edge(t, 0) = 0
  BY Zenon DEF Edge
<1>4. Edge(t, n + 1) = Len(t) + 1
  <2>1. n + 1 # 0
    BY <1>1
  <2> QED
    BY <2>1, Zenon DEF Edge
<1>5. ASSUME NEW k \in 0..(n + 1) PROVE Edge(t, k) \in 0..(Len(t) + 1)
  <2>1. k = 0 \/ k = n + 1 \/ k \in 1..n
    BY <1>1
  <2> QED
    BY <1>1, <1>2, <1>3, <1>4, <2>1
<1> QED
  BY <1>1, <1>2, <1>3, <1>4, <1>5

(* No cut falls between two neighbouring edges. *)
LEMMA EdgesTight ==
  ASSUME NEW t, Len(t) \in Nat, NEW k \in 1..(Cardinality(Cuts(t)) + 1)
  PROVE  /\ Edge(t, k - 1) < Edge(t, k)
         /\ \A c \in Cuts(t) : c <= Edge(t, k - 1) \/ Edge(t, k) <= c
<1> DEFINE n == Cardinality(Cuts(t))
           C == Cuts(t)
           a == Edge(t, k - 1)
           b == Edge(t, k)
<1>1. n \in Nat /\ C \in SUBSET Nat /\ IsFiniteSet(C) /\ C \subseteq 1..Len(t)
  BY CutsFinite, CutsType
<1>2. /\ \A i \in C : Rank(C, i) \in 1..n
      /\ \A i, j \in C : i < j => Rank(C, i) < Rank(C, j)
  BY <1>1, Ranks
<1>3. /\ Edge(t, 0) = 0 /\ Edge(t, n + 1) = Len(t) + 1
      /\ \A m \in 1..n : Edge(t, m) \in C /\ Rank(C, Edge(t, m)) = m
  BY Edges
<1>4. (k - 1 = 0 \/ k - 1 \in 1..n) /\ (k = n + 1 \/ k \in 1..n) /\ k - 1 < k
  BY <1>1
<1>5. (k - 1 = 0 /\ a = 0) \/ (k - 1 \in 1..n /\ a \in C /\ Rank(C, a) = k - 1)
  <2>1. CASE k - 1 = 0
    BY <1>3, <2>1
  <2>2. CASE k - 1 \in 1..n
    BY <1>3, <2>2
  <2> QED
    BY <1>4, <2>1, <2>2
<1>6. (k = n + 1 /\ b = Len(t) + 1) \/ (k \in 1..n /\ b \in C /\ Rank(C, b) = k)
  <2>1. CASE k = n + 1
    BY <1>3, <2>1
  <2>2. CASE k \in 1..n
    BY <1>3, <2>2
  <2> QED
    BY <1>4, <2>1, <2>2
<1> HIDE DEF n, C, a, b
<1>0. /\ Len(t) + 1 \in Nat /\ 0 < Len(t) + 1 /\ 0 \in Nat
      /\ \A c \in C : c \in Nat /\ c < Len(t) + 1 /\ 0 < c
  BY <1>1
<1>7. a \in Nat /\ b \in Nat
  <2>1. a \in Nat
    BY <1>0, <1>5
  <2>2. b \in Nat
    BY <1>0, <1>6
  <2> QED
    BY <2>1, <2>2
<1>8. a < b
  <2>1. CASE k - 1 \in 1..n /\ a \in C /\ Rank(C, a) = k - 1 /\ k \in 1..n /\ b \in C /\ Rank(C, b) = k
    <3>1. ~(b < a) /\ b # a
      BY <1>2, <2>1
    <3> QED
      BY <1>7, <3>1
  <2>2. CASE a = 0
    <3>1. b # 0
      BY <1>1, <1>6
    <3> QED
      BY <1>7, <2>2, <3>1
  <2>3. CASE b = Len(t) + 1
    BY <1>0, <1>5, <2>3
  <2> QED
    BY <1>5, <1>6, <2>1, <2>2, <2>3
<1>9. ASSUME NEW c \in C, a < c, c < b PROVE FALSE
  <2>1. c \in 1..Len(t) /\ Rank(C, c) \in 1..n
    BY <1>1, <1>2
  <2>2. Rank(C, c) > k - 1
    <3>1. CASE k - 1 = 0
      BY <2>1, <3>1
    <3>2. CASE a \in C /\ Rank(C, a) = k - 1
      <4>1. Rank(C, a) < Rank(C, c)
        BY <1>2, <1>9, <3>2
      <4> QED
        BY <2>1, <3>2, <4>1
    <3> QED
      BY <1>5, <3>1, <3>2
  <2>3. Rank(C, c) < k
    <3>1. CASE k = n + 1
      BY <1>1, <2>1, <3>1
    <3>2. CASE b \in C /\ Rank(C, b) = k
      BY <1>2, <1>9, <3>2
    <3> QED
      BY <1>6, <3>1, <3>2
  <2> QED
    BY <2>1, <2>2, <2>3
<1>10. \A c \in C : c <= a \/ b <= c
  <2>1. \A c \in C : c \in Nat
    BY <1>1
  <2> QED
    BY <1>7, <1>9, <2>1
<1> QED
  BY <1>8, <1>10 DEF C, a, b

(* The segments are what stands between neighbouring edges, without the    *)
(* blanks around it.                                                       *)
LEMMA SplitMeans ==
  ASSUME NEW t, Len(t) \in Nat, NEW n, n = Cardinality(Cuts(t))
  PROVE  DOMAIN Split(t) = 1..(n + 1) /\ \A k \in 1..(n + 1) : Split(t)[k] = Strip(Between(t, k))
<1> DEFINE C == Cuts(t)
           bar(k) == CHOOSE i \in C : Cardinality({j \in C : j <= i}) = k
           lo(k) == IF k = 1 THEN 1 ELSE bar(k - 1) + 1
           hi(k) == IF k > Cardinality(C) THEN Len(t) ELSE bar(k) - 1
<1>1. Split(t) = [k \in 1..(n + 1) |-> Strip(SubSeq(t, lo(k), hi(k)))]
  <2>1. Split(t) = [k \in 1..(Cardinality(C) + 1) |-> Strip(SubSeq(t, lo(k), hi(k)))]
    BY Zenon DEF Split
  <2> QED
    BY <2>1, Zenon
<1>2. n \in Nat
  BY CutsFinite
<1>3. ASSUME NEW k \in 1..n PROVE Edge(t, k) = bar(k)
  <2>1. k # 0 /\ k # Cardinality(Cuts(t)) + 1
    BY <1>2
  <2> QED
    BY <2>1, Zenon DEF Edge, Rank
<1>4. Edge(t, 0) = 0 /\ Edge(t, n + 1) = Len(t) + 1
  BY Edges
<1> HIDE DEF bar
<1>5. ASSUME NEW k \in 1..(n + 1) PROVE lo(k) = Edge(t, k - 1) + 1 /\ hi(k) = Edge(t, k) - 1
  <2>1. CASE k = 1
    BY <1>2, <1>3, <1>4, <2>1
  <2>2. CASE k # 1
    <3>1. k - 1 \in 1..n
      BY <1>2, <2>2
    <3>2. Edge(t, k - 1) = bar(k - 1)
      BY <1>3, <3>1
    <3> QED
      BY <1>2, <1>3, <1>4, <2>2, <3>2
  <2> QED
    BY <2>1, <2>2
<1> HIDE DEF lo, hi
<1>6. \A k \in 1..(n + 1) : Strip(SubSeq(t, lo(k), hi(k))) = Strip(Between(t, k))
  BY <1>5, Zenon DEF Between
<1> QED
  BY <1>1, <1>6, Zenon

-----------------------------------------------------------------------------
(* A segment as a stretch of its text *)

(* s is what stands in t behind place o. *)
Stretch(s, t, o) ==
  /\ Len(s) \in Nat /\ o \in Nat /\ o + Len(s) <= Len(t)
  /\ \A i \in 1..Len(s) : s[i] = t[o + i]

(* A part of a text is a stretch of it. *)
LEMMA SubSeqStretch ==
  ASSUME NEW S, NEW t \in Seq(S), NEW a \in Nat, NEW b \in Nat, a < b, b <= Len(t) + 1
  PROVE  /\ SubSeq(t, a + 1, b - 1) \in Seq(S) /\ Len(SubSeq(t, a + 1, b - 1)) = b - 1 - a
         /\ Stretch(SubSeq(t, a + 1, b - 1), t, a)
<1>1. a + 1 \in 1..(Len(t) + 1) /\ b - 1 \in (a + 1 - 1)..Len(t) /\ Len(t) \in Nat
  OBVIOUS
<1> DEFINE u == SubSeq(t, a + 1, b - 1)
<1>2. u \in Seq(S) /\ Len(u) = b - 1 - a /\ \A i \in 1..(b - 1 - a) : u[i] = t[a + i]
  <2>1. /\ u \in Seq(S) /\ Len(u) = (b - 1) - (a + 1) + 1
        /\ \A i \in 1..((b - 1) - (a + 1) + 1) : u[i] = t[(a + 1) + i - 1]
    BY <1>1, SubSeqProperties
  <2>2. (b - 1) - (a + 1) + 1 = b - 1 - a
    OBVIOUS
  <2>3. \A i \in 1..(b - 1 - a) : (a + 1) + i - 1 = a + i
    OBVIOUS
  <2> HIDE DEF u
  <2> QED
    BY <2>1, <2>2, <2>3
<1> HIDE DEF u
<1>3. Stretch(u, t, a)
  BY <1>1, <1>2 DEF Stretch
<1> QED
  BY <1>2, <1>3 DEF u

(* A text without the blanks around it is a stretch of it, and what is     *)
(* left out is blank.                                                      *)
LEMMA StripStretch ==
  ASSUME NEW S, NEW u \in Seq(S)
  PROVE  \E o \in 0..Len(u) :
           /\ Stretch(Strip(u), u, o)
           /\ \A i \in 1..Len(u) : i <= o \/ o + Len(Strip(u)) < i => u[i] = " "
<1> DEFINE solid == {i \in 1..Len(u) : u[i] # " "}
           first == CHOOSE i \in solid : \A j \in solid : i <= j
           last == CHOOSE i \in solid : \A j \in solid : i >= j
<1>0. Strip(u) = IF solid = {} THEN <<>> ELSE SubSeq(u, first, last)
  BY Zenon DEF Strip
<1>a. Len(u) \in Nat
  OBVIOUS
<1>1. CASE solid = {}
  <2>1. \A i \in 1..Len(u) : u[i] = " "
    BY <1>1
  <2> HIDE DEF solid, first, last
  <2>2. Strip(u) = <<>> /\ Len(Strip(u)) = 0
    BY <1>0, <1>1
  <2>3. Stretch(Strip(u), u, 0)
    BY <1>a, <2>2 DEF Stretch
  <2>4. 0 \in 0..Len(u)
    BY <1>a
  <2> QED
    BY <2>1, <2>3, <2>4
<1>2. CASE solid # {}
  <2>1. solid \subseteq 1..Len(u) /\ solid \subseteq Nat
    <3>1. solid \subseteq 1..Len(u)
      BY Zenon
    <3> HIDE DEF solid
    <3> QED
      BY <3>1
  <2>2. PICK a \in solid : \A j \in solid : a <= j
    <3> HIDE DEF solid
    <3> QED
      BY <1>2, <2>1, SmallestIn
  <2>3. PICK b \in solid : \A j \in solid : b >= j
    <3> HIDE DEF solid
    <3> QED
      BY <1>2, <1>a, <2>1, LargestIn
  <2>4. /\ first \in solid /\ \A j \in solid : first <= j
        /\ last \in solid /\ \A j \in solid : last >= j
    <3> HIDE DEF solid
    <3> QED
      BY <2>2, <2>3, Zenon
  <2>5. Strip(u) = SubSeq(u, first, last)
    BY <1>0, <1>2, Zenon
  <2>6. \A i \in 1..Len(u) : i \notin solid => u[i] = " "
    BY Zenon
  <2> HIDE DEF solid, first, last
  <2>7. first \in 1..Len(u) /\ last \in 1..Len(u) /\ first <= last
    BY <2>1, <2>4
  <2> DEFINE o == first - 1
  <2>8. o \in Nat /\ o + 1 = first /\ (last + 1) - 1 = last /\ last + 1 \in Nat /\ o < last + 1 /\ last + 1 <= Len(u) + 1 /\ o \in 0..Len(u)
    BY <1>a, <2>7
  <2> HIDE DEF o
  <2>9. Stretch(SubSeq(u, o + 1, (last + 1) - 1), u, o) /\ Len(SubSeq(u, o + 1, (last + 1) - 1)) = (last + 1) - 1 - o
    BY <2>8, SubSeqStretch
  <2>10. Stretch(Strip(u), u, o) /\ Len(Strip(u)) = last - o
    BY <2>5, <2>8, <2>9
  <2>11. ASSUME NEW i \in 1..Len(u), i <= o \/ o + Len(Strip(u)) < i PROVE u[i] = " "
    <3>1. i < first \/ last < i
      BY <2>7, <2>8, <2>10, <2>11
    <3>2. i \notin solid
      BY <2>1, <2>4, <3>1
    <3> QED
      BY <2>6, <3>2
  <2> QED
    BY <2>8, <2>10, <2>11
<1> QED
  BY <1>1, <1>2

(* A segment is a stretch of its text between two edges, the rest between  *)
(* them blank.                                                             *)
LEMMA SegmentStretch ==
  ASSUME NEW S, NEW t \in Seq(S), NEW a \in Nat, NEW b \in Nat, a < b, b <= Len(t) + 1
  PROVE  LET s == Strip(SubSeq(t, a + 1, b - 1))
         IN  /\ s \in Seq(S)
             /\ \E o \in Nat :
                  /\ a <= o /\ o + Len(s) < b /\ Stretch(s, t, o)
                  /\ \A i \in 1..Len(t) : a < i /\ i < b => (o < i /\ i <= o + Len(s)) \/ t[i] = " "
<1> DEFINE u == SubSeq(t, a + 1, b - 1)
           s == Strip(u)
<1>1. u \in Seq(S) /\ Len(u) = b - 1 - a /\ Stretch(u, t, a)
  BY SubSeqStretch
<1>a. Len(t) \in Nat
  OBVIOUS
<1> HIDE DEF u
<1>2. s \in Seq(S)
  BY <1>1, StripType
<1>3. PICK p \in 0..Len(u) :
        /\ Stretch(s, u, p)
        /\ \A i \in 1..Len(u) : i <= p \/ p + Len(s) < i => u[i] = " "
  BY <1>1, StripStretch
<1> HIDE DEF s
<1> DEFINE o == a + p
<1>4. p \in Nat /\ Len(s) \in Nat /\ p + Len(s) <= b - 1 - a /\ \A i \in 1..Len(s) : s[i] = u[p + i]
  BY <1>1, <1>3 DEF Stretch
<1>5. \A i \in 1..(b - 1 - a) : u[i] = t[a + i]
  BY <1>1 DEF Stretch
<1>6. o \in Nat /\ a <= o /\ o + Len(s) < b /\ o + Len(s) <= Len(t)
  BY <1>4, <1>a
<1>7. ASSUME NEW i \in 1..Len(s) PROVE s[i] = t[o + i]
  <2>1. p + i \in 1..(b - 1 - a) /\ a + (p + i) = o + i
    BY <1>4
  <2> QED
    BY <1>4, <1>5, <2>1
<1>8. ASSUME NEW i \in 1..Len(t), a < i, i < b PROVE (o < i /\ i <= o + Len(s)) \/ t[i] = " "
  <2>1. i - a \in 1..(b - 1 - a) /\ a + (i - a) = i
    BY <1>8
  <2>2. CASE i - a <= p \/ p + Len(s) < i - a
    <3>1. u[i - a] = " "
      BY <1>1, <1>3, <2>1, <2>2
    <3> QED
      BY <1>5, <2>1, <3>1
  <2>3. CASE ~(i - a <= p \/ p + Len(s) < i - a)
    <3>1. o < i /\ i <= o + Len(s)
      BY <1>4, <2>3
    <3> QED
      BY <3>1
  <2> QED
    BY <2>2, <2>3
<1> HIDE DEF o
<1>9. Stretch(s, t, o)
  BY <1>4, <1>6, <1>7 DEF Stretch
<1> QED
  BY <1>2, <1>6, <1>8, <1>9 DEF s, u

Outside(t, i) == InLiteral(t)[i] = ""

(* Behind a place outside every literal, the literals are the text's.      *)
LEMMA StretchLiterals ==
  ASSUME NEW t, Len(t) \in Nat, NEW s, NEW o, Stretch(s, t, o), Outside(t, o + 1)
  PROVE  \A i \in 1..(Len(s) + 1) : InLiteral(s)[i] = InLiteral(t)[o + i]
<1>0. Len(s) \in Nat /\ o \in Nat /\ o + Len(s) <= Len(t) /\ \A i \in 1..Len(s) : s[i] = t[o + i]
  BY DEF Stretch
<1>1. /\ InLiteral(s)[1] = ""
      /\ \A i \in 1..Len(s) : InLiteral(s)[i + 1] = After(InLiteral(s)[i], s[i])
  BY <1>0, InLiteralMeans
<1>2. \A i \in 1..Len(t) : InLiteral(t)[i + 1] = After(InLiteral(t)[i], t[i])
  BY InLiteralMeans
<1> DEFINE T == {i \in 0..Len(s) : InLiteral(s)[i + 1] = InLiteral(t)[o + (i + 1)]}
<1>3. 0 \in T
  <2>1. 0 \in 0..Len(s) /\ 0 + 1 = 1
    BY <1>0
  <2> QED
    BY <1>1, <2>1 DEF Outside
<1>4. ASSUME NEW i \in 0..Len(s), i \in T, i < Len(s) PROVE i + 1 \in T
  <2>1. i + 1 \in 1..Len(s) /\ i + 1 \in 0..Len(s) /\ o + (i + 1) \in 1..Len(t) /\ o + (i + 1) + 1 = o + ((i + 1) + 1)
    BY <1>0, <1>4
  <2>2. InLiteral(s)[i + 1] = InLiteral(t)[o + (i + 1)]
    BY <1>4
  <2>3. InLiteral(s)[(i + 1) + 1] = After(InLiteral(s)[i + 1], s[i + 1])
    BY <1>1, <2>1
  <2>4. InLiteral(t)[o + ((i + 1) + 1)] = After(InLiteral(t)[o + (i + 1)], t[o + (i + 1)])
    BY <1>2, <2>1
  <2>5. s[i + 1] = t[o + (i + 1)]
    BY <1>0, <2>1
  <2>6. InLiteral(s)[(i + 1) + 1] = InLiteral(t)[o + ((i + 1) + 1)]
    BY <2>2, <2>3, <2>4, <2>5
  <2> QED
    BY <2>1, <2>6
<1>5. 0..Len(s) \subseteq T
  <2> HIDE DEF T
  <2> QED
    BY <1>0, <1>3, <1>4, UpTo
<1>6. ASSUME NEW i \in 1..(Len(s) + 1) PROVE InLiteral(s)[i] = InLiteral(t)[o + i]
  <2>1. i - 1 \in 0..Len(s) /\ (i - 1) + 1 = i
    BY <1>0
  <2> QED
    BY <1>5, <2>1
<1> QED
  BY <1>6

-----------------------------------------------------------------------------
(* What a segment has of its text *)

BarAt(t, i) == t[i] = "|"

(* BarsStep, without the text itself. *)
LEMMA BarsGrow ==
  ASSUME NEW t, NEW i \in Nat
  PROVE  /\ Bars(t, i) \in Nat
         /\ ~BarAt(t, i + 1) => Bars(t, i + 1) = 0
         /\ BarAt(t, i + 1) => Bars(t, i + 1) = Bars(t, i) + 1
BY BarsStep DEF BarAt

(* Behind a place no run of bars goes on from, the runs are the text's.    *)
LEMMA StretchBars ==
  ASSUME NEW t, Len(t) \in Nat, NEW s, NEW o, Stretch(s, t, o),
         o < Len(t) /\ BarAt(t, o + 1) => Bars(t, o) = 0
  PROVE  \A i \in 1..Len(s) : Bars(s, i) = Bars(t, o + i)
<1>0. Len(s) \in Nat /\ o \in Nat /\ o + Len(s) <= Len(t) /\ \A i \in 1..Len(s) : s[i] = t[o + i]
  BY DEF Stretch
<1>1. \A i \in 1..Len(s) : BarAt(s, i) <=> BarAt(t, o + i)
  BY <1>0 DEF BarAt
<1>2. \A i \in Nat : /\ Bars(s, i) \in Nat
                     /\ ~BarAt(s, i + 1) => Bars(s, i + 1) = 0
                     /\ BarAt(s, i + 1) => Bars(s, i + 1) = Bars(s, i) + 1
  BY BarsGrow
<1>3. \A i \in Nat : /\ Bars(t, i) \in Nat
                     /\ ~BarAt(t, i + 1) => Bars(t, i + 1) = 0
                     /\ BarAt(t, i + 1) => Bars(t, i + 1) = Bars(t, i) + 1
  BY BarsGrow
<1>4. Bars(s, 0) = 0
  <2>1. 0 \in Nat
    OBVIOUS
  <2> QED
    BY <2>1, BarsStep
<1> DEFINE T == {i \in 0..Len(s) : i = 0 \/ Bars(s, i) = Bars(t, o + i)}
<1>5. 0 \in T
  BY <1>0
<1>6. ASSUME NEW i \in 0..Len(s), i \in T, i < Len(s) PROVE i + 1 \in T
  <2>1. i \in Nat /\ i + 1 \in 1..Len(s) /\ i + 1 \in 0..Len(s) /\ o + i \in Nat /\ (o + i) + 1 = o + (i + 1)
    BY <1>0, <1>6
  <2>2. /\ ~BarAt(s, i + 1) => Bars(s, i + 1) = 0
        /\ BarAt(s, i + 1) => Bars(s, i + 1) = Bars(s, i) + 1
    BY <1>2, <2>1
  <2>3. /\ ~BarAt(t, o + (i + 1)) => Bars(t, o + (i + 1)) = 0
        /\ BarAt(t, o + (i + 1)) => Bars(t, o + (i + 1)) = Bars(t, o + i) + 1
    BY <1>3, <2>1
  <2>4. BarAt(s, i + 1) <=> BarAt(t, o + (i + 1))
    BY <1>1, <2>1
  <2>5. BarAt(t, o + (i + 1)) => Bars(s, i) = Bars(t, o + i)
    <3>1. CASE i = 0
      <4>1. o < Len(t) /\ o + (i + 1) = o + 1 /\ o + i = o
        BY <1>0, <1>6, <3>1
      <4> QED
        BY <1>4, <3>1, <4>1
    <3>2. CASE i # 0
      BY <1>6, <3>2
    <3> QED
      BY <3>1, <3>2
  <2>6. Bars(s, i + 1) = Bars(t, o + (i + 1))
    <3>1. CASE BarAt(t, o + (i + 1))
      BY <2>2, <2>3, <2>4, <2>5, <3>1
    <3>2. CASE ~BarAt(t, o + (i + 1))
      BY <2>2, <2>3, <2>4, <3>2
    <3> QED
      BY <3>1, <3>2
  <2> QED
    BY <2>1, <2>6
<1>7. 0..Len(s) \subseteq T
  <2> HIDE DEF T
  <2> QED
    BY <1>0, <1>5, <1>6, UpTo
<1> QED
  <2>1. ASSUME NEW i \in 1..Len(s) PROVE Bars(s, i) = Bars(t, o + i)
    <3>1. i \in 0..Len(s) /\ i # 0
      BY <1>0
    <3> QED
      BY <1>7, <3>1
  <2> QED
    BY <2>1

BlankAt(t, i) == t[i] = " "

(* Blanks are outside a literal if what they follow is.                    *)
LEMMA BlanksOutside ==
  ASSUME NEW t, Len(t) \in Nat, NEW a \in Nat, NEW o \in Nat, a <= o, o <= Len(t), Outside(t, a + 1),
         \A i \in 1..Len(t) : a < i /\ i <= o => BlankAt(t, i)
  PROVE  Outside(t, o + 1)
<1>1. ASSUME NEW i \in 1..Len(t), BlankAt(t, i), Outside(t, i) PROVE Outside(t, i + 1)
  <2>1. InLiteral(t)[i + 1] = After(InLiteral(t)[i], t[i])
    BY InLiteralMeans
  <2>2. After("", " ") = ""
    BY DEF After, Quotes
  <2> QED
    BY <1>1, <2>1, <2>2 DEF Outside, BlankAt
<1>2. ASSUME NEW i \in 1..Len(t), a < i, i <= o, Outside(t, i) PROVE Outside(t, i + 1)
  <2>1. BlankAt(t, i)
    BY <1>2
  <2> QED
    BY <1>1, <1>2, <2>1
<1> DEFINE T == {i \in 0..(o - a) : Outside(t, a + i + 1)}
<1>3. 0 \in T
  <2>1. 0 \in 0..(o - a) /\ a + 0 + 1 = a + 1
    OBVIOUS
  <2> QED
    BY <2>1
<1>4. ASSUME NEW i \in 0..(o - a), i \in T, i < o - a PROVE i + 1 \in T
  <2>1. i + 1 \in 0..(o - a) /\ a + i + 1 \in 1..Len(t) /\ a < a + i + 1 /\ a + i + 1 <= o /\ a + (i + 1) + 1 = (a + i + 1) + 1
    BY <1>4
  <2>2. Outside(t, a + i + 1)
    BY <1>4
  <2>3. Outside(t, (a + i + 1) + 1)
    BY <1>2, <2>1, <2>2
  <2> QED
    BY <2>1, <2>3
<1>5. o - a \in Nat /\ a + (o - a) + 1 = o + 1
  OBVIOUS
<1>6. 0..(o - a) \subseteq T
  <2> HIDE DEF T
  <2> QED
    BY <1>3, <1>4, <1>5, UpTo
<1>7. o - a \in 0..(o - a)
  BY <1>5
<1> QED
  BY <1>5, <1>6, <1>7

(* Behind an edge no literal is open, and no run of bars goes on.          *)
LEMMA EdgeOutside ==
  ASSUME NEW t, Len(t) \in Nat, NEW k \in 1..(Cardinality(Cuts(t)) + 1)
  PROVE  /\ Outside(t, Edge(t, k - 1) + 1)
         /\ Edge(t, k - 1) < Len(t) /\ BarAt(t, Edge(t, k - 1) + 1) => Bars(t, Edge(t, k - 1)) = 0
<1> DEFINE a == Edge(t, k - 1)
           n == Cardinality(Cuts(t))
<1>0. n \in Nat
  BY CutsFinite
<1>1. CASE k = 1
  <2>1. a = 0
    BY <1>1, Edges
  <2>2. Outside(t, 0 + 1)
    <3>1. 0 + 1 = 1
      OBVIOUS
    <3>2. InLiteral(t)[1] = ""
      BY InLiteralMeans
    <3> QED
      BY <3>1, <3>2, Zenon DEF Outside
  <2>3. Bars(t, 0) = 0
    <3>1. 0 \in Nat
      OBVIOUS
    <3> QED
      BY <3>1, BarsStep
  <2> QED
    BY <2>1, <2>2, <2>3 DEF Outside
<1>2. CASE k # 1
  <2>1. k - 1 \in 1..n
    BY <1>0, <1>2
  <2>2. a \in Cuts(t)
    BY <2>1, Edges
  <2> HIDE DEF a
  <2>3. a \in TrueCuts(t) /\ a \in 1..Len(t)
    BY <2>2, CutsAreTrue, CutsType
  <2>4. t[a] = "|" /\ ~Twice(t, a) /\ InLiteral(t)[a] = ""
    BY <2>3, TrueCutsMeans
  <2>5. InLiteral(t)[a + 1] = After(InLiteral(t)[a], t[a])
    BY <2>3, InLiteralMeans
  <2>6. After("", "|") = ""
    BY DEF After, Quotes
  <2>7. Outside(t, a + 1)
    BY <2>4, <2>5, <2>6 DEF Outside
  <2>8. ~(a < Len(t) /\ BarAt(t, a + 1))
    BY <2>4 DEF Twice, BarAt
  <2> QED
    BY <2>7, <2>8 DEF a
<1> QED
  BY <1>1, <1>2

(* s is the stretch of t between two neighbouring edges, without blanks,   *)
(* that starts behind place o.                                             *)
Aligned(s, t, k, o) ==
  /\ o \in Nat /\ Edge(t, k - 1) <= o /\ o + Len(s) < Edge(t, k) /\ Stretch(s, t, o)
  /\ \A i \in 1..Len(t) :
       Edge(t, k - 1) < i /\ i < Edge(t, k) => (o < i /\ i <= o + Len(s)) \/ BlankAt(t, i)
  /\ Outside(t, o + 1)
  /\ o < Len(t) /\ BarAt(t, o + 1) => Bars(t, o) = 0

(* Every segment is such a stretch. *)
LEMMA SegmentAligned ==
  ASSUME NEW S, NEW t \in Seq(S), NEW k \in DOMAIN Split(t)
  PROVE  Split(t)[k] \in Seq(S) /\ \E o \in Nat : Aligned(Split(t)[k], t, k, o)
<1> DEFINE n == Cardinality(Cuts(t))
           a == Edge(t, k - 1)
           b == Edge(t, k)
           s == Split(t)[k]
<1>0. Len(t) \in Nat
  OBVIOUS
<1>1. n \in Nat /\ k \in 1..(n + 1) /\ s = Strip(Between(t, k))
  BY <1>0, CutsFinite, SplitMeans
<1>2. a \in Nat /\ b \in Nat /\ a < b /\ b <= Len(t) + 1
  <2>1. k - 1 \in 0..(n + 1) /\ k \in 0..(n + 1)
    BY <1>1
  <2>2. a \in 0..(Len(t) + 1) /\ b \in 0..(Len(t) + 1)
    BY <1>0, <2>1, Edges
  <2>3. a < b
    BY <1>0, <1>1, EdgesTight
  <2> HIDE DEF a, b
  <2> QED
    BY <1>0, <2>2, <2>3
<1>3. /\ Outside(t, a + 1)
      /\ a < Len(t) /\ BarAt(t, a + 1) => Bars(t, a) = 0
  BY <1>0, <1>1, EdgeOutside
<1>4. s = Strip(SubSeq(t, a + 1, b - 1))
  BY <1>1 DEF Between
<1> HIDE DEF n, a, b, s
<1>5. /\ s \in Seq(S)
      /\ \E o \in Nat :
           /\ a <= o /\ o + Len(s) < b /\ Stretch(s, t, o)
           /\ \A i \in 1..Len(t) : a < i /\ i < b => (o < i /\ i <= o + Len(s)) \/ t[i] = " "
  BY <1>2, <1>4, SegmentStretch
<1>6. PICK o \in Nat :
        /\ a <= o /\ o + Len(s) < b /\ Stretch(s, t, o)
        /\ \A i \in 1..Len(t) : a < i /\ i < b => (o < i /\ i <= o + Len(s)) \/ BlankAt(t, i)
  BY <1>5 DEF BlankAt
<1>7. Len(s) \in Nat /\ o + Len(s) <= Len(t)
  BY <1>6 DEF Stretch
<1>8. \A i \in 1..Len(t) : a < i /\ i <= o => BlankAt(t, i)
  BY <1>2, <1>6, <1>7
<1>9. Outside(t, o + 1)
  <2>1. o <= Len(t)
    BY <1>0, <1>6, <1>7
  <2> QED
    BY <1>0, <1>2, <1>3, <1>6, <1>8, <2>1, BlanksOutside
<1>10. o < Len(t) /\ BarAt(t, o + 1) => Bars(t, o) = 0
  <2>1. CASE o = a
    BY <1>3, <2>1
  <2>2. CASE o # a
    <3>1. o \in 1..Len(t) /\ o - 1 \in Nat /\ (o - 1) + 1 = o /\ a < o
      BY <1>0, <1>2, <1>6, <1>7, <2>2
    <3>2. BlankAt(t, o)
      BY <1>8, <3>1
    <3>3. ~BarAt(t, o)
      BY <3>2 DEF BlankAt, BarAt
    <3>4. ~BarAt(t, (o - 1) + 1) => Bars(t, (o - 1) + 1) = 0
      BY <3>1, BarsGrow
    <3> QED
      BY <3>1, <3>3, <3>4
  <2> QED
    BY <2>1, <2>2
<1>11. Aligned(s, t, k, o)
  BY <1>6, <1>9, <1>10 DEF Aligned, a, b
<1> QED
  BY <1>5, <1>6, <1>11 DEF s

(* What is a place of a segment is one of the text: its literal, its bars. *)
LEMMA AlignedPlaces ==
  ASSUME NEW t, Len(t) \in Nat, NEW s, NEW k, NEW o, Aligned(s, t, k, o)
  PROVE  /\ Len(s) \in Nat /\ o \in Nat /\ o + Len(s) <= Len(t)
         /\ \A i \in 1..Len(s) : /\ s[i] = t[o + i]
                                 /\ Outside(s, i) <=> Outside(t, o + i)
                                 /\ Bars(s, i) = Bars(t, o + i)
<1>1. /\ Stretch(s, t, o) /\ Outside(t, o + 1) /\ o \in Nat
      /\ o < Len(t) /\ BarAt(t, o + 1) => Bars(t, o) = 0
  BY DEF Aligned
<1>2. Len(s) \in Nat /\ o + Len(s) <= Len(t) /\ \A i \in 1..Len(s) : s[i] = t[o + i]
  BY <1>1 DEF Stretch
<1>3. \A i \in 1..(Len(s) + 1) : InLiteral(s)[i] = InLiteral(t)[o + i]
  BY <1>1, StretchLiterals
<1>4. \A i \in 1..Len(s) : Bars(s, i) = Bars(t, o + i)
  BY <1>1, StretchBars
<1>5. \A i \in 1..Len(s) : i \in 1..(Len(s) + 1)
  BY <1>2
<1>6. \A i \in 1..Len(s) : Outside(s, i) <=> Outside(t, o + i)
  BY <1>3, <1>5 DEF Outside
<1> QED
  BY <1>1, <1>2, <1>4, <1>6

(* A segment is not cut again.                                             *)
LEMMA CutOnce ==
  ASSUME NEW t, Len(t) \in Nat, NEW k \in 1..(Cardinality(Cuts(t)) + 1), NEW s, NEW o, Aligned(s, t, k, o)
  PROVE  Cuts(s) = {}
<1> DEFINE a == Edge(t, k - 1)
           b == Edge(t, k)
           n == Cardinality(Cuts(t))
<1>0. n \in Nat /\ k - 1 \in 0..(n + 1) /\ k \in 0..(n + 1)
  <2>1. n \in Nat
    BY CutsFinite
  <2> QED
    BY <2>1
<1>1. a \in Nat /\ b \in Nat /\ b <= Len(t) + 1
  <2>1. a \in 0..(Len(t) + 1) /\ b \in 0..(Len(t) + 1)
    BY <1>0, Edges
  <2> HIDE DEF a, b
  <2> QED
    BY <2>1
<1>2. \A c \in Cuts(t) : c <= a \/ b <= c
  BY EdgesTight
<1>3. b = Len(t) + 1 \/ b \in Cuts(t)
  <2>1. k = n + 1 \/ k \in 1..n
    BY <1>0
  <2> QED
    BY <2>1, Edges
<1>4. a <= o /\ o + Len(s) < b
  BY DEF Aligned
<1> HIDE DEF a, b, n
<1>5. /\ Len(s) \in Nat /\ o \in Nat /\ o + Len(s) <= Len(t)
      /\ \A i \in 1..Len(s) : /\ s[i] = t[o + i]
                              /\ Outside(s, i) <=> Outside(t, o + i)
                              /\ Bars(s, i) = Bars(t, o + i)
  BY AlignedPlaces
<1> DEFINE OddBar(u, i) == BarAt(u, i) /\ ~Twice(u, i) /\ Outside(u, i) /\ Bars(u, i) % 2 = 1
<1>6. ASSUME NEW u, Len(u) \in Nat, NEW i \in 1..Len(u) PROVE i \in Cuts(u) <=> OddBar(u, i)
  <2>1. i \in TrueCuts(u) <=> u[i] = "|" /\ ~Twice(u, i) /\ InLiteral(u)[i] = "" /\ Bars(u, i) % 2 = 1
    BY <1>6, TrueCutsMeans
  <2>2. Cuts(u) = TrueCuts(u)
    BY <1>6, CutsAreTrue
  <2> QED
    BY <2>1, <2>2, Zenon DEF Outside, BarAt
<1> HIDE DEF OddBar
<1>7. ASSUME NEW i \in 1..Len(s), OddBar(s, i) PROVE FALSE
  <2> DEFINE j == o + i
  <2>1. j \in 1..Len(t) /\ a < j /\ j < b
    BY <1>1, <1>4, <1>5
  <2>2. BarAt(t, j) /\ Outside(t, j) /\ Bars(t, j) % 2 = 1
    BY <1>5, <1>7 DEF OddBar, BarAt
  <2>3. CASE ~Twice(t, j)
    <3>1. OddBar(t, j)
      BY <2>2, <2>3 DEF OddBar
    <3>2. j \in Cuts(t)
      BY <1>6, <2>1, <3>1
    <3> HIDE DEF j
    <3> QED
      BY <1>1, <1>2, <2>1, <3>2
  <2>4. CASE Twice(t, j)
    <3>1. j < Len(t) /\ t[j + 1] = t[j]
      BY <2>4 DEF Twice
    <3>2. BarAt(t, j + 1)
      BY <2>2, <3>1 DEF BarAt
    <3>3. i = Len(s)
      <4>1. SUFFICES ASSUME i # Len(s) PROVE FALSE
        OBVIOUS
      <4>2. i < Len(s) /\ i + 1 \in 1..Len(s) /\ o + (i + 1) = j + 1
        BY <1>5, <4>1
      <4>3. s[i + 1] = t[j + 1] /\ s[i] = t[j]
        BY <1>5, <4>2
      <4>4. Twice(s, i)
        BY <3>1, <4>2, <4>3 DEF Twice
      <4> QED
        BY <1>7, <4>4 DEF OddBar
    <3>4. j + 1 \in 1..Len(t) /\ j \in Nat
      BY <1>5, <2>1, <3>1
    <3>5. j + 1 = b
      <4>1. j + 1 <= b
        BY <1>1, <2>1
      <4>2. SUFFICES ASSUME j + 1 < b PROVE FALSE
        BY <1>1, <3>4, <4>1
      <4>3. (o < j + 1 /\ j + 1 <= o + Len(s)) \/ BlankAt(t, j + 1)
        <5>1. a < j + 1
          BY <1>1, <2>1, <3>4
        <5>2. \A m \in 1..Len(t) : a < m /\ m < b => (o < m /\ m <= o + Len(s)) \/ BlankAt(t, m)
          BY DEF Aligned, a, b
        <5> HIDE DEF j
        <5> QED
          BY <3>4, <4>2, <5>1, <5>2
      <4>4. ~(j + 1 <= o + Len(s))
        BY <1>5, <3>3
      <4>5. ~BlankAt(t, j + 1)
        BY <3>2 DEF BlankAt, BarAt
      <4> QED
        BY <4>3, <4>4, <4>5
    <3>6. b \in Cuts(t)
      BY <1>1, <1>3, <3>4, <3>5
    <3>7. Bars(t, j + 1) % 2 = 1
      BY <1>6, <3>4, <3>5, <3>6 DEF OddBar
    <3>8. Bars(t, j) \in Nat /\ Bars(t, j + 1) = Bars(t, j) + 1
      BY <3>2, <3>4, BarsGrow
    <3>9. (Bars(t, j) + 1) % 2 = 0 <=> ~(Bars(t, j) % 2 = 0)
      BY <3>8, Parity
    <3> QED
      BY <2>2, <3>7, <3>8, <3>9
  <2> QED
    BY <2>3, <2>4
<1>8. Cuts(s) \subseteq 1..Len(s)
  BY <1>5, CutsType
<1> QED
  BY <1>5, <1>6, <1>7, <1>8

-----------------------------------------------------------------------------
(* The placeholders of the segments *)

(* The placeholders before a place.                                        *)
MarksBelow(t, e) == {i \in TruePlaceholders(t) : i < e}

MarkAt(t, i) == t[i] = "?"

(* A placeholder is a question mark outside every literal. *)
LEMMA MarkMeans ==
  ASSUME NEW t
  PROVE  \A i : i \in TruePlaceholders(t) <=> i \in 1..Len(t) /\ MarkAt(t, i) /\ Outside(t, i)
BY Zenon DEF TruePlaceholders, MarkAt, Outside

(* A text has finitely many placeholders. *)
LEMMA MarksFinite ==
  ASSUME NEW t, Len(t) \in Nat, NEW X, X \subseteq TruePlaceholders(t)
  PROVE  IsFiniteSet(X) /\ Cardinality(X) \in Nat
<1>1. IsFiniteSet(1..Len(t))
  BY FS_Interval
<1>2. X \in SUBSET (1..Len(t))
  BY MarkMeans
<1> QED
  BY <1>1, <1>2, FS_Subset, FS_CardinalityType

(* The placeholders between two neighbouring edges are the segment's.      *)
LEMMA MarksBetween ==
  ASSUME NEW t, Len(t) \in Nat, NEW k \in 1..(Cardinality(Cuts(t)) + 1), NEW s, NEW o, Aligned(s, t, k, o)
  PROVE  /\ NeedOf(s) \in Nat
         /\ Cardinality(MarksBelow(t, Edge(t, k)))
              = Cardinality(MarksBelow(t, Edge(t, k - 1))) + NeedOf(s)
<1> DEFINE a == Edge(t, k - 1)
           b == Edge(t, k)
           n == Cardinality(Cuts(t))
           A == MarksBelow(t, a)
           B == MarksBelow(t, b)
           M == {i \in TruePlaceholders(t) : a <= i /\ i < b}
           P == TruePlaceholders(s)
           f == [i \in P |-> o + i]
<1>0. n \in Nat /\ k - 1 \in 0..(n + 1) /\ k \in 0..(n + 1)
  <2>1. n \in Nat
    BY CutsFinite
  <2> QED
    BY <2>1
<1>1. a \in Nat /\ b \in Nat /\ a < b
  <2>1. a \in 0..(Len(t) + 1) /\ b \in 0..(Len(t) + 1)
    BY <1>0, Edges
  <2>2. a < b
    BY EdgesTight
  <2> HIDE DEF a, b
  <2> QED
    BY <2>1, <2>2
<1>2. a = 0 \/ BarAt(t, a)
  <2>1. CASE k = 1
    BY <2>1, Edges
  <2>2. CASE k # 1
    <3>1. k - 1 \in 1..n
      BY <1>0, <2>2
    <3>2. a \in Cuts(t)
      BY <3>1, Edges
    <3>3. a \in TrueCuts(t)
      BY <3>2, CutsAreTrue
    <3> QED
      BY <3>3 DEF TrueCuts, BarAt
  <2> QED
    BY <2>1, <2>2
<1>3. /\ Len(s) \in Nat /\ o \in Nat /\ o + Len(s) <= Len(t)
      /\ \A i \in 1..Len(s) : s[i] = t[o + i] /\ (Outside(s, i) <=> Outside(t, o + i))
  BY AlignedPlaces
<1>4. /\ a <= o /\ o + Len(s) < b
      /\ \A i \in 1..Len(t) : a < i /\ i < b => (o < i /\ i <= o + Len(s)) \/ BlankAt(t, i)
  BY DEF Aligned
<1>5. NeedOf(s) = Cardinality(P)
  <2>1. Placeholders(s) = P
    BY <1>3, MarksAreTrue
  <2> QED
    BY <2>1 DEF NeedOf
<1> HIDE DEF a, b, n
<1>6. \A i \in 1..Len(t) : MarkAt(t, i) => ~BlankAt(t, i) /\ ~BarAt(t, i)
  BY DEF MarkAt, BlankAt, BarAt
<1>7. \A i \in 1..Len(s) : MarkAt(s, i) <=> MarkAt(t, o + i)
  BY <1>3 DEF MarkAt
<1>8. ASSUME NEW i \in P PROVE f[i] \in M
  <2>1. i \in 1..Len(s) /\ MarkAt(s, i) /\ Outside(s, i)
    BY MarkMeans
  <2>2. MarkAt(t, o + i) /\ Outside(t, o + i)
    BY <1>3, <1>7, <2>1
  <2>3. o + i \in 1..Len(t) /\ a <= o + i /\ o + i < b
    BY <1>1, <1>3, <1>4, <2>1
  <2>4. o + i \in TruePlaceholders(t)
    BY <2>2, <2>3, MarkMeans
  <2> QED
    BY <2>3, <2>4
<1>9. ASSUME NEW j \in M PROVE \E i \in P : f[i] = j
  <2>1. j \in 1..Len(t) /\ MarkAt(t, j) /\ Outside(t, j) /\ a <= j /\ j < b
    BY MarkMeans
  <2>2. j # a
    BY <1>2, <1>6, <2>1
  <2>3. o < j /\ j <= o + Len(s)
    <3>1. a < j
      BY <1>1, <2>1, <2>2
    <3> QED
      BY <1>4, <1>6, <2>1, <3>1
  <2>4. j - o \in 1..Len(s) /\ o + (j - o) = j
    BY <1>3, <2>1, <2>3
  <2>5. MarkAt(s, j - o) /\ Outside(s, j - o)
    BY <1>3, <1>7, <2>1, <2>4
  <2>6. j - o \in P
    BY <2>4, <2>5, MarkMeans
  <2> QED
    BY <2>4, <2>6
<1>10. ASSUME NEW i \in P, NEW j \in P, f[i] = f[j] PROVE i = j
  <2>1. i \in 1..Len(s) /\ j \in 1..Len(s)
    BY MarkMeans
  <2> QED
    BY <1>3, <1>10, <2>1
<1>11. ExistsBijection(P, M)
  <2>1. f \in [P -> M]
    <3> HIDE DEF P, M
    <3> QED
      BY <1>8
  <2> HIDE DEF P, M, f
  <2>2. f \in Bijection(P, M)
    BY <1>9, <1>10, <2>1 DEF Bijection, Injection, Surjection, IsInjective
  <2> QED
    BY <2>2 DEF ExistsBijection
<1>12. /\ IsFiniteSet(P) /\ Cardinality(P) \in Nat /\ IsFiniteSet(A) /\ IsFiniteSet(B)
       /\ Cardinality(A) \in Nat /\ Cardinality(B) \in Nat /\ IsFiniteSet(M)
  <2>1. A \subseteq TruePlaceholders(t) /\ B \subseteq TruePlaceholders(t) /\ M \subseteq TruePlaceholders(t)
    BY DEF MarksBelow
  <2> HIDE DEF A, B, M
  <2> QED
    BY <1>3, <2>1, MarksFinite
<1>13. Cardinality(M) = Cardinality(P)
  <2> HIDE DEF P, M
  <2> QED
    BY <1>11, <1>12, FS_Bijection
<1>14. B = A \cup M /\ A \cap M = {}
  <2>1. \A i \in TruePlaceholders(t) : i \in Nat
    BY MarkMeans
  <2> QED
    BY <1>1, <2>1 DEF MarksBelow
<1> HIDE DEF A, B, M, P, f
<1>15. Cardinality(A \cup M) = Cardinality(A) + Cardinality(M) - Cardinality(A \cap M)
  BY <1>12, FS_Union
<1>16. Cardinality(A \cap M) = 0
  BY <1>14, FS_EmptySet
<1>17. Cardinality(B) = Cardinality(A) + NeedOf(s) /\ NeedOf(s) \in Nat
  BY <1>5, <1>12, <1>13, <1>14, <1>15, <1>16
<1> QED
  BY <1>17 DEF A, B, a, b

(* The segments' placeholders are the text's.                              *)
LEMMA MarksShared ==
  ASSUME NEW S, NEW t \in Seq(S)
  PROVE  FoldFunction(+, 0, [k \in DOMAIN Split(t) |-> NeedOf(Split(t)[k])]) = NeedOf(t)
<1> DEFINE n == Cardinality(Cuts(t))
           f == [k \in DOMAIN Split(t) |-> NeedOf(Split(t)[k])]
           g == [k \in 0..(n + 1) |-> Cardinality(MarksBelow(t, Edge(t, k)))]
<1>0. Len(t) \in Nat /\ n \in Nat /\ DOMAIN Split(t) = 1..(n + 1)
  <2>1. Len(t) \in Nat
    OBVIOUS
  <2> QED
    BY <2>1, CutsFinite, SplitMeans
<1>1. Edge(t, 0) = 0 /\ Edge(t, n + 1) = Len(t) + 1
  BY <1>0, Edges
<1>2. ASSUME NEW e PROVE Cardinality(MarksBelow(t, e)) \in Nat
  <2>1. MarksBelow(t, e) \subseteq TruePlaceholders(t)
    BY DEF MarksBelow
  <2> QED
    BY <1>0, <2>1, MarksFinite
<1>3. Cardinality(MarksBelow(t, 0)) = 0
  <2>1. MarksBelow(t, 0) = {}
    BY <1>0, MarkMeans DEF MarksBelow
  <2> QED
    BY <2>1, FS_EmptySet
<1>4. Cardinality(MarksBelow(t, Len(t) + 1)) = NeedOf(t)
  <2>1. MarksBelow(t, Len(t) + 1) = TruePlaceholders(t)
    BY <1>0, MarkMeans DEF MarksBelow
  <2>2. Placeholders(t) = TruePlaceholders(t)
    BY <1>0, MarksAreTrue
  <2> QED
    BY <2>1, <2>2 DEF NeedOf
<1>5. ASSUME NEW k \in 1..(n + 1)
      PROVE  /\ NeedOf(Split(t)[k]) \in Nat
             /\ Cardinality(MarksBelow(t, Edge(t, k)))
                  = Cardinality(MarksBelow(t, Edge(t, k - 1))) + NeedOf(Split(t)[k])
  <2>1. PICK o \in Nat : Aligned(Split(t)[k], t, k, o)
    BY <1>0, SegmentAligned
  <2> QED
    BY <1>0, <2>1, MarksBetween
<1>6. \A k \in 0..(n + 1) : g[k] = Cardinality(MarksBelow(t, Edge(t, k)))
  OBVIOUS
<1>7. \A k \in 1..(n + 1) : f[k] = NeedOf(Split(t)[k])
  BY <1>0
<1>8. DOMAIN f = 1..(n + 1)
  BY <1>0
<1> HIDE DEF f, g, n
<1>9. Totals(n + 1, f, g)
  <2>1. 0 \in 0..(n + 1) /\ \A k \in 1..(n + 1) : k \in 0..(n + 1) /\ k - 1 \in 0..(n + 1)
    BY <1>0
  <2>2. g[0] = 0
    BY <1>1, <1>3, <1>6, <2>1
  <2>3. \A k \in 0..(n + 1) : g[k] \in Nat
    BY <1>2, <1>6
  <2>4. \A k \in 1..(n + 1) : f[k] \in Nat /\ g[k] = g[k - 1] + f[k]
    BY <1>5, <1>6, <1>7, <2>1
  <2> QED
    BY <2>2, <2>3, <2>4 DEF Totals
<1>10. FoldFunction(+, 0, f) = g[n + 1]
  <2>1. n + 1 \in Nat
    BY <1>0
  <2> QED
    BY <1>8, <1>9, <2>1, SumIsTotal
<1>11. g[n + 1] = NeedOf(t)
  <2>1. n + 1 \in 0..(n + 1)
    BY <1>0
  <2> QED
    BY <1>1, <1>4, <1>6, <2>1
<1> QED
  BY <1>10, <1>11 DEF f

(* Whatever the text, the two scanners of pipeline_service.py read its     *)
(* literals the same way: it is cut at the odd bars outside them, no       *)
(* segment can be cut again, and no placeholder is lost or found twice.    *)
LEMMA TextsAgree ==
  ASSUME NEW S, NEW t \in Seq(S)
  PROVE  /\ Cuts(t) = TrueCuts(t) /\ Placeholders(t) = TruePlaceholders(t)
         /\ \A k \in DOMAIN Split(t) : Cuts(Split(t)[k]) = {}
         /\ FoldFunction(+, 0, [k \in DOMAIN Split(t) |-> NeedOf(Split(t)[k])]) = NeedOf(t)
<1>0. Len(t) \in Nat
  OBVIOUS
<1>1. Cuts(t) = TrueCuts(t) /\ Placeholders(t) = TruePlaceholders(t)
  BY <1>0, CutsAreTrue, MarksAreTrue
<1>2. ASSUME NEW k \in DOMAIN Split(t) PROVE Cuts(Split(t)[k]) = {}
  <2>1. PICK o \in Nat : Aligned(Split(t)[k], t, k, o)
    BY SegmentAligned
  <2>2. k \in 1..(Cardinality(Cuts(t)) + 1)
    BY <1>0, SplitMeans
  <2> QED
    BY <1>0, <2>1, <2>2, CutOnce
<1> QED
  BY <1>1, <1>2, MarksShared

(* The two scanners of the pipeline compiler agree on every text a caller  *)
(* can send.                                                               *)
THEOREM ScannersMatch == Spec => []ScannersAgree
<1>1. Inv => ScannersAgree
  <2> SUFFICES ASSUME Inv PROVE ScannersAgree
    OBVIOUS
  <2>1. request.text \in Seq(STRING)
    BY RequestAssumption DEF Inv, Typed
  <2>2. /\ Cuts(request.text) = TrueCuts(request.text)
        /\ Placeholders(request.text) = TruePlaceholders(request.text)
        /\ \A k \in DOMAIN Split(request.text) : Cuts(Split(request.text)[k]) = {}
        /\ FoldFunction(+, 0, [k \in DOMAIN Split(request.text) |-> NeedOf(Split(request.text)[k])])
             = NeedOf(request.text)
    BY <2>1, TextsAgree
  <2> QED
    BY <2>2, Zenon DEF ScannersAgree
<1> QED
  BY <1>1, Invariance, PTL

-----------------------------------------------------------------------------
(* The answer *)

Total(f) == FoldFunction(+, 0, f)

(* The caller's parameters the first k segments take.                      *)
Need(k)  == IF IsSQL(segments[k]) THEN NeedOf(segments[k]) ELSE 0
Users(k) == Total([j \in 1..k |-> Need(j)])

(* The parameters that belong to a segment.                                *)
Own(k) ==
  IF IsSQL(segments[k]) THEN [i \in 1..NeedOf(segments[k]) |-> <<"user", i + Users(k - 1)>>]
  ELSE [i \in 1..ParamsOf(Op(segments[k])) |-> <<"op", k, i>>]

(* The places for parameters in the first j parts of a phase.              *)
Gone(parts, j) == Total([i \in 1..j |-> Holes(parts[i])])

(* If there are as many parameters as places, every part has its own.      *)
ParamsFit(parts, params) ==
  Len(params) = Gone(parts, Len(parts)) =>
    \A j \in 1..Len(parts) : SubSeq(params, Gone(parts, j - 1) + 1, Gone(parts, j)) = Own(parts[j].seg)

(* The segment a phase ends with.                                          *)
EndAt(n) == IF n = 0 THEN 0 ELSE plan[n].parts[Len(plan[n].parts)].seg

KindRight(k) ==
  /\ staged[k].kind = "sql" <=> IsSQL(segments[k])
  /\ staged[k].kind = "bash" => Op(segments[k]).duck = "none"

(* A phase has the segments behind the last one's, of one runtime, and a   *)
(* DuckDB phase the parameters that are theirs.                            *)
PhaseRight(n) ==
  LET parts == plan[n].parts
  IN  /\ IsSeq(parts) /\ Len(parts) >= 1
      /\ EndAt(n - 1) \in Nat /\ EndAt(n) = EndAt(n - 1) + Len(parts) /\ EndAt(n) <= Len(staged)
      /\ \A j \in 1..Len(parts) : parts[j] = staged[EndAt(n - 1) + j]
      /\ \A j \in 1..Len(parts) : parts[j].kind = "bash" <=> plan[n].kind = "bash"
      /\ plan[n].kind # "bash" =>
           /\ plan[n].from = IF n = 1 THEN "none" ELSE "_bridge"
           /\ ParamsFit(parts, plan[n].params)

(* What the caller gave for the segments behind the e-th. *)
UserAt(i) == <<"user", i>>
UsersFrom(u, m) == [i \in 1..m |-> UserAt(u + i)]
IsLeft(l, e) == Users(e) <= request.given /\ l = UsersFrom(Users(e), request.given - Users(e))

LeftRight ==
  /\ at = "text" => left = User(request.given)
  /\ at = "stage" => IsLeft(left, Fused)

(* The operators whose SQL has parameters are none a process runs. *)
NoProcess(names) == \A w \in DOMAIN registry : registry[w].name \in names => registry[w].duck # "none"

(* The segments are texts, and the phases what is to be made of them.      *)
PlanRight ==
  /\ NoProcess({"search", "grep"})
  /\ \A k \in 1..Len(segments) : Len(segments[k]) \in Nat
  /\ \A k \in 1..Len(staged) : KindRight(k)
  /\ \A n \in 1..Len(plan) : PhaseRight(n)

(* The rows are those of the first m segments.                             *)
RowsRight(m) ==
  /\ IsSeq(rows) /\ Len(rows) = m
  /\ \A k \in 1..m :
       /\ rows[k].seg = k /\ rows[k].params = Own(k)
       /\ \/ rows[k].window = (IF k = 1 THEN "asked" ELSE "none")
          \/ /\ rows[k].window = "part"
             /\ staged[k].kind = "bash" /\ k < Len(staged) /\ staged[k + 1].kind = "bash"

(* The rows are those of the phases that have run, and a DuckDB phase that *)
(* is next finds them in _bridge.                                          *)
RunRight ==
  /\ IsSeq(bridge)
  /\ at = "run" => step = 1
  /\ at = "next" => /\ step >= 2 /\ RowsRight(EndAt(step - 1))
                    /\ plan[step].kind # "bash" => bridge = rows
  /\ at = "done" => RowsRight(Len(segments))

AnswerInv == PlanRight /\ LeftRight /\ RunRight

(* The sums of the first numbers, one after the other. *)
LEMMA SumStep ==
  ASSUME NEW n \in Nat, NEW h, \A k \in 1..n : h[k] \in Nat
  PROVE  LET S(k) == FoldFunction(+, 0, [j \in 1..k |-> h[j]])
         IN  S(0) = 0 /\ (\A k \in 0..n : S(k) \in Nat) /\ \A k \in 1..n : S(k) = S(k - 1) + h[k]
<1> DEFINE S(k) == FoldFunction(+, 0, [j \in 1..k |-> h[j]])
           c == [i \in 1..n |-> [x \in Nat |-> h[i]]]
<1>1. c \in [1..n -> [Nat -> Nat]]
  OBVIOUS
<1>2. PICK g \in [0..n -> Nat] : g[0] = 0 /\ \A i \in 1..n : g[i] = g[i - 1] + c[i][g[i - 1]]
  <2> HIDE DEF c
  <2> QED
    BY <1>1, PartialSums
<1>3. ASSUME NEW i \in 1..n PROVE g[i] = g[i - 1] + h[i]
  <2>1. g[i - 1] \in Nat
    <3>1. i - 1 \in 0..n
      OBVIOUS
    <3> QED
      BY <1>2, <3>1
  <2>2. c[i][g[i - 1]] = h[i]
    BY <2>1
  <2> QED
    BY <1>2, <2>2
<1>4. ASSUME NEW k \in 0..n PROVE S(k) = g[k]
  <2> DEFINE f == [j \in 1..k |-> h[j]]
  <2>1. k \in Nat /\ 1..k \subseteq 1..n /\ 0..k \subseteq 0..n
    OBVIOUS
  <2>2. DOMAIN f = 1..k /\ \A j \in 1..k : f[j] = h[j]
    OBVIOUS
  <2> HIDE DEF f
  <2>3. Totals(k, f, g)
    <3>1. g[0] = 0 /\ \A j \in 0..k : g[j] \in Nat
      BY <1>2, <2>1
    <3>2. \A j \in 1..k : f[j] \in Nat /\ g[j] = g[j - 1] + f[j]
      BY <1>3, <2>1, <2>2
    <3> QED
      BY <3>1, <3>2, Zenon DEF Totals
  <2>4. FoldFunction(+, 0, f) = g[k]
    BY <2>1, <2>2, <2>3, SumIsTotal
  <2> QED
    BY <2>4 DEF f
<1> HIDE DEF S
<1>5. S(0) = 0
  <2>1. 0 \in 0..n
    OBVIOUS
  <2> QED
    BY <1>2, <1>4, <2>1
<1>6. \A k \in 0..n : S(k) \in Nat
  BY <1>2, <1>4
<1>7. ASSUME NEW k \in 1..n PROVE S(k) = S(k - 1) + h[k]
  <2>1. k \in 0..n /\ k - 1 \in 0..n
    OBVIOUS
  <2> QED
    BY <1>3, <1>4, <2>1
<1> QED
  BY <1>5, <1>6, <1>7 DEF S

(* Segments are texts. *)
Segmented == IsSeq(segments) /\ \A k \in 1..Len(segments) : Len(segments[k]) \in Nat

(* A segment has a natural number of places for the caller's parameters. *)
LEMMA NeedType ==
  ASSUME Segmented, NEW k \in 1..Len(segments)
  PROVE  NeedOf(segments[k]) \in Nat /\ Need(k) \in Nat
<1>1. Len(segments[k]) \in Nat
  BY DEF Segmented
<1>2. Placeholders(segments[k]) = TruePlaceholders(segments[k])
  BY <1>1, MarksAreTrue
<1>3. Cardinality(TruePlaceholders(segments[k])) \in Nat
  BY <1>1, MarksFinite
<1> QED
  BY <1>2, <1>3 DEF NeedOf, Need

(* One segment more takes the parameters of its own places more. *)
LEMMA UsersStep ==
  ASSUME Segmented
  PROVE  /\ Users(0) = 0 /\ \A k \in 0..Len(segments) : Users(k) \in Nat
         /\ \A k \in 1..Len(segments) : Users(k) = Users(k - 1) + Need(k)
<1> DEFINE n == Len(segments)
           h == [k \in 1..n |-> Need(k)]
<1>1. n \in Nat
  BY IsSeqType DEF Segmented
<1>2. \A k \in 1..n : h[k] \in Nat /\ h[k] = Need(k)
  BY NeedType
<1>3. ASSUME NEW k \in 0..n PROVE Users(k) = FoldFunction(+, 0, [j \in 1..k |-> h[j]])
  <2>1. 1..k \subseteq 1..n
    BY <1>1
  <2>2. [j \in 1..k |-> h[j]] = [j \in 1..k |-> Need(j)]
    <3>1. \A j \in 1..k : h[j] = Need(j)
      BY <1>2, <2>1
    <3> HIDE DEF h
    <3> QED
      BY <3>1, Zenon
  <2> QED
    BY <2>2, Zenon DEF Users, Total
<1> HIDE DEF n, h
<1> DEFINE S(k) == FoldFunction(+, 0, [j \in 1..k |-> h[j]])
<1>4. S(0) = 0 /\ (\A k \in 0..n : S(k) \in Nat) /\ \A k \in 1..n : S(k) = S(k - 1) + h[k]
  BY <1>1, <1>2, SumStep
<1>5. \A k \in 0..n : Users(k) = S(k)
  BY <1>3
<1> HIDE DEF S
<1>6. 0 \in 0..n /\ \A k \in 1..n : k \in 0..n /\ k - 1 \in 0..n
  BY <1>1
<1>7. Users(0) = 0 /\ \A k \in 0..n : Users(k) \in Nat
  BY <1>4, <1>5, <1>6
<1>8. \A k \in 1..n : Users(k) = Users(k - 1) + Need(k)
  BY <1>2, <1>4, <1>5, <1>6
<1> QED
  BY <1>7, <1>8 DEF n

(* An operator brings as many parameters as its SQL has places. *)
LEMMA OwnPlaces == \A op : HolesOf(op) = ParamsOf(op) /\ ParamsOf(op) \in Nat
BY OperatorAssumption DEF HolesOf, ParamsOf

(* parts are the segments behind the e-th, as DuckDB is to run them.       *)
IsRun(parts, e) ==
  /\ e \in Nat /\ Len(parts) \in Nat /\ e + Len(parts) <= Len(segments)
  /\ \A j \in 1..Len(parts) : /\ parts[j].seg = e + j /\ parts[j].kind \in {"sql", "duck"}
                              /\ parts[j].kind = "sql" <=> IsSQL(segments[e + j])

(* What a part takes of the caller's parameters is what its segment needs. *)
LEMMA TakesMeans ==
  ASSUME Segmented, NEW parts, NEW e, IsRun(parts, e)
  PROVE  /\ \A j \in 0..Len(parts) : Takes(parts, j) \in Nat /\ Users(e) + Takes(parts, j) = Users(e + j)
         /\ \A j \in 1..Len(parts) : Takes(parts, j) = Takes(parts, j - 1) + Need(e + j)
<1> DEFINE n == Len(parts)
           W(k) == IF parts[k].kind = "sql" THEN NeedOf(segments[parts[k].seg]) ELSE 0
           h == [k \in 1..n |-> W(k)]
<1>1. n \in Nat /\ e \in Nat /\ e + n <= Len(segments) /\ Len(segments) \in Nat
  BY IsSeqType DEF IsRun, Segmented
<1>2. ASSUME NEW k \in 1..n PROVE W(k) = Need(e + k)
  BY Zenon DEF IsRun, Need
<1>3. ASSUME NEW k \in 1..n PROVE Need(e + k) \in Nat
  <2>1. e + k \in 1..Len(segments)
    BY <1>1
  <2> QED
    BY <2>1, NeedType
<1>4. ASSUME NEW k \in 0..n PROVE Takes(parts, k) = FoldFunction(+, 0, [j \in 1..k |-> h[j]])
  <2>1. 1..k \subseteq 1..n
    BY <1>1
  <2>2. [j \in 1..k |-> h[j]] = [j \in 1..k |-> W(j)]
    <3>1. \A j \in 1..k : h[j] = W(j)
      BY <2>1
    <3> HIDE DEF h, W
    <3> QED
      BY <3>1, Zenon
  <2> QED
    BY <2>2, Zenon DEF Takes
<1>5. \A k \in 1..n : h[k] = Need(e + k) /\ h[k] \in Nat
  <2>1. \A k \in 1..n : h[k] = W(k)
    OBVIOUS
  <2> HIDE DEF h, W
  <2> QED
    BY <1>2, <1>3, <2>1
<1> HIDE DEF n, h, W
<1> DEFINE S(k) == FoldFunction(+, 0, [j \in 1..k |-> h[j]])
<1>6. S(0) = 0 /\ (\A k \in 0..n : S(k) \in Nat) /\ \A k \in 1..n : S(k) = S(k - 1) + h[k]
  BY <1>1, <1>5, SumStep
<1>7. \A k \in 0..n : Takes(parts, k) = S(k)
  BY <1>4
<1> HIDE DEF S
<1>8. 0 \in 0..n /\ \A k \in 1..n : k \in 0..n /\ k - 1 \in 0..n
  BY <1>1
<1>9. Takes(parts, 0) = 0 /\ \A k \in 0..n : Takes(parts, k) \in Nat
  BY <1>6, <1>7, <1>8
<1>10. \A k \in 1..n : Takes(parts, k) = Takes(parts, k - 1) + Need(e + k)
  BY <1>5, <1>6, <1>7, <1>8
<1>11. /\ \A k \in 0..Len(segments) : Users(k) \in Nat
       /\ \A k \in 1..Len(segments) : Users(k) = Users(k - 1) + Need(k)
  BY UsersStep
<1> DEFINE T == {k \in 0..n : Users(e) + Takes(parts, k) = Users(e + k)}
<1>12. 0 \in T
  <2>1. e \in 0..Len(segments) /\ e + 0 = e
    BY <1>1
  <2> QED
    BY <1>8, <1>9, <1>11, <2>1
<1>13. ASSUME NEW k \in 0..n, k \in T, k < n PROVE k + 1 \in T
  <2>1. /\ k + 1 \in 1..n /\ k + 1 \in 0..n /\ (k + 1) - 1 = k /\ e + (k + 1) \in 1..Len(segments)
        /\ (e + (k + 1)) - 1 = e + k /\ e \in 0..Len(segments) /\ e + k \in 0..Len(segments)
    BY <1>1, <1>13
  <2>2. Users(e) + Takes(parts, k) = Users(e + k)
    BY <1>13
  <2>3. Takes(parts, k + 1) = Takes(parts, k) + Need(e + (k + 1))
    BY <1>10, <2>1
  <2>4. Users(e + (k + 1)) = Users(e + k) + Need(e + (k + 1))
    BY <1>11, <2>1
  <2>5. Takes(parts, k) \in Nat /\ Users(e) \in Nat /\ Users(e + k) \in Nat /\ Need(e + (k + 1)) \in Nat
    BY <1>3, <1>9, <1>11, <2>1
  <2>6. Users(e) + Takes(parts, k + 1) = Users(e + (k + 1))
    BY <2>2, <2>3, <2>4, <2>5
  <2> QED
    BY <2>1, <2>6
<1>14. 0..n \subseteq T
  <2> HIDE DEF T
  <2> QED
    BY <1>1, <1>12, <1>13, UpTo
<1> QED
  BY <1>9, <1>10, <1>14 DEF n

(* A part has as many places as it has parameters of its own. *)
LEMMA GoneMeans ==
  ASSUME Segmented, NEW parts, NEW e, IsRun(parts, e)
  PROVE  /\ Gone(parts, 0) = 0 /\ \A j \in 0..Len(parts) : Gone(parts, j) \in Nat
         /\ \A j \in 1..Len(parts) : Gone(parts, j) = Gone(parts, j - 1) + Holes(parts[j])
         /\ \A j \in 1..Len(parts) : Holes(parts[j]) \in Nat /\ Len(Own(e + j)) = Holes(parts[j])
<1> DEFINE n == Len(parts)
           h == [k \in 1..n |-> Holes(parts[k])]
<1>1. n \in Nat /\ e \in Nat /\ e + n <= Len(segments) /\ Len(segments) \in Nat
  BY IsSeqType DEF IsRun, Segmented
<1>2. ASSUME NEW k \in 1..n PROVE Holes(parts[k]) \in Nat /\ Len(Own(e + k)) = Holes(parts[k])
  <2>1. parts[k].seg = e + k /\ parts[k].kind \in {"sql", "duck"} /\ (parts[k].kind = "sql" <=> IsSQL(segments[e + k]))
    BY DEF IsRun
  <2>2. CASE parts[k].kind = "sql"
    <3>1. Holes(parts[k]) = NeedOf(segments[e + k])
      BY <2>1, <2>2 DEF Holes
    <3>2. Own(e + k) = [i \in 1..NeedOf(segments[e + k]) |-> <<"user", i + Users((e + k) - 1)>>]
      BY <2>1, <2>2, Zenon DEF Own
    <3>3. NeedOf(segments[e + k]) \in Nat
      <4>1. e + k \in 1..Len(segments)
        BY <1>1
      <4> QED
        BY <4>1, NeedType
    <3> QED
      BY <3>1, <3>2, <3>3
  <2>3. CASE parts[k].kind = "duck"
    <3>1. Holes(parts[k]) = HolesOf(Op(segments[e + k]))
      BY <2>1, <2>3, Zenon DEF Holes, OpAt
    <3>2. Own(e + k) = [i \in 1..ParamsOf(Op(segments[e + k])) |-> <<"op", e + k, i>>]
      BY <2>1, <2>3, Zenon DEF Own
    <3> QED
      BY <3>1, <3>2, OwnPlaces
  <2> QED
    BY <2>1, <2>2, <2>3
<1>4. ASSUME NEW k \in 0..n PROVE Gone(parts, k) = FoldFunction(+, 0, [j \in 1..k |-> h[j]])
  <2>1. 1..k \subseteq 1..n
    BY <1>1
  <2>2. [j \in 1..k |-> h[j]] = [j \in 1..k |-> Holes(parts[j])]
    <3>1. \A j \in 1..k : h[j] = Holes(parts[j])
      BY <2>1
    <3> HIDE DEF h
    <3> QED
      BY <3>1, Zenon
  <2> QED
    BY <2>2, Zenon DEF Gone, Total
<1>5. \A k \in 1..n : h[k] = Holes(parts[k]) /\ h[k] \in Nat
  BY <1>2
<1> HIDE DEF n, h
<1> DEFINE S(k) == FoldFunction(+, 0, [j \in 1..k |-> h[j]])
<1>6. S(0) = 0 /\ (\A k \in 0..n : S(k) \in Nat) /\ \A k \in 1..n : S(k) = S(k - 1) + h[k]
  BY <1>1, <1>5, SumStep
<1>7. \A k \in 0..n : Gone(parts, k) = S(k)
  BY <1>4
<1> HIDE DEF S
<1>8. 0 \in 0..n /\ \A k \in 1..n : k \in 0..n /\ k - 1 \in 0..n
  BY <1>1
<1>9. Gone(parts, 0) = 0 /\ \A k \in 0..n : Gone(parts, k) \in Nat
  BY <1>6, <1>7, <1>8
<1>10. \A k \in 1..n : Gone(parts, k) = Gone(parts, k - 1) + Holes(parts[k])
  BY <1>5, <1>6, <1>7, <1>8
<1> QED
  BY <1>2, <1>9, <1>10 DEF n

(* n pieces; what they are one behind the other, up to each of them; and   *)
(* where each of them ends.                                                *)
Lists(S, n, pc) == \A j \in 1..n : pc[j] \in Seq(S)

Joins(S, n, pc, up) == /\ up \in [0..n -> Seq(S)] /\ up[0] = <<>>
                       /\ \A j \in 1..n : up[j] = up[j - 1] \o pc[j]

Bounds(n, pc, g) == /\ g[0] = 0 /\ \A j \in 0..n : g[j] \in Nat
                    /\ \A j \in 1..n : g[j] = g[j - 1] + Len(pc[j])

Holds(n, pc, all, g) == /\ Len(all) = g[n]
                        /\ \A j \in 1..n : SubSeq(all, g[j - 1] + 1, g[j]) = pc[j]

(* Pieces put one behind the other are found where they were put. *)
LEMMA Pieces ==
  ASSUME NEW S, NEW n \in Nat, NEW pc, Lists(S, n, pc), NEW up, Joins(S, n, pc, up), NEW g, Bounds(n, pc, g)
  PROVE  Holds(n, pc, up[n], g)
<1>0. /\ \A j \in 1..n : pc[j] \in Seq(S)
      /\ up \in [0..n -> Seq(S)] /\ up[0] = <<>> /\ \A j \in 1..n : up[j] = up[j - 1] \o pc[j]
      /\ g[0] = 0 /\ (\A j \in 0..n : g[j] \in Nat) /\ \A j \in 1..n : g[j] = g[j - 1] + Len(pc[j])
  BY Zenon DEF Lists, Joins, Bounds
<1> DEFINE T == {m \in 0..n : Len(up[m]) = g[m] /\ \A i \in 1..m : g[i] <= g[m] /\ SubSeq(up[m], g[i - 1] + 1, g[i]) = pc[i]}
<1>1. 0 \in T
  BY <1>0
<1>2. ASSUME NEW u \in Seq(S), NEW v \in Seq(S)
      PROVE  /\ u \o v \in Seq(S) /\ Len(u \o v) = Len(u) + Len(v)
             /\ SubSeq(u \o v, Len(u) + 1, Len(u) + Len(v)) = v
             /\ \A a \in Nat, b \in Nat : 1 <= a /\ b <= Len(u) => SubSeq(u \o v, a, b) = SubSeq(u, a, b)
  <2>1. u \o v \in Seq(S) /\ Len(u \o v) = Len(u) + Len(v) /\ Len(u) \in Nat /\ Len(v) \in Nat
    OBVIOUS
  <2>2. \A i \in 1..Len(v) : (u \o v)[Len(u) + i] = v[i]
    OBVIOUS
  <2>3. \A i \in 1..Len(u) : (u \o v)[i] = u[i]
    OBVIOUS
  <2> DEFINE w == u \o v
  <2> HIDE DEF w
  <2>4. SubSeq(w, Len(u) + 1, Len(u) + Len(v)) = v
    BY <2>1, <2>2 DEF w
  <2>5. ASSUME NEW a \in Nat, NEW b \in Nat, 1 <= a, b <= Len(u) PROVE SubSeq(w, a, b) = SubSeq(u, a, b)
    BY <2>1, <2>3, <2>5 DEF w
  <2> QED
    BY <2>1, <2>4, <2>5 DEF w
<1>3. ASSUME NEW m \in 0..n, m \in T, m < n PROVE m + 1 \in T
  <2>1. m + 1 \in 1..n /\ (m + 1) - 1 = m /\ m + 1 \in 0..n
    BY <1>3
  <2>2. up[m] \in Seq(S) /\ pc[m + 1] \in Seq(S) /\ up[m + 1] = up[m] \o pc[m + 1]
    BY <1>0, <2>1
  <2>3. Len(up[m]) = g[m] /\ g[m + 1] = g[m] + Len(pc[m + 1]) /\ g[m] \in Nat /\ g[m + 1] \in Nat /\ Len(pc[m + 1]) \in Nat
    BY <1>0, <1>3, <2>1, <2>2
  <2>4. /\ Len(up[m + 1]) = g[m + 1]
        /\ SubSeq(up[m + 1], g[m] + 1, g[m + 1]) = pc[m + 1]
        /\ \A a \in Nat, b \in Nat : 1 <= a /\ b <= g[m] => SubSeq(up[m + 1], a, b) = SubSeq(up[m], a, b)
    <3>1. PICK u \in Seq(S), v \in Seq(S) : u = up[m] /\ v = pc[m + 1]
      BY <2>2
    <3>2. /\ Len(u \o v) = Len(u) + Len(v)
          /\ SubSeq(u \o v, Len(u) + 1, Len(u) + Len(v)) = v
          /\ \A a \in Nat, b \in Nat : 1 <= a /\ b <= Len(u) => SubSeq(u \o v, a, b) = SubSeq(u, a, b)
      BY <1>2
    <3>3. up[m + 1] = u \o v /\ Len(u) = g[m] /\ Len(u) + Len(v) = g[m + 1]
      BY <2>2, <2>3, <3>1
    <3>4. \A a \in Nat, b \in Nat : 1 <= a /\ b <= g[m] => SubSeq(up[m + 1], a, b) = SubSeq(up[m], a, b)
      BY <3>1, <3>2, <3>3, Zenon
    <3>5. Len(up[m + 1]) = g[m + 1] /\ SubSeq(up[m + 1], g[m] + 1, g[m + 1]) = pc[m + 1]
      BY <3>1, <3>2, <3>3, Zenon
    <3> QED
      BY <3>4, <3>5
  <2>5. ASSUME NEW i \in 1..(m + 1)
        PROVE  g[i] <= g[m + 1] /\ SubSeq(up[m + 1], g[i - 1] + 1, g[i]) = pc[i]
    <3>1. CASE i = m + 1
      <4>1. g[m + 1] <= g[m + 1]
        BY <2>3
      <4>2. i - 1 = m
        BY <2>1, <3>1
      <4> QED
        BY <2>4, <3>1, <4>1, <4>2, Zenon
    <3>2. CASE i # m + 1
      <4>1. i \in 1..m /\ i - 1 \in 0..n /\ i \in 0..n
        BY <2>1, <3>2
      <4>2. g[i] <= g[m] /\ SubSeq(up[m], g[i - 1] + 1, g[i]) = pc[i]
        BY <1>3, <4>1
      <4>3. g[i - 1] + 1 \in Nat /\ 1 <= g[i - 1] + 1 /\ g[i] \in Nat
        BY <1>0, <4>1
      <4>4. g[i] <= g[m + 1]
        <5>1. g[m] <= g[m + 1]
          BY <2>3
        <5>2. \A a, b, c \in Nat : a <= b /\ b <= c => a <= c
          OBVIOUS
        <5> QED
          BY <2>3, <4>2, <4>3, <5>1, <5>2, Zenon
      <4>5. SubSeq(up[m + 1], g[i - 1] + 1, g[i]) = SubSeq(up[m], g[i - 1] + 1, g[i])
        BY <2>4, <4>2, <4>3, Zenon
      <4> QED
        BY <4>2, <4>4, <4>5, Zenon
    <3> QED
      BY <3>1, <3>2
  <2> QED
    BY <2>1, <2>4, <2>5
<1>4. 0..n \subseteq T
  <2> HIDE DEF T
  <2> QED
    BY <1>1, <1>3, UpTo
<1>5. n \in T
  <2>1. n \in 0..n
    OBVIOUS
  <2> QED
    BY <1>4, <2>1
<1> QED
  BY <1>5 DEF Holds

(* f puts the pieces pc one behind the other.                              *)
IsConcat(n, pc, f) == f = [j \in 0..n |-> IF j = 0 THEN <<>> ELSE f[j - 1] \o pc[j]]

(* There is such a function, and it gives sequences. *)
LEMMA ConcatExists ==
  ASSUME NEW S, NEW n \in Nat, NEW pc, \A j \in 1..n : pc[j] \in Seq(S)
  PROVE  \E f : IsConcat(n, pc, f)
<1> DEFINE X == Seq(S)
           H == [j \in 1..n |-> [x \in X |-> x \o pc[j]]]
<1>1. H \in Moves(n, X) /\ <<>> \in X
  <2>1. \A j \in 1..n : \A x \in X : x \o pc[j] \in X
    OBVIOUS
  <2>2. <<>> \in X
    OBVIOUS
  <2> HIDE DEF X
  <2> QED
    BY <2>1, <2>2 DEF Moves
<1>2. \A j \in 1..n : \A x \in X : H[j][x] = x \o pc[j]
  BY Zenon
<1> HIDE DEF H, X
<1>3. PICK f : f \in WorkedOn(n, X, <<>>, H)
  BY <1>1, Forwards
<1>4. f \in [0..n -> X] /\ f[0] = <<>> /\ \A j \in 1..n : f[j] = H[j][f[j - 1]]
  BY <1>3 DEF WorkedOn
<1>5. ASSUME NEW j \in 0..n PROVE f[j] = IF j = 0 THEN <<>> ELSE f[j - 1] \o pc[j]
  <2>1. CASE j = 0
    BY <1>4, <2>1, Zenon
  <2>2. CASE j # 0
    <3>1. j \in 1..n /\ j - 1 \in 0..n
      BY <2>2
    <3>2. f[j - 1] \in X
      BY <1>4, <3>1
    <3>3. f[j] = f[j - 1] \o pc[j]
      BY <1>2, <1>4, <3>1, <3>2, Zenon
    <3> QED
      BY <2>2, <3>3, Zenon
  <2> QED
    BY <2>1, <2>2
<1>6. f = [j \in 0..n |-> f[j]]
  BY <1>4, Zenon
<1> QED
  BY <1>5, <1>6, Zenon DEF IsConcat

(* What it gives: sequences, each the one before and a piece. *)
LEMMA ConcatMeans ==
  ASSUME NEW S, NEW n \in Nat, NEW pc, Lists(S, n, pc), NEW f, IsConcat(n, pc, f)
  PROVE  Joins(S, n, pc, f)
<1>1. ASSUME NEW j \in 0..n PROVE f[j] = IF j = 0 THEN <<>> ELSE f[j - 1] \o pc[j]
  BY Zenon DEF IsConcat
<1>2. f[0] = <<>>
  <2>1. 0 \in 0..n
    OBVIOUS
  <2> QED
    BY <1>1, <2>1, Zenon
<1>3. ASSUME NEW j \in 1..n PROVE f[j] = f[j - 1] \o pc[j]
  <2>1. j \in 0..n /\ j # 0
    OBVIOUS
  <2> QED
    BY <1>1, <2>1, Zenon
<1> DEFINE T == {j \in 0..n : f[j] \in Seq(S)}
<1>4. 0 \in T
  <2>1. 0 \in 0..n /\ <<>> \in Seq(S)
    OBVIOUS
  <2> QED
    BY <1>2, <2>1, Zenon
<1>5. ASSUME NEW j \in 0..n, j \in T, j < n PROVE j + 1 \in T
  <2>1. j + 1 \in 1..n /\ j + 1 \in 0..n /\ (j + 1) - 1 = j
    BY <1>5
  <2>2. f[j + 1] = f[j] \o pc[j + 1]
    BY <1>3, <2>1
  <2>3. f[j] \in Seq(S) /\ pc[j + 1] \in Seq(S)
    BY <1>5, <2>1 DEF Lists
  <2>4. \A x \in Seq(S), y \in Seq(S) : x \o y \in Seq(S)
    OBVIOUS
  <2>5. f[j + 1] \in Seq(S)
    BY <2>2, <2>3, <2>4, Zenon
  <2> QED
    BY <2>1, <2>5
<1>6. 0..n \subseteq T
  <2> HIDE DEF T
  <2> QED
    BY <1>4, <1>5, UpTo
<1>7. f \in [0..n -> Seq(S)]
  <2>1. f = [j \in 0..n |-> f[j]]
    BY Zenon DEF IsConcat
  <2>2. \A j \in 0..n : f[j] \in Seq(S)
    BY <1>6
  <2> HIDE DEF T
  <2> QED
    BY <2>1, <2>2, Zenon
<1> QED
  BY <1>2, <1>3, <1>7 DEF Joins

Piece(parts, j) ==
  IF parts[j].kind = "duck" THEN OwnParams(parts[j]) ELSE SubSeq(left, Takes(parts, j - 1) + 1, Takes(parts, j))

(* The pieces of a run up to each of its parts.                            *)
IsUpto(parts, f) == f = [j \in 0..Len(parts) |-> IF j = 0 THEN <<>> ELSE f[j - 1] \o Piece(parts, j)]

(* Params picks a function that goes from part to part. *)
LEMMA ParamsChosen ==
  ASSUME NEW parts
  PROVE  Params(parts) = (CHOOSE f : IsUpto(parts, f))[Len(parts)]
BY Zenon DEF Params, Piece, IsUpto

(* Params puts the pieces of a run one behind the other. *)
LEMMA ParamsConcat ==
  ASSUME NEW S, NEW parts, Len(parts) \in Nat, NEW pc, \A j \in 1..Len(parts) : pc[j] = Piece(parts, j) /\ pc[j] \in Seq(S)
  PROVE  \E f : IsConcat(Len(parts), pc, f) /\ Params(parts) = f[Len(parts)]
<1> DEFINE n == Len(parts)
<1>1. ASSUME NEW f PROVE IsUpto(parts, f) <=> IsConcat(n, pc, f)
  <2>1. ASSUME NEW j \in 0..n
        PROVE  (IF j = 0 THEN <<>> ELSE f[j - 1] \o Piece(parts, j)) = (IF j = 0 THEN <<>> ELSE f[j - 1] \o pc[j])
    <3>1. j = 0 \/ j \in 1..n
      OBVIOUS
    <3> QED
      BY <3>1, Zenon
  <2>2. [j \in 0..n |-> IF j = 0 THEN <<>> ELSE f[j - 1] \o Piece(parts, j)]
          = [j \in 0..n |-> IF j = 0 THEN <<>> ELSE f[j - 1] \o pc[j]]
    BY <2>1, Zenon
  <2> QED
    BY <2>2, Zenon DEF IsUpto, IsConcat
<1>2. \E f : IsUpto(parts, f)
  <2>1. \E f : IsConcat(n, pc, f)
    BY ConcatExists
  <2> QED
    BY <1>1, <2>1, Zenon
<1> DEFINE c == CHOOSE f : IsUpto(parts, f)
<1>3. IsUpto(parts, c) /\ Params(parts) = c[n]
  BY <1>2, ParamsChosen, Zenon
<1> HIDE DEF c
<1> QED
  BY <1>1, <1>3, Zenon

(* A parameter: the caller's, or an operator's.                            *)
OwnAt(k, i) == <<"op", k, i>>

Value == {UserAt(i) : i \in Nat} \cup {OwnAt(k, i) : k \in Nat, i \in Nat}

(* The parameters are values. *)
LEMMA Values == (\A i \in Nat : UserAt(i) \in Value) /\ \A k, i \in Nat : OwnAt(k, i) \in Value
BY DEF Value

(* The m parameters of the caller behind the u-th. *)
LEMMA UsersFromType ==
  ASSUME NEW u \in Nat, NEW m \in Nat
  PROVE  UsersFrom(u, m) \in Seq(Value) /\ Len(UsersFrom(u, m)) = m
<1>1. ASSUME NEW i \in 1..m PROVE UserAt(u + i) \in Value
  <2>1. u + i \in Nat
    OBVIOUS
  <2> QED
    BY <2>1, Values
<1>2. UsersFrom(u, m) \in [1..m -> Value]
  BY <1>1, Zenon DEF UsersFrom
<1> QED
  BY <1>2

PartFrom(u, m, a, b) == SubSeq(UsersFrom(u, m), a + 1, b) = UsersFrom(u + a, b - a)

(* A part of them is what they are, further on. *)
LEMMA UsersPart ==
  ASSUME NEW u \in Nat, NEW m \in Nat, NEW a \in Nat, NEW b \in Nat, a <= b, b <= m
  PROVE  PartFrom(u, m, a, b)
<1> DEFINE s == UsersFrom(u, m)
<1>1. s \in Seq(Value) /\ Len(s) = m
  BY UsersFromType
<1>2. \A i \in 1..m : s[i] = UserAt(u + i)
  BY Zenon DEF UsersFrom
<1> HIDE DEF s
<1> DEFINE w == SubSeq(s, a + 1, b)
<1>3. w \in Seq(Value) /\ Len(w) = b - a /\ \A i \in 1..(b - a) : w[i] = s[a + i]
  BY <1>1
<1>4. ASSUME NEW i \in 1..(b - a) PROVE w[i] = UserAt((u + a) + i)
  <2>1. a + i \in 1..m /\ u + (a + i) = (u + a) + i
    OBVIOUS
  <2> HIDE DEF w
  <2> QED
    BY <1>2, <1>3, <2>1
<1>5. w = [i \in 1..(b - a) |-> w[i]]
  <2> HIDE DEF w
  <2> QED
    BY <1>3
<1>6. [i \in 1..(b - a) |-> w[i]] = UsersFrom(u + a, b - a)
  <2> HIDE DEF w
  <2> QED
    BY <1>4, Zenon DEF UsersFrom
<1> QED
  BY <1>5, <1>6 DEF s, PartFrom

(* A segment's own parameters are a list. *)
LEMMA OwnType ==
  ASSUME Segmented, NEW k \in 1..Len(segments)
  PROVE  /\ Own(k) \in Seq(Value)
         /\ IsSQL(segments[k]) => Own(k) = UsersFrom(Users(k - 1), Need(k)) /\ Need(k) = NeedOf(segments[k])
<1>1. k \in Nat /\ k - 1 \in 0..Len(segments)
  BY IsSeqType DEF Segmented
<1>2. Users(k - 1) \in Nat /\ Need(k) \in Nat
  BY <1>1, UsersStep, NeedType
<1>3. CASE IsSQL(segments[k])
  <2>1. Need(k) = NeedOf(segments[k])
    BY <1>3 DEF Need
  <2>2. Own(k) = [i \in 1..Need(k) |-> <<"user", i + Users(k - 1)>>]
    BY <1>3, <2>1, Zenon DEF Own
  <2>3. ASSUME NEW i \in 1..Need(k) PROVE <<"user", i + Users(k - 1)>> = UserAt(Users(k - 1) + i)
    <3>1. i + Users(k - 1) = Users(k - 1) + i
      BY <1>2
    <3> QED
      BY <3>1, Zenon DEF UserAt
  <2>4. Own(k) = UsersFrom(Users(k - 1), Need(k))
    BY <2>2, <2>3, Zenon DEF UsersFrom
  <2> QED
    BY <1>2, <2>1, <2>4, UsersFromType
<1>4. CASE ~IsSQL(segments[k])
  <2> DEFINE m == ParamsOf(Op(segments[k]))
  <2>1. m \in Nat
    BY OwnPlaces
  <2>2. Own(k) = [i \in 1..m |-> <<"op", k, i>>]
    BY <1>4, Zenon DEF Own
  <2> HIDE DEF m
  <2>3. ASSUME NEW i \in 1..m PROVE <<"op", k, i>> \in Value
    <3>1. i \in Nat
      BY <2>1
    <3>2. OwnAt(k, i) \in Value
      BY <1>1, <3>1, Values
    <3> QED
      BY <3>2, Zenon DEF OwnAt
  <2>4. Own(k) \in [1..m -> Value]
    BY <2>2, <2>3, Zenon
  <2> QED
    BY <1>4, <2>1, <2>4
<1> QED
  BY <1>3, <1>4

(* The parameters a run is given are its segments' own, in their order.    *)
LEMMA ParamsMeans ==
  ASSUME Segmented, NEW parts, NEW e, IsRun(parts, e), request.given \in Nat, IsLeft(left, e),
         Takes(parts, Len(parts)) <= Len(left)
  PROVE  /\ ParamsFit(parts, Params(parts))
         /\ IsLeft(SubSeq(left, Takes(parts, Len(parts)) + 1, Len(left)), e + Len(parts))
<1> DEFINE n == Len(parts)
           u == Users(e)
           m == request.given - u
           pc == [j \in 1..n |-> Piece(parts, j)]
<1>1. n \in Nat /\ e \in Nat /\ e + n <= Len(segments) /\ Len(segments) \in Nat
  BY IsSeqType DEF IsRun, Segmented
<1>2. /\ \A j \in 0..n : Takes(parts, j) \in Nat /\ Users(e) + Takes(parts, j) = Users(e + j)
      /\ \A j \in 1..n : Takes(parts, j) = Takes(parts, j - 1) + Need(e + j)
  BY TakesMeans
<1>3. /\ Gone(parts, 0) = 0 /\ \A j \in 0..n : Gone(parts, j) \in Nat
      /\ \A j \in 1..n : Gone(parts, j) = Gone(parts, j - 1) + Holes(parts[j])
      /\ \A j \in 1..n : Holes(parts[j]) \in Nat /\ Len(Own(e + j)) = Holes(parts[j])
  BY GoneMeans
<1>4. u \in Nat /\ m \in Nat
  <2>1. e \in 0..Len(segments)
    BY <1>1
  <2>2. u \in Nat
    BY <2>1, UsersStep
  <2> QED
    BY <2>2 DEF IsLeft
<1> HIDE DEF m
<1>5. left \in Seq(Value) /\ Len(left) = m
  BY <1>4, UsersFromType DEF m, IsLeft
<1>6. \A j \in 0..n : Takes(parts, j) <= m
  <2> DEFINE T == {j \in 0..n : Takes(parts, n - j) <= m}
  <2>1. 0 \in T
    <3>1. 0 \in 0..n /\ n - 0 = n
      BY <1>1
    <3> QED
      BY <1>5, <3>1
  <2>2. ASSUME NEW j \in 0..n, j \in T, j < n PROVE j + 1 \in T
    <3>1. j + 1 \in 0..n /\ n - j \in 1..n /\ (n - j) - 1 = n - (j + 1) /\ n - j \in 0..n /\ n - (j + 1) \in 0..n
      BY <1>1, <2>2
    <3>2. Takes(parts, n - j) = Takes(parts, n - (j + 1)) + Need(e + (n - j))
      BY <1>2, <3>1
    <3>3. Need(e + (n - j)) \in Nat
      <4>1. e + (n - j) \in 1..Len(segments)
        BY <1>1, <3>1
      <4> QED
        BY <4>1, NeedType
    <3>4. Takes(parts, n - (j + 1)) \in Nat /\ Takes(parts, n - j) \in Nat /\ Takes(parts, n - j) <= m
      BY <1>2, <2>2, <3>1
    <3>5. Takes(parts, n - (j + 1)) <= m
      BY <1>4, <3>2, <3>3, <3>4
    <3> QED
      BY <3>1, <3>5
  <2>3. 0..n \subseteq T
    <3> HIDE DEF T
    <3> QED
      BY <1>1, <2>1, <2>2, UpTo
  <2>4. ASSUME NEW j \in 0..n PROVE Takes(parts, j) <= m
    <3>1. n - j \in 0..n /\ n - (n - j) = j
      BY <1>1
    <3> QED
      BY <2>3, <3>1
  <2> QED
    BY <2>4
<1>7. ASSUME NEW j \in 1..n PROVE Piece(parts, j) = Own(e + j)
  <2>1. parts[j].seg = e + j /\ parts[j].kind \in {"sql", "duck"} /\ (parts[j].kind = "sql" <=> IsSQL(segments[e + j]))
    BY DEF IsRun
  <2>2. e + j \in 1..Len(segments) /\ j \in 0..n /\ j - 1 \in 0..n /\ (e + j) - 1 = e + (j - 1)
    BY <1>1
  <2>3. CASE parts[j].kind = "duck"
    <3>1. Piece(parts, j) = [i \in 1..ParamsOf(Op(segments[e + j])) |-> <<"op", e + j, i>>]
      BY <2>1, <2>3, Zenon DEF Piece, OwnParams, OpAt
    <3>2. ~IsSQL(segments[e + j])
      BY <2>1, <2>3
    <3> QED
      BY <3>1, <3>2, Zenon DEF Own
  <2>4. CASE parts[j].kind = "sql"
    <3> DEFINE a == Takes(parts, j - 1)
               b == Takes(parts, j)
    <3>1. Piece(parts, j) = SubSeq(left, a + 1, b)
      BY <2>4 DEF Piece
    <3>2. a \in Nat /\ b \in Nat /\ b = a + Need(e + j) /\ b <= m /\ u + a = Users((e + j) - 1)
      BY <1>2, <1>6, <2>2
    <3>3. Need(e + j) \in Nat
      BY <2>2, NeedType
    <3> HIDE DEF a, b, u, n, pc
    <3>4. a <= b /\ b - a = Need(e + j)
      BY <3>2, <3>3
    <3>5. SubSeq(UsersFrom(u, m), a + 1, b) = UsersFrom(u + a, b - a)
      <4>1. u \in Nat /\ m \in Nat /\ a \in Nat /\ b \in Nat /\ a <= b /\ b <= m
        BY <1>4, <3>2, <3>4 DEF u
      <4>2. PartFrom(u, m, a, b)
        BY <4>1, UsersPart
      <4> QED
        BY <4>2, Zenon DEF PartFrom
    <3>6. Own(e + j) = UsersFrom(Users((e + j) - 1), Need(e + j))
      BY <2>1, <2>2, <2>4, OwnType
    <3> QED
      BY <3>1, <3>2, <3>4, <3>5, <3>6, Zenon DEF u, m, IsLeft
  <2> QED
    BY <2>1, <2>3, <2>4
<1>8. ASSUME NEW j \in 1..n PROVE pc[j] = Piece(parts, j) /\ pc[j] = Own(e + j) /\ pc[j] \in Seq(Value)
  <2>1. e + j \in 1..Len(segments)
    BY <1>1
  <2>2. Own(e + j) \in Seq(Value)
    BY <2>1, OwnType
  <2> QED
    BY <1>7, <2>2
<1> HIDE DEF pc, u
<1>9. PICK f : IsConcat(n, pc, f) /\ Params(parts) = f[n]
  BY <1>1, <1>8, ParamsConcat
<1>10. Lists(Value, n, pc) /\ Joins(Value, n, pc, f)
  <2>1. Lists(Value, n, pc)
    BY <1>8 DEF Lists
  <2>2. n \in Nat /\ IsConcat(n, pc, f)
    BY <1>1, <1>9
  <2> HIDE DEF n
  <2> QED
    BY <2>1, <2>2, ConcatMeans
<1> DEFINE g == [j \in 0..n |-> Gone(parts, j)]
<1>11. g[0] = 0 /\ (\A j \in 0..n : g[j] = Gone(parts, j) /\ g[j] \in Nat)
  <2>1. 0 \in 0..n
    BY <1>1
  <2> QED
    BY <1>3, <2>1
<1>12. \A j \in 1..n : g[j] = g[j - 1] + Len(pc[j])
  <2>1. ASSUME NEW j \in 1..n PROVE g[j] = g[j - 1] + Len(pc[j])
    <3>1. j \in 0..n /\ j - 1 \in 0..n
      BY <1>1
    <3>2. Len(pc[j]) = Holes(parts[j])
      BY <1>3, <1>8
    <3> HIDE DEF g
    <3> QED
      BY <1>3, <1>11, <3>1, <3>2
  <2> QED
    BY <2>1
<1> HIDE DEF g
<1>13. Holds(n, pc, f[n], g)
  <2>1. Bounds(n, pc, g)
    BY <1>11, <1>12 DEF Bounds
  <2>2. n \in Nat
    BY <1>1
  <2> HIDE DEF n
  <2> QED
    BY <1>10, <2>1, <2>2, Pieces
<1>14. ParamsFit(parts, Params(parts))
  <2>1. ASSUME NEW j \in 1..n
        PROVE  SubSeq(Params(parts), Gone(parts, j - 1) + 1, Gone(parts, j)) = Own(parts[j].seg)
    <3>1. j \in 0..n /\ j - 1 \in 0..n
      BY <1>1
    <3>2. parts[j].seg = e + j
      BY DEF IsRun
    <3>3. SubSeq(f[n], Gone(parts, j - 1) + 1, Gone(parts, j)) = pc[j]
      BY <1>11, <1>13, <3>1 DEF Holds
    <3> QED
      BY <1>8, <1>9, <3>2, <3>3
  <2> QED
    BY <2>1 DEF ParamsFit
<1>15. IsLeft(SubSeq(left, Takes(parts, n) + 1, Len(left)), e + n)
  <2> DEFINE a == Takes(parts, n)
  <2>1. n \in 0..n
    BY <1>1
  <2>2. a \in Nat /\ a <= m /\ u + a = Users(e + n)
    BY <1>2, <1>6, <2>1 DEF u
  <2> HIDE DEF a
  <2>3. m = request.given - u
    BY DEF m
  <2>4. Users(e + n) <= request.given /\ m - a = request.given - Users(e + n)
    BY <1>4, <2>2, <2>3 DEF IsLeft
  <2>5. SubSeq(UsersFrom(u, m), a + 1, m) = UsersFrom(u + a, m - a)
    <3>1. u \in Nat /\ m \in Nat /\ a \in Nat /\ a <= m /\ m <= m
      BY <1>4, <2>2 DEF u
    <3>2. PartFrom(u, m, a, m)
      BY <3>1, UsersPart
    <3> QED
      BY <3>2, Zenon DEF PartFrom
  <2>6. left = UsersFrom(u, m)
    BY Zenon DEF u, m, IsLeft
  <2> QED
    BY <1>5, <2>2, <2>4, <2>5, <2>6 DEF a, IsLeft
<1> QED
  BY <1>14, <1>15 DEF n

(* x put behind z, up to the j-th of them.                                 *)
Behind(z, x, j) == [i \in 1..(Len(z) + j) |-> IF i <= Len(z) THEN z[i] ELSE x[i - Len(z)]]

(* What is behind z is a list: z, and then x. *)
LEMMA BehindMeans ==
  ASSUME NEW z, IsSeq(z), NEW x, NEW j \in Nat
  PROVE  /\ IsSeq(Behind(z, x, j)) /\ Len(Behind(z, x, j)) = Len(z) + j
         /\ \A i \in 1..Len(z) : Behind(z, x, j)[i] = z[i]
         /\ \A i \in 1..j : Behind(z, x, j)[Len(z) + i] = x[i]
<1> DEFINE b == Behind(z, x, j)
<1>1. Len(z) \in Nat
  BY IsSeqType
<1>2. DOMAIN b = 1..(Len(z) + j) /\ b = [k \in 1..(Len(z) + j) |-> b[k]]
  BY DEF Behind
<1>3. \A i \in 1..(Len(z) + j) : b[i] = IF i <= Len(z) THEN z[i] ELSE x[i - Len(z)]
  BY Zenon DEF Behind
<1> HIDE DEF b
<1>4. b \in Seq({b[k] : k \in 1..(Len(z) + j)}) /\ Len(b) = Len(z) + j
  BY <1>1, <1>2
<1>5. ASSUME NEW i \in 1..Len(z) PROVE b[i] = z[i]
  <2>1. i \in 1..(Len(z) + j) /\ i <= Len(z)
    BY <1>1
  <2> QED
    BY <1>3, <2>1, Zenon
<1>6. ASSUME NEW i \in 1..j PROVE b[Len(z) + i] = x[i]
  <2>1. Len(z) + i \in 1..(Len(z) + j) /\ ~(Len(z) + i <= Len(z)) /\ (Len(z) + i) - Len(z) = i
    BY <1>1
  <2> QED
    BY <1>3, <2>1, Zenon
<1> QED
  BY <1>2, <1>4, <1>5, <1>6 DEF b, IsSeq

(* The next one is appended. *)
LEMMA BehindStep ==
  ASSUME NEW z, IsSeq(z), NEW x, NEW j \in Nat
  PROVE  Append(Behind(z, x, j), x[j + 1]) = Behind(z, x, j + 1)
<1> DEFINE s == Behind(z, x, j)
           a == Append(s, x[j + 1])
           b == Behind(z, x, j + 1)
           n == Len(z) + (j + 1)
<1>1. Len(z) \in Nat /\ n \in Nat
  BY IsSeqType
<1>2. IsSeq(s) /\ Len(s) = Len(z) + j /\ (\A i \in 1..Len(z) : s[i] = z[i]) /\ \A i \in 1..j : s[Len(z) + i] = x[i]
  BY BehindMeans
<1>3. IsSeq(b) /\ Len(b) = n /\ (\A i \in 1..Len(z) : b[i] = z[i]) /\ \A i \in 1..(j + 1) : b[Len(z) + i] = x[i]
  BY BehindMeans
<1> HIDE DEF s, b
<1>4. IsSeq(a) /\ Len(a) = Len(s) + 1 /\ (\A i \in 1..Len(s) : a[i] = s[i]) /\ a[Len(s) + 1] = x[j + 1]
  BY <1>2, AppendIsSeq
<1> HIDE DEF a
<1>5. Len(a) = n
  BY <1>1, <1>2, <1>4
<1>6. ASSUME NEW i \in 1..n PROVE a[i] = b[i]
  <2>1. CASE i \in 1..Len(z)
    <3>1. i \in 1..Len(s)
      BY <1>1, <1>2, <2>1
    <3> QED
      BY <1>2, <1>3, <1>4, <2>1, <3>1, Zenon
  <2>2. CASE i \notin 1..Len(z)
    <3>1. PICK k \in 1..(j + 1) : i = Len(z) + k
      <4>1. i - Len(z) \in 1..(j + 1) /\ i = Len(z) + (i - Len(z))
        BY <1>1, <2>2
      <4> QED
        BY <4>1
    <3>2. b[i] = x[k]
      BY <1>3, <3>1
    <3>3. CASE k = j + 1
      <4>1. i = Len(s) + 1
        BY <1>1, <1>2, <3>1, <3>3
      <4> QED
        BY <1>4, <3>2, <3>3, <4>1, Zenon
    <3>4. CASE k # j + 1
      <4>1. k \in 1..j /\ i \in 1..Len(s)
        BY <1>1, <1>2, <3>1, <3>4
      <4>2. a[i] = s[i] /\ s[i] = x[k]
        BY <1>2, <1>4, <3>1, <4>1
      <4> QED
        BY <3>2, <4>2, Zenon
    <3> QED
      BY <3>3, <3>4
  <2> QED
    BY <2>1, <2>2
<1>7. a = [i \in 1..n |-> a[i]] /\ b = [i \in 1..n |-> b[i]]
  <2>1. DOMAIN a = 1..n /\ DOMAIN b = 1..n
    BY <1>3, <1>4, <1>5, IsSeqType
  <2>2. a = [i \in DOMAIN a |-> a[i]] /\ b = [i \in DOMAIN b |-> b[i]]
    BY <1>3, <1>4 DEF IsSeq
  <2> QED
    BY <2>1, <2>2, Zenon
<1>8. [i \in 1..n |-> a[i]] = [i \in 1..n |-> b[i]]
  BY <1>6, Zenon
<1> QED
  BY <1>7, <1>8, Zenon DEF a, b, s

(* f appends x to z, one after the other.                                  *)
IsAppending(n, z, x, f) == f = [j \in 0..n |-> IF j = 0 THEN z ELSE Append(f[j - 1], x[j])]

(* There is one such f, and it puts x behind z. *)
LEMMA Appended ==
  ASSUME NEW n \in Nat, NEW z, IsSeq(z), NEW x
  PROVE  /\ \E f : IsAppending(n, z, x, f)
         /\ \A f : IsAppending(n, z, x, f) => f[n] = Behind(z, x, n)
<1>1. Behind(z, x, 0) = z
  <2>1. Len(z) \in Nat /\ DOMAIN z = 1..Len(z) /\ z = [i \in DOMAIN z |-> z[i]]
    BY IsSeqType DEF IsSeq
  <2>2. \A i \in 1..Len(z) : i <= Len(z)
    BY <2>1
  <2>3. Len(z) + 0 = Len(z)
    BY <2>1
  <2>4. [i \in 1..Len(z) |-> IF i <= Len(z) THEN z[i] ELSE x[i - Len(z)]] = [i \in 1..Len(z) |-> z[i]]
    BY <2>2, Zenon
  <2> QED
    BY <2>1, <2>3, <2>4, Zenon DEF Behind
<1>2. ASSUME NEW j \in 1..n PROVE Append(Behind(z, x, j - 1), x[j]) = Behind(z, x, j)
  <2>1. PICK k \in Nat : k + 1 = j /\ k = j - 1
    <3>1. j - 1 \in Nat /\ (j - 1) + 1 = j
      OBVIOUS
    <3> QED
      BY <3>1
  <2>2. Append(Behind(z, x, k), x[k + 1]) = Behind(z, x, k + 1)
    BY BehindStep
  <2> QED
    BY <2>1, <2>2, Zenon
<1>3. \E f : IsAppending(n, z, x, f)
  <2> DEFINE g == [j \in 0..n |-> Behind(z, x, j)]
  <2>1. \A j \in 0..n : g[j] = Behind(z, x, j)
    BY Zenon
  <2>2. g = [j \in 0..n |-> g[j]]
    BY Zenon
  <2> HIDE DEF g
  <2>3. ASSUME NEW j \in 0..n PROVE g[j] = IF j = 0 THEN z ELSE Append(g[j - 1], x[j])
    <3>1. CASE j = 0
      BY <1>1, <2>1, <3>1, Zenon
    <3>2. CASE j # 0
      <4>1. j \in 1..n /\ j - 1 \in 0..n
        BY <3>2
      <4> QED
        BY <1>2, <2>1, <3>2, <4>1, Zenon
    <3> QED
      BY <3>1, <3>2
  <2>4. [j \in 0..n |-> g[j]] = [j \in 0..n |-> IF j = 0 THEN z ELSE Append(g[j - 1], x[j])]
    BY <2>3, Zenon
  <2> QED
    BY <2>2, <2>4, Zenon DEF IsAppending
<1>4. ASSUME NEW f, IsAppending(n, z, x, f) PROVE f[n] = Behind(z, x, n)
  <2>1. ASSUME NEW j \in 0..n PROVE f[j] = IF j = 0 THEN z ELSE Append(f[j - 1], x[j])
    BY <1>4, Zenon DEF IsAppending
  <2> DEFINE T == {j \in 0..n : f[j] = Behind(z, x, j)}
  <2>2. 0 \in T
    <3>1. 0 \in 0..n
      OBVIOUS
    <3> QED
      BY <1>1, <2>1, <3>1, Zenon
  <2>3. ASSUME NEW j \in 0..n, j \in T, j < n PROVE j + 1 \in T
    <3>1. j + 1 \in 1..n /\ j + 1 \in 0..n /\ j + 1 # 0 /\ (j + 1) - 1 = j
      BY <2>3
    <3>2. f[j + 1] = Append(f[j], x[j + 1])
      BY <2>1, <3>1, Zenon
    <3>3. Append(Behind(z, x, j), x[j + 1]) = Behind(z, x, j + 1)
      BY <1>2, <3>1, Zenon
    <3>4. f[j + 1] = Behind(z, x, j + 1)
      BY <2>3, <3>2, <3>3, Zenon
    <3> QED
      BY <3>1, <3>4
  <2>4. 0..n \subseteq T
    <3> HIDE DEF T
    <3> QED
      BY <2>2, <2>3, UpTo
  <2>5. n \in 0..n
    OBVIOUS
  <2> QED
    BY <2>4, <2>5
<1> QED
  BY <1>3, <1>4

(* How Chain counts the places, and what it puts in for a part. *)
IsCount(phase, g) ==
  g = [j \in 0..Len(phase.parts) |-> IF j = 0 THEN 0 ELSE g[j - 1] + Holes(phase.parts[j])]

Entry(phase, window, g, j) ==
  [seg |-> phase.parts[j].seg,
   params |-> SubSeq(phase.params, g[j - 1] + 1, g[j]),
   window |-> IF j = 1 /\ phase.from = "none"
                THEN IF phase.parts[j].kind = "duck" THEN "asked" ELSE window ELSE "none"]

Base(phase) == IF phase.from = "_bridge" THEN bridge ELSE NoValue

IsValue(phase, window, g, f) ==
  f = [j \in 0..Len(phase.parts) |-> IF j = 0 THEN Base(phase) ELSE Append(f[j - 1], Entry(phase, window, g, j))]

(* Chain picks a function that goes from part to part, and so does the     *)
(* count in it.                                                            *)
LEMMA ChainChosen ==
  ASSUME NEW phase, NEW window
  PROVE  Chain(phase, window)
           = (CHOOSE f : IsValue(phase, window, CHOOSE g : IsCount(phase, g), f))[Len(phase.parts)]
BY Zenon DEF Chain, IsCount, IsValue, Entry, Base

(* The count is the sum of the places. *)
LEMMA Counts ==
  ASSUME Segmented, NEW phase, NEW e, IsRun(phase.parts, e)
  PROVE  \A j \in 0..Len(phase.parts) : (CHOOSE g : IsCount(phase, g))[j] = Gone(phase.parts, j)
<1> DEFINE n == Len(phase.parts)
           G(j) == Gone(phase.parts, j)
           H(j) == Holes(phase.parts[j])
<1>1. G(0) = 0 /\ (\A j \in 0..n : G(j) \in Nat) /\ \A j \in 1..n : G(j) = G(j - 1) + H(j)
  BY GoneMeans
<1>2. n \in Nat
  BY DEF IsRun
<1>3. \E g : IsCount(phase, g)
  <2> DEFINE d == [j \in 0..n |-> G(j)]
  <2>1. \A j \in 0..n : d[j] = G(j)
    BY Zenon
  <2>2. d = [j \in 0..n |-> d[j]]
    BY Zenon
  <2> HIDE DEF d
  <2>3. ASSUME NEW j \in 0..n PROVE d[j] = IF j = 0 THEN 0 ELSE d[j - 1] + H(j)
    <3> HIDE DEF G, H, n
    <3>1. CASE j = 0
      BY <1>1, <2>1, <3>1, Zenon
    <3>2. CASE j # 0
      <4>1. j \in 1..n /\ j - 1 \in 0..n
        BY <1>2, <3>2
      <4> QED
        BY <1>1, <2>1, <3>2, <4>1, Zenon
    <3> QED
      BY <3>1, <3>2
  <2>4. [j \in 0..n |-> d[j]] = [j \in 0..n |-> IF j = 0 THEN 0 ELSE d[j - 1] + H(j)]
    <3> HIDE DEF G, H, n
    <3> QED
      BY <2>3, Zenon
  <2> QED
    BY <2>2, <2>4, Zenon DEF IsCount
<1> DEFINE c == CHOOSE g : IsCount(phase, g)
<1>4. IsCount(phase, c)
  BY <1>3, Zenon
<1>5. ASSUME NEW j \in 0..n PROVE c[j] = IF j = 0 THEN 0 ELSE c[j - 1] + H(j)
  <2> HIDE DEF c
  <2> QED
    BY <1>4, Zenon DEF IsCount
<1> HIDE DEF c, G, H, n
<1> DEFINE T == {j \in 0..n : c[j] = G(j)}
<1>6. 0 \in T
  <2>1. 0 \in 0..n
    BY <1>2
  <2> QED
    BY <1>1, <1>5, <2>1, Zenon
<1>7. ASSUME NEW j \in 0..n, j \in T, j < n PROVE j + 1 \in T
  <2>1. j + 1 \in 1..n /\ j + 1 \in 0..n /\ j + 1 # 0 /\ (j + 1) - 1 = j
    BY <1>2, <1>7
  <2>2. c[j + 1] = c[j] + H(j + 1)
    BY <1>5, <2>1, Zenon
  <2>3. G(j + 1) = G(j) + H(j + 1)
    BY <1>1, <2>1, Zenon
  <2>4. c[j + 1] = G(j + 1)
    BY <1>7, <2>2, <2>3, Zenon
  <2> QED
    BY <2>1, <2>4
<1>8. 0..n \subseteq T
  <2> HIDE DEF T
  <2> QED
    BY <1>2, <1>6, <1>7, UpTo
<1> QED
  BY <1>8 DEF c, G, n

(* What a DuckDB phase gives: what it reads, and its segments behind it,   *)
(* each with its own parameters.                                           *)
Given(phase, e, window, r) ==
  /\ IsSeq(r) /\ Len(r) = Len(Base(phase)) + Len(phase.parts)
  /\ \A i \in 1..Len(Base(phase)) : r[i] = Base(phase)[i]
  /\ \A j \in 1..Len(phase.parts) :
       LET x == r[Len(Base(phase)) + j]
       IN  /\ x.seg = e + j /\ x.params = Own(e + j)
           /\ x.window = IF j = 1 /\ phase.from = "none"
                           THEN IF phase.parts[j].kind = "duck" THEN "asked" ELSE window ELSE "none"

(* With a parameter for every place, a run of SQL parts gives each its     *)
(* own.                                                                    *)
LEMMA ChainMeans ==
  ASSUME Segmented, NEW phase, NEW e, IsRun(phase.parts, e), IsSeq(Base(phase)),
         ParamsFit(phase.parts, phase.params), Len(phase.params) = Gone(phase.parts, Len(phase.parts)),
         NEW window
  PROVE  Given(phase, e, window, Chain(phase, window))
<1> DEFINE n == Len(phase.parts)
           c == CHOOSE g : IsCount(phase, g)
           z == Base(phase)
           x == [j \in 1..n |-> Entry(phase, window, c, j)]
<1>1. n \in Nat /\ \A j \in 1..n : phase.parts[j].seg = e + j
  BY DEF IsRun
<1>2. \A j \in 0..n : c[j] = Gone(phase.parts, j)
  BY Counts
<1> HIDE DEF c
<1>3. \A j \in 1..n : x[j] = Entry(phase, window, c, j)
  BY Zenon
<1>4. ASSUME NEW f PROVE IsValue(phase, window, c, f) <=> IsAppending(n, z, x, f)
  <2>1. ASSUME NEW j \in 0..n
        PROVE  (IF j = 0 THEN z ELSE Append(f[j - 1], Entry(phase, window, c, j)))
                 = (IF j = 0 THEN z ELSE Append(f[j - 1], x[j]))
    <3>1. j = 0 \/ j \in 1..n
      BY <1>1
    <3> HIDE DEF x
    <3> QED
      BY <1>3, <3>1, Zenon
  <2>2. [j \in 0..n |-> IF j = 0 THEN z ELSE Append(f[j - 1], Entry(phase, window, c, j))]
          = [j \in 0..n |-> IF j = 0 THEN z ELSE Append(f[j - 1], x[j])]
    <3> HIDE DEF x, n, z
    <3> QED
      BY <2>1, Zenon
  <2> QED
    BY <2>2, Zenon DEF IsValue, IsAppending
<1> HIDE DEF x
<1>5. /\ \E f : IsAppending(n, z, x, f)
      /\ \A f : IsAppending(n, z, x, f) => f[n] = Behind(z, x, n)
  <2> HIDE DEF n, z
  <2>1. IsSeq(z)
    BY DEF z
  <2> QED
    BY <1>1, <2>1, Appended
<1>6. Chain(phase, window) = Behind(z, x, n)
  <2>1. Chain(phase, window) = (CHOOSE f : IsValue(phase, window, c, f))[n]
    BY ChainChosen, Zenon DEF c
  <2>2. \E f : IsValue(phase, window, c, f)
    BY <1>4, <1>5, Zenon
  <2>3. IsValue(phase, window, c, CHOOSE f : IsValue(phase, window, c, f))
    BY <2>2, Zenon
  <2> DEFINE d == CHOOSE f : IsValue(phase, window, c, f)
  <2>4. Chain(phase, window) = d[n] /\ IsValue(phase, window, c, d)
    BY <2>1, <2>3, Zenon
  <2> HIDE DEF d
  <2> QED
    BY <1>4, <1>5, <2>4, Zenon
<1> DEFINE b == Behind(z, x, n)
<1>7. /\ IsSeq(b) /\ Len(b) = Len(z) + n
      /\ (\A i \in 1..Len(z) : b[i] = z[i]) /\ \A i \in 1..n : b[Len(z) + i] = x[i]
  <2> HIDE DEF n, z
  <2>1. IsSeq(z)
    BY DEF z
  <2> QED
    BY <1>1, <2>1, BehindMeans
<1> HIDE DEF b
<1>8. ASSUME NEW j \in 1..n
      PROVE  /\ b[Len(z) + j].seg = e + j /\ b[Len(z) + j].params = Own(e + j)
             /\ b[Len(z) + j].window = IF j = 1 /\ phase.from = "none"
                           THEN IF phase.parts[j].kind = "duck" THEN "asked" ELSE window ELSE "none"
  <2>1. b[Len(z) + j] = Entry(phase, window, c, j)
    BY <1>3, <1>7, Zenon
  <2>2. j \in 0..n /\ j - 1 \in 0..n
    BY <1>1
  <2>3. c[j] = Gone(phase.parts, j) /\ c[j - 1] = Gone(phase.parts, j - 1)
    BY <1>2, <2>2, Zenon
  <2>4. SubSeq(phase.params, Gone(phase.parts, j - 1) + 1, Gone(phase.parts, j)) = Own(phase.parts[j].seg)
    BY Zenon DEF ParamsFit
  <2>5. SubSeq(phase.params, c[j - 1] + 1, c[j]) = Own(e + j)
    BY <1>1, <2>3, <2>4, Zenon
  <2> DEFINE y == Entry(phase, window, c, j)
  <2>6. /\ y.seg = phase.parts[j].seg /\ y.params = SubSeq(phase.params, c[j - 1] + 1, c[j])
        /\ y.window = IF j = 1 /\ phase.from = "none"
                        THEN IF phase.parts[j].kind = "duck" THEN "asked" ELSE window ELSE "none"
    BY Zenon DEF Entry
  <2>7. b[Len(z) + j] = y
    BY <2>1
  <2> HIDE DEF y, z
  <2> QED
    BY <1>1, <2>5, <2>6, <2>7, Zenon
<1> QED
  BY <1>6, <1>7, <1>8, Zenon DEF Given, b, z, n

-----------------------------------------------------------------------------
(* What a step leaves alone of the answer *)

(* A segment stays what it is, *)
LEMMA SQLStays ==
  ASSUME registry' = registry, segments' = segments, NEW k
  PROVE  /\ IsSQL(segments[k])' <=> IsSQL(segments[k])
         /\ Op(segments[k])' = Op(segments[k])
BY DEF IsSQL, OpOf, Op, Known, Resolve

(* and so do its places and what belongs to it, *)
LEMMA PlacesStay ==
  ASSUME registry' = registry, segments' = segments
  PROVE  /\ \A k : Need(k)' = Need(k)
         /\ \A k : Users(k)' = Users(k)
         /\ \A k : Own(k)' = Own(k)
         /\ \A parts, j : Gone(parts, j)' = Gone(parts, j)
<1>1. ASSUME NEW k PROVE Need(k)' = Need(k)
  BY SQLStays DEF Need
<1>2. ASSUME NEW k PROVE Users(k)' = Users(k)
  <2>1. [j \in 1..k |-> Need(j)'] = [j \in 1..k |-> Need(j)]
    BY <1>1
  <2> QED
    BY <2>1 DEF Users
<1>3. ASSUME NEW k PROVE Own(k)' = Own(k)
  BY <1>2, SQLStays DEF Own
<1>4. ASSUME NEW part PROVE Holes(part)' = Holes(part)
  <2>1. Op(segments[part.seg])' = Op(segments[part.seg])
    BY SQLStays
  <2> QED
    BY <2>1 DEF Holes, OpAt
<1>5. ASSUME NEW parts, NEW j PROVE Gone(parts, j)' = Gone(parts, j)
  <2>1. [i \in 1..j |-> Holes(parts[i])'] = [i \in 1..j |-> Holes(parts[i])]
    BY <1>4
  <2> QED
    BY <2>1 DEF Gone
<1> QED
  BY <1>1, <1>2, <1>3, <1>5

(* that every part of a phase has its own, *)
LEMMA FitStays ==
  ASSUME registry' = registry, segments' = segments, NEW parts, NEW params
  PROVE  ParamsFit(parts, params)' <=> ParamsFit(parts, params)
BY PlacesStay DEF ParamsFit

(* that the phase is right, *)
LEMMA PhaseStays ==
  ASSUME registry' = registry, segments' = segments, staged' = staged, NEW n, plan'[n] = plan[n],
         n = 1 \/ plan'[n - 1] = plan[n - 1], PhaseRight(n)
  PROVE  PhaseRight(n)'
<1>1. EndAt(n)' = EndAt(n)
  BY DEF EndAt
<1>2. EndAt(n - 1)' = EndAt(n - 1)
  BY DEF EndAt
<1>3. ParamsFit(plan[n].parts, plan[n].params)' <=> ParamsFit(plan[n].parts, plan[n].params)
  BY PlacesStay DEF ParamsFit
<1> QED
  BY <1>1, <1>2, <1>3 DEF PhaseRight

(* A step that compiles nothing leaves the plan right. *)
LEMMA PlanStays ==
  ASSUME PlanRight, UNCHANGED <<ground, compiled>>
  PROVE  PlanRight'
<1>1. registry' = registry /\ segments' = segments /\ staged' = staged /\ plan' = plan
  BY DEF ground, compiled
<1>2. \A n \in 1..Len(plan') : PhaseRight(n)'
  BY <1>1, PhaseStays DEF PlanRight
<1>3. \A k \in 1..Len(staged') : KindRight(k)'
  BY <1>1, SQLStays DEF PlanRight, KindRight
<1> QED
  BY <1>1, <1>2, <1>3 DEF PlanRight, NoProcess

(* and that the rows are. *)
LEMMA RowsStay ==
  ASSUME registry' = registry, segments' = segments, staged' = staged, rows' = rows, NEW m, RowsRight(m)
  PROVE  RowsRight(m)'
BY PlacesStay DEF RowsRight

(* The steps that refuse, fail, or only move a process. *)
LEMMA AnswerStays ==
  ASSUME AnswerInv, UNCHANGED <<ground, compiled, step>>, IsSeq(bridge)',
         \/ at' \in {"refused", "failed", "streaming"}
         \/ at' = at /\ UNCHANGED <<rows, bridge>>
  PROVE  AnswerInv'
<1>1. registry' = registry /\ segments' = segments /\ staged' = staged /\ plan' = plan /\ left' = left
      /\ request' = request /\ step' = step
  BY DEF ground, compiled
<1>2. PlanRight'
  BY PlanStays DEF AnswerInv
<1>3. LeftRight'
  <2>1. Users(Fused)' = Users(Fused) /\ Fused' = Fused
    <3>1. Fused' = Fused
      BY <1>1 DEF Fused
    <3>2. \A k : Users(k)' = Users(k)
      BY <1>1, PlacesStay
    <3> QED
      BY <1>1, <3>1, <3>2 DEF Users, Need
  <2> QED
    BY <1>1, <2>1 DEF AnswerInv, LeftRight, IsLeft
<1>4. RunRight'
  <2>1. CASE at' \in {"refused", "failed", "streaming"}
    BY <2>1 DEF RunRight
  <2>2. CASE at' = at /\ UNCHANGED <<rows, bridge>>
    <3>1. ASSUME NEW m, RowsRight(m) PROVE RowsRight(m)'
      BY <1>1, <2>2, <3>1, RowsStay
    <3>2. EndAt(step - 1)' = EndAt(step - 1)
      BY <1>1 DEF EndAt
    <3>3. RowsRight(EndAt(step - 1)) => RowsRight(EndAt(step - 1))'
      BY <1>1, <3>1, <3>2 DEF RowsRight
    <3>4. RowsRight(Len(segments)) => RowsRight(Len(segments))'
      BY <1>1, <3>1 DEF RowsRight
    <3> QED
      BY <1>1, <2>2, <3>3, <3>4 DEF AnswerInv, RunRight
  <2> QED
    BY <2>1, <2>2
<1> QED
  BY <1>2, <1>3, <1>4 DEF AnswerInv

-----------------------------------------------------------------------------
(* What is right before a phase runs *)

(* No parameter belongs to an operator that a process runs. *)
LEMMA BashOwnsNothing ==
  ASSUME PlanRight, NEW k \in 1..Len(staged), staged[k].kind = "bash"
  PROVE  Own(k) = <<>>
<1> DEFINE op == Op(segments[k])
<1>1. ~IsSQL(segments[k]) /\ op.duck = "none"
  BY DEF PlanRight, KindRight
<1>2. PICK w \in DOMAIN registry : op = registry[w]
  <2>1. op \in OpOf(segments[k])
    BY <1>1, Zenon DEF IsSQL, Op
  <2> HIDE DEF op
  <2>2. op = registry[Lower(Lead(segments[k]))] /\ Lower(Lead(segments[k])) \in DOMAIN registry
    BY <2>1 DEF OpOf, Known, Resolve
  <2> QED
    BY <2>2
<1>3. op.name \notin {"search", "grep"}
  <2> HIDE DEF op
  <2> QED
    BY <1>1, <1>2 DEF PlanRight, NoProcess
<1>4. ParamsOf(op) = 0
  <2> HIDE DEF op
  <2>1. op.name # "search" /\ op.name # "grep"
    BY <1>3
  <2> QED
    BY <2>1, Zenon DEF ParamsOf
<1>5. Own(k) = [i \in 1..ParamsOf(op) |-> <<"op", k, i>>]
  BY <1>1, Zenon DEF Own
<1>6. [i \in 1..0 |-> <<"op", k, i>>] = <<>>
  OBVIOUS
<1> QED
  BY <1>4, <1>5, <1>6, Zenon

(* A phase of the plan is a run of parts, the first behind the phase       *)
(* before it.                                                              *)
LEMMA PhaseIsRun ==
  ASSUME Inv, PlanRight, NEW n \in 1..Len(plan)
  PROVE  LET parts == plan[n].parts
             e == EndAt(n - 1)
         IN  /\ IsSeq(parts) /\ Len(parts) \in Nat /\ Len(parts) >= 1 /\ e \in Nat
             /\ EndAt(n) = e + Len(parts) /\ EndAt(n) <= Len(staged) /\ Len(staged) \in Nat
             /\ \A j \in 1..Len(parts) : parts[j] = staged[e + j] /\ e + j \in 1..Len(staged) /\ parts[j].seg = e + j
             /\ plan[n].kind = "bash" => \A j \in 1..Len(parts) : staged[e + j].kind = "bash"
             /\ plan[n].kind # "bash" => IsRun(parts, e)
<1> DEFINE parts == plan[n].parts
           e == EndAt(n - 1)
<1>1. /\ IsSeq(parts) /\ Len(parts) >= 1 /\ e \in Nat /\ EndAt(n) = e + Len(parts) /\ EndAt(n) <= Len(staged)
      /\ \A j \in 1..Len(parts) : parts[j] = staged[e + j]
      /\ \A j \in 1..Len(parts) : parts[j].kind = "bash" <=> plan[n].kind = "bash"
  BY DEF PlanRight, PhaseRight
<1> HIDE DEF parts, e
<1>2. Len(parts) \in Nat /\ Len(staged) \in Nat /\ Len(staged) <= Len(segments) /\ Len(segments) \in Nat
  BY <1>1, IsSeqType DEF Inv, Typed, Staging
<1>3. ASSUME NEW j \in 1..Len(parts)
      PROVE  /\ e + j \in 1..Len(staged) /\ parts[j].seg = e + j
             /\ parts[j].kind \in {"sql", "duck", "bash"} /\ (parts[j].kind = "sql" <=> IsSQL(segments[e + j]))
  <2>1. e + j \in 1..Len(staged)
    BY <1>1, <1>2
  <2>2. staged[e + j] \in Part /\ staged[e + j].seg = e + j
    BY <2>1 DEF Inv, Typed, Staging
  <2>3. KindRight(e + j)
    BY <2>1 DEF PlanRight
  <2>4. parts[j] = staged[e + j]
    BY <1>1
  <2> QED
    BY <2>1, <2>2, <2>3, <2>4 DEF KindRight, Part
<1>4. plan[n].kind # "bash" => IsRun(parts, e)
  <2> SUFFICES ASSUME plan[n].kind # "bash" PROVE IsRun(parts, e)
    OBVIOUS
  <2>1. \A j \in 1..Len(parts) : parts[j].kind \in {"sql", "duck"}
    BY <1>1, <1>3
  <2>2. e + Len(parts) <= Len(segments)
    BY <1>1, <1>2
  <2> QED
    BY <1>1, <1>2, <1>3, <2>1, <2>2 DEF IsRun
<1>5. plan[n].kind = "bash" => \A j \in 1..Len(parts) : staged[e + j].kind = "bash"
  BY <1>1
<1> QED
  BY <1>1, <1>2, <1>3, <1>4, <1>5 DEF parts, e

(* The last phase ends where the fused segments do. *)
LEMMA FusedIsEnd ==
  ASSUME Inv
  PROVE  EndAt(Len(plan)) = Fused
<1>1. Len(plan) \in Nat /\ (plan = <<>> <=> Len(plan) = 0)
  <2>1. IsSeq(plan)
    BY DEF Inv, Typed
  <2>2. Len(plan) \in Nat /\ DOMAIN plan = 1..Len(plan) /\ plan \in Seq({plan[k] : k \in DOMAIN plan})
    BY <2>1, IsSeqType DEF IsSeq
  <2> QED
    BY <2>2
<1> QED
  BY <1>1, Zenon DEF EndAt, Fused

-----------------------------------------------------------------------------
(* The steps that run the plan, and the answer *)

(* A DuckDB phase adds its segments' rows to those there are. *)
LEMMA DuckRows ==
  ASSUME Inv, AnswerInv, at \in {"run", "next"}, Phase.kind # "bash",
         views' = IF at = "run" THEN InstallViews ELSE views,
         Readable(Phase)
  PROVE  LET r == Chain(Phase, views')
             e == EndAt(step - 1)
         IN  /\ IsSeq(r) /\ Len(r) = EndAt(step)
             /\ \A k \in 1..EndAt(step) :
                  /\ r[k].seg = k /\ r[k].params = Own(k)
                  /\ \/ r[k].window = (IF k = 1 THEN "asked" ELSE "none")
                     \/ /\ r[k].window = "part"
                        /\ staged[k].kind = "bash" /\ k < Len(staged) /\ staged[k + 1].kind = "bash"
<1> DEFINE parts == plan[step].parts
           e == EndAt(step - 1)
           w == views'
           r == Chain(Phase, w)
<1>1. step \in 1..Len(plan) /\ Len(plan) \in Nat
  BY IsSeqType DEF Inv, Typed, Running
<1>2. PlanRight /\ RunRight /\ Phase = plan[step]
  BY DEF AnswerInv, Phase
<1>3. /\ IsSeq(parts) /\ Len(parts) \in Nat /\ Len(parts) >= 1 /\ e \in Nat
      /\ EndAt(step) = e + Len(parts) /\ IsRun(parts, e)
  BY <1>1, <1>2, PhaseIsRun
<1>4. Segmented
  BY <1>2 DEF Inv, Typed, PlanRight, Segmented
<1>5. plan[step].from = (IF step = 1 THEN "none" ELSE "_bridge") /\ ParamsFit(parts, plan[step].params)
  BY <1>1, <1>2 DEF PlanRight, PhaseRight
<1>6. Len(plan[step].params) = Gone(parts, Len(parts))
  <2>1. DOMAIN parts = 1..Len(parts)
    BY <1>3, IsSeqType
  <2>2. Len(Phase.params) = FoldFunction(+, 0, [j \in DOMAIN parts |-> Holes(parts[j])])
    BY <1>2, Zenon DEF Readable
  <2> HIDE DEF parts
  <2>3. Len(Phase.params) = FoldFunction(+, 0, [j \in 1..Len(parts) |-> Holes(parts[j])])
    BY <2>1, <2>2, Zenon
  <2> QED
    BY <1>2, <2>3, Zenon DEF Gone, Total
<1>7. /\ IsSeq(Base(Phase)) /\ Len(Base(Phase)) = e
      /\ step = 1 => e = 0 /\ w = "asked"
      /\ step # 1 => e >= 1 /\ RowsRight(e) /\ Base(Phase) = rows
  <2>1. CASE at = "run"
    <3>1. step = 1
      BY <1>2, <2>1 DEF RunRight
    <3>2. e = 0
      BY <3>1 DEF EndAt
    <3>3. Base(Phase) = <<>>
      BY <1>2, <1>5, <3>1 DEF Base, NoValue
    <3>4. IsSeq(<<>>)
      BY DEF IsSeq
    <3> QED
      BY <2>1, <3>1, <3>2, <3>3, <3>4 DEF InstallViews
  <2>2. CASE at = "next"
    <3>1. step >= 2 /\ RowsRight(e) /\ bridge = rows
      BY <1>2, <2>2 DEF RunRight
    <3>2. step # 1 /\ step - 1 \in 1..Len(plan) /\ (step - 1) - 1 = step - 2
      BY <1>1, <3>1
    <3>3. Base(Phase) = rows
      BY <1>2, <1>5, <3>1, <3>2 DEF Base
    <3>4. e >= 1
      <4>1. e = EndAt((step - 1) - 1) + Len(plan[step - 1].parts) /\ Len(plan[step - 1].parts) >= 1
            /\ Len(plan[step - 1].parts) \in Nat /\ EndAt((step - 1) - 1) \in Nat
        BY <1>2, <3>2, PhaseIsRun
      <4> HIDE DEF e
      <4> QED
        BY <4>1
    <3> QED
      BY <3>1, <3>2, <3>3, <3>4 DEF RowsRight
  <2> QED
    BY <2>1, <2>2
<1>8. Given(Phase, e, w, r)
  <2>1. PICK phase : phase = Phase /\ phase = plan[step]
    BY <1>2
  <2>2. IsRun(phase.parts, e) /\ IsSeq(Base(phase)) /\ ParamsFit(phase.parts, phase.params)
    BY <1>3, <1>5, <1>7, <2>1
  <2>3. Len(phase.params) = Gone(phase.parts, Len(phase.parts))
    BY <1>6, <2>1
  <2> HIDE DEF e, w
  <2>4. Given(phase, e, w, Chain(phase, w))
    BY <1>4, <2>2, <2>3, ChainMeans
  <2> QED
    BY <2>1, <2>4
<1> HIDE DEF r, e, w, parts
<1>9. /\ IsSeq(r) /\ Len(r) = e + Len(parts)
      /\ \A i \in 1..e : r[i] = Base(Phase)[i]
      /\ \A j \in 1..Len(parts) :
           /\ r[e + j].seg = e + j /\ r[e + j].params = Own(e + j)
           /\ r[e + j].window = IF j = 1 /\ Phase.from = "none"
                           THEN IF Phase.parts[j].kind = "duck" THEN "asked" ELSE w ELSE "none"
  <2>1. Len(Base(Phase)) = e /\ Phase.parts = parts
    BY <1>2, <1>7 DEF parts
  <2> QED
    BY <1>8, <2>1, Zenon DEF Given
<1>10. ASSUME NEW k \in 1..EndAt(step)
       PROVE  /\ r[k].seg = k /\ r[k].params = Own(k)
              /\ \/ r[k].window = (IF k = 1 THEN "asked" ELSE "none")
                 \/ /\ r[k].window = "part"
                    /\ staged[k].kind = "bash" /\ k < Len(staged) /\ staged[k + 1].kind = "bash"
  <2>1. CASE k <= e
    <3>1. k \in 1..e /\ step # 1
      BY <1>3, <1>7, <2>1
    <3>2. r[k] = rows[k]
      BY <1>7, <1>9, <3>1
    <3> QED
      BY <1>7, <3>1, <3>2 DEF RowsRight
  <2>2. CASE ~(k <= e)
    <3>1. PICK j \in 1..Len(parts) : k = e + j
      <4>1. k - e \in 1..Len(parts) /\ k = e + (k - e)
        BY <1>3, <2>2
      <4> QED
        BY <4>1
    <3>2. r[k].seg = k /\ r[k].params = Own(k)
      BY <1>9, <3>1
    <3>3. CASE step = 1
      <4>1. k = j
        BY <1>7, <3>1, <3>3
      <4> QED
        BY <1>2, <1>5, <1>7, <1>9, <3>1, <3>2, <3>3, <4>1
    <3>4. CASE step # 1
      <4>1. k # 1
        BY <1>3, <1>7, <3>1, <3>4
      <4>2. r[k].window = "none"
        BY <1>2, <1>5, <1>9, <3>1, <3>4
      <4> QED
        BY <3>2, <4>1, <4>2
    <3> QED
      BY <3>3, <3>4
  <2> QED
    BY <2>1, <2>2
<1> QED
  BY <1>3, <1>9, <1>10 DEF r, w

(* After a phase whose rows are right the run is right. *)
LEMMA ProceedRight ==
  ASSUME Inv, AnswerInv, at \in {"run", "next"}, Proceed, UNCHANGED <<ground, compiled>>, IsSeq(bridge)',
         NEW e, e = EndAt(step), RowsRight(e)',
         step < Len(plan) /\ plan[step + 1].kind # "bash" => bridge' = rows'
  PROVE  AnswerInv'
<1>1. step \in 1..Len(plan) /\ Len(plan) \in Nat
  BY IsSeqType DEF Inv, Typed, Running
<1>2. registry' = registry /\ segments' = segments /\ staged' = staged /\ plan' = plan
  BY DEF ground, compiled
<1>3. PlanRight'
  BY PlanStays DEF AnswerInv
<1>4. at' \in {"next", "done"}
  BY DEF Proceed
<1>5. LeftRight'
  BY <1>4 DEF LeftRight
<1>6. CASE step = Len(plan) /\ at' = "done" /\ step' = step
  <2>1. e = Len(segments')
    <3>1. Fused' = Len(segments')
      <4>1. at \in Compiled
        BY DEF Compiled
      <4>2. Fused = Len(segments)
        BY <4>1 DEF Inv, Fusing
      <4> QED
        BY <1>2, <4>2 DEF Fused
    <3>2. e = Fused
      BY <1>6, FusedIsEnd
    <3> QED
      BY <1>2, <3>1, <3>2 DEF Fused
  <2>2. RunRight'
    BY <1>6, <2>1 DEF RunRight, RowsRight
  <2> QED
    BY <1>3, <1>5, <2>2 DEF AnswerInv
<1>7. CASE step # Len(plan) /\ at' = "next" /\ step' = step + 1
  <2>1. step' >= 2 /\ step' - 1 = step /\ step < Len(plan)
    BY <1>1, <1>7
  <2>2. EndAt(step - 1)' = e
    BY <1>2, <2>1 DEF EndAt
  <2>3. RowsRight(EndAt(step - 1))'
    BY <2>2 DEF RowsRight
  <2>4. RunRight'
    BY <1>2, <1>7, <2>1, <2>3 DEF RunRight
  <2> QED
    BY <1>3, <1>5, <2>4 DEF AnswerInv
<1> QED
  BY <1>6, <1>7 DEF Proceed

(* RunDuck adds the rows of a run whose parameters are its own. *)
LEMMA RunDuckAnswers == ASSUME Inv, AnswerInv, RunDuck PROVE AnswerInv'
<1>1. at \in {"run", "next"} /\ Phase.kind # "bash" /\ UNCHANGED <<ground, compiled, bridge, procs>>
  BY DEF RunDuck
<1>2. registry' = registry /\ segments' = segments /\ staged' = staged /\ plan' = plan /\ IsSeq(bridge)'
  <2>1. IsSeq(bridge)
    BY DEF AnswerInv, RunRight
  <2> QED
    BY <1>1, <2>1 DEF ground, compiled, IsSeq
<1>3. CASE /\ views' = IF at = "run" THEN InstallViews ELSE views
           /\ Readable(Phase) /\ rows' = Chain(Phase, views') /\ Proceed
  <2>1. PICK e : e = EndAt(step)
    OBVIOUS
  <2>2. /\ IsSeq(rows') /\ Len(rows') = e
        /\ \A k \in 1..e :
             /\ rows'[k].seg = k /\ rows'[k].params = Own(k)
             /\ \/ rows'[k].window = (IF k = 1 THEN "asked" ELSE "none")
                \/ /\ rows'[k].window = "part"
                   /\ staged[k].kind = "bash" /\ k < Len(staged) /\ staged[k + 1].kind = "bash"
    <3>1. PICK r : r = Chain(Phase, views')
      OBVIOUS
    <3>2. /\ IsSeq(r) /\ Len(r) = EndAt(step)
          /\ \A k \in 1..EndAt(step) :
             /\ r[k].seg = k /\ r[k].params = Own(k)
             /\ \/ r[k].window = (IF k = 1 THEN "asked" ELSE "none")
                \/ /\ r[k].window = "part"
                   /\ staged[k].kind = "bash" /\ k < Len(staged) /\ staged[k + 1].kind = "bash"
      BY <1>1, <1>3, <3>1, DuckRows
    <3>3. rows' = r
      BY <1>3, <3>1
    <3> QED
      BY <2>1, <3>2, <3>3
  <2>3. RowsRight(e)'
    <3>1. \A k : Own(k)' = Own(k)
      BY <1>2, PlacesStay
    <3> QED
      BY <1>2, <2>2, <3>1 DEF RowsRight, IsSeq
  <2>4. ~(step < Len(plan) /\ plan[step + 1].kind # "bash")
    <3>1. step \in 1..Len(plan) /\ Len(plan) \in Nat /\ plan[step].kind # "bash"
      BY <1>1, IsSeqType DEF Inv, Typed, Running, Phase
    <3>2. ASSUME step < Len(plan) PROVE plan[step + 1].kind = "bash"
      <4>1. step + 1 \in 1..Len(plan) /\ step \in Nat
        BY <3>1, <3>2
      <4>2. plan[step].kind = "bash" <=> step % 2 = 0
        BY <3>1 DEF Inv, Fusing
      <4>3. plan[step + 1].kind = "bash" <=> (step + 1) % 2 = 0
        BY <4>1 DEF Inv, Fusing
      <4> QED
        BY <3>1, <4>1, <4>2, <4>3, Parity
    <3> QED
      BY <3>2
  <2> QED
    BY <1>1, <1>2, <1>3, <2>1, <2>3, <2>4, ProceedRight
<1>4. CASE at' = "failed" /\ UNCHANGED <<rows, step>>
  BY <1>1, <1>2, <1>4, AnswerStays
<1> QED
  BY <1>3, <1>4 DEF RunDuck

(* A process that ended well adds a whole output, any other a part of one. *)
LEMMA PipedMeans ==
  ASSUME IsSeq(rows), Tailmost \in Nat
  PROVE  /\ IsSeq(Piped) /\ Len(Piped) = Len(rows) + Tailmost
         /\ \A i \in 1..Len(rows) : Piped[i] = rows[i]
         /\ \A p \in 1..Tailmost :
              LET x == Piped[Len(rows) + p]
              IN  /\ x.seg = Phase.parts[p].seg /\ x.params = <<>>
                  /\ x.window = IF procs[p] = "good" THEN "none" ELSE "part"
<1> DEFINE y(p) == [seg |-> Phase.parts[p].seg, params |-> <<>>,
                    window |-> IF procs[p] = "good" THEN "none" ELSE "part"]
           n == Tailmost
           s == [p \in 1..n |-> y(p)]
           S == {rows[k] : k \in DOMAIN rows} \cup {s[k] : k \in 1..n}
           t == rows \o s
<1>1. Piped = t
  BY Zenon DEF Piped
<1>2. n \in Nat /\ (\A p \in 1..n : s[p] = y(p)) /\ s = [p \in 1..n |-> s[p]]
  BY Zenon
<1>3. ASSUME NEW p
      PROVE  /\ y(p).seg = Phase.parts[p].seg /\ y(p).params = <<>>
             /\ y(p).window = IF procs[p] = "good" THEN "none" ELSE "part"
  BY Zenon
<1> HIDE DEF s, y, n
<1>4. rows \in Seq(S) /\ s \in Seq(S) /\ Len(s) = n
  <2>1. rows \in Seq({rows[k] : k \in DOMAIN rows})
    BY DEF IsSeq
  <2>2. s \in Seq({s[k] : k \in 1..n}) /\ Len(s) = n
    BY <1>2
  <2> QED
    BY <2>1, <2>2
<1> HIDE DEF S
<1>5. /\ t \in Seq(S) /\ Len(t) = Len(rows) + n /\ Len(rows) \in Nat
      /\ (\A i \in 1..Len(rows) : t[i] = rows[i]) /\ \A p \in 1..n : t[Len(rows) + p] = s[p]
  BY <1>2, <1>4
<1> HIDE DEF t
<1>6. IsSeq(t)
  <2>1. DOMAIN t = 1..Len(t) /\ t = [k \in 1..Len(t) |-> t[k]] /\ Len(t) \in Nat
    BY <1>5
  <2>2. t \in Seq({t[k] : k \in 1..Len(t)})
    BY <2>1
  <2> QED
    BY <2>1, <2>2 DEF IsSeq
<1>7. ASSUME NEW p \in 1..n
      PROVE  /\ t[Len(rows) + p].seg = Phase.parts[p].seg /\ t[Len(rows) + p].params = <<>>
             /\ t[Len(rows) + p].window = IF procs[p] = "good" THEN "none" ELSE "part"
  <2>1. t[Len(rows) + p] = y(p)
    BY <1>2, <1>5
  <2> QED
    BY <1>3, <2>1, Zenon
<1> QED
  BY <1>1, <1>5, <1>6, <1>7, Zenon DEF n

(* Collect adds a row for every process; only the last must have ended     *)
(* well.                                                                   *)
LEMMA CollectAnswers == ASSUME Inv, AnswerInv, Collect PROVE AnswerInv'
<1>1. at = "next" /\ Phase.kind = "bash" /\ UNCHANGED <<ground, compiled, views>>
  BY DEF Collect, Started, InChain
<1>2. registry' = registry /\ segments' = segments /\ staged' = staged /\ plan' = plan
  BY <1>1 DEF ground, compiled
<1>3. step \in 1..Len(plan) /\ Len(plan) \in Nat /\ PlanRight /\ RunRight /\ Phase = plan[step]
  BY <1>1, IsSeqType DEF Inv, Typed, Running, AnswerInv, Phase
<1>4. CASE /\ procs[Tailmost] = "good" /\ rows' = Piped
           /\ bridge' = IF step < Len(plan) THEN LoadBridge(rows') ELSE bridge
           /\ Proceed
  <2>1. PICK e, parts : e = EndAt(step - 1) /\ parts = plan[step].parts
    OBVIOUS
  <2>2. /\ IsSeq(parts) /\ Len(parts) \in Nat /\ Len(parts) >= 1 /\ e \in Nat
        /\ EndAt(step) = e + Len(parts) /\ EndAt(step) <= Len(staged) /\ Len(staged) \in Nat
        /\ \A j \in 1..Len(parts) : e + j \in 1..Len(staged) /\ parts[j].seg = e + j /\ staged[e + j].kind = "bash"
    BY <1>1, <1>3, <2>1, PhaseIsRun
  <2>3. step >= 2 /\ RowsRight(e)
    BY <1>1, <1>3, <2>1 DEF RunRight
  <2>4. e >= 1
    <3>1. step - 1 \in 1..Len(plan)
      BY <1>3, <2>3
    <3>2. PICK d : d = EndAt((step - 1) - 1)
      OBVIOUS
    <3>3. e = d + Len(plan[step - 1].parts) /\ Len(plan[step - 1].parts) >= 1
          /\ Len(plan[step - 1].parts) \in Nat /\ d \in Nat
      BY <1>3, <2>1, <3>1, <3>2, PhaseIsRun
    <3> QED
      BY <3>3
  <2>5. Tailmost = Len(parts) /\ IsSeq(rows) /\ Len(rows) = e
    BY <1>3, <2>1, <2>3 DEF Tailmost, RowsRight
  <2>6. /\ IsSeq(rows') /\ Len(rows') = e + Len(parts)
        /\ \A i \in 1..e : rows'[i] = rows[i]
        /\ \A p \in 1..Len(parts) :
             /\ rows'[e + p].seg = e + p /\ rows'[e + p].params = <<>>
             /\ rows'[e + p].window = IF procs[p] = "good" THEN "none" ELSE "part"
    <3>1. PICK r : r = Piped
      OBVIOUS
    <3>2. /\ IsSeq(r) /\ Len(r) = Len(rows) + Tailmost
          /\ \A i \in 1..Len(rows) : r[i] = rows[i]
          /\ \A p \in 1..Tailmost :
               /\ r[Len(rows) + p].seg = Phase.parts[p].seg /\ r[Len(rows) + p].params = <<>>
               /\ r[Len(rows) + p].window = IF procs[p] = "good" THEN "none" ELSE "part"
      BY <2>2, <2>5, <3>1, PipedMeans
    <3>3. Phase.parts = parts /\ rows' = r
      BY <1>3, <1>4, <2>1, <3>1
    <3> QED
      BY <2>2, <2>5, <3>2, <3>3
  <2>7. ASSUME NEW k \in 1..EndAt(step)
        PROVE  /\ rows'[k].seg = k /\ rows'[k].params = Own(k)
               /\ \/ rows'[k].window = (IF k = 1 THEN "asked" ELSE "none")
                  \/ /\ rows'[k].window = "part"
                     /\ staged[k].kind = "bash" /\ k < Len(staged) /\ staged[k + 1].kind = "bash"
    <3>1. CASE k <= e
      <4>1. k \in 1..e
        BY <2>2, <3>1
      <4> QED
        BY <2>3, <2>6, <4>1 DEF RowsRight
    <3>2. CASE ~(k <= e)
      <4>1. PICK p \in 1..Len(parts) : k = e + p
        <5>1. k - e \in 1..Len(parts) /\ k = e + (k - e)
          BY <2>2, <3>2
        <5> QED
          BY <5>1
      <4>2. k # 1 /\ k \in 1..Len(staged) /\ staged[k].kind = "bash"
        BY <2>2, <2>4, <4>1
      <4>3. rows'[k].seg = k /\ rows'[k].params = Own(k)
        BY <1>3, <2>6, <4>1, <4>2, BashOwnsNothing
      <4>4. CASE procs[p] = "good"
        BY <2>6, <4>1, <4>2, <4>3, <4>4
      <4>5. CASE procs[p] # "good"
        <5>1. p + 1 \in 1..Len(parts)
          <6>1. p # Len(parts)
            BY <1>4, <2>5, <4>5
          <6> QED
            BY <2>2, <6>1
        <5>2. e + (p + 1) = k + 1 /\ k \in Nat
          BY <2>2, <4>1
        <5>3. k + 1 \in 1..Len(staged) /\ staged[k + 1].kind = "bash"
          BY <2>2, <5>1, <5>2
        <5>4. k < Len(staged)
          BY <2>2, <5>2, <5>3
        <5> QED
          BY <2>6, <4>1, <4>2, <4>3, <4>5, <5>3, <5>4
      <4> QED
        BY <4>4, <4>5
    <3> QED
      BY <3>1, <3>2
  <2>8. PICK m : m = EndAt(step)
    OBVIOUS
  <2>9. RowsRight(m)'
    <3>1. \A k : Own(k)' = Own(k)
      BY <1>2, PlacesStay
    <3>2. IsSeq(rows)' /\ Len(rows') = m
      BY <2>2, <2>6, <2>8 DEF IsSeq
    <3> QED
      BY <1>2, <2>7, <2>8, <3>1, <3>2 DEF RowsRight
  <2>10. IsSeq(bridge)' /\ (step < Len(plan) => bridge' = rows')
    <3>1. IsSeq(bridge)
      BY <1>3 DEF RunRight
    <3> QED
      BY <1>4, <2>6, <3>1 DEF LoadBridge, IsSeq
  <2> QED
    BY <1>1, <1>4, <2>8, <2>9, <2>10, ProceedRight
<1>5. CASE at' = "failed" /\ UNCHANGED <<rows, bridge, step>>
  <2>1. IsSeq(bridge)'
    BY <1>3, <1>5 DEF RunRight, IsSeq
  <2> QED
    BY <1>1, <1>5, <2>1, AnswerStays
<1> QED
  BY <1>4, <1>5 DEF Collect

(* The steps that only start, end or kill processes. *)
LEMMA ChainAnswers == ASSUME Inv, AnswerInv, Spawn \/ TimesOut \/ \E p : ProcessEnds(p) PROVE AnswerInv'
<1>1. UNCHANGED <<ground, compiled, step, rows, bridge>> /\ (at' = at \/ at' = "failed")
  BY DEF Spawn, TimesOut, ProcessEnds, cursor
<1>2. IsSeq(bridge)'
  <2>1. IsSeq(bridge)
    BY DEF AnswerInv, RunRight
  <2> QED
    BY <1>1, <2>1 DEF IsSeq
<1> QED
  BY <1>1, <1>2, AnswerStays

-----------------------------------------------------------------------------
(* The steps that compile, and the answer *)

(* The sum of no number, *)
LEMMA TotalNone == ASSUME NEW f, f = [j \in 1..0 |-> f[j]] PROVE Total(f) = 0
<1>1. FoldFunction(+, 0, [j \in 1..0 |-> f[j]]) = 0
  <2> DEFINE S(k) == FoldFunction(+, 0, [j \in 1..k |-> f[j]])
  <2>1. \A k \in 1..0 : f[k] \in Nat
    OBVIOUS
  <2>2. S(0) = 0
    BY <2>1, SumStep
  <2> QED
    BY <2>2
<1> QED
  BY <1>1, Zenon DEF Total

(* and that of one. *)
LEMMA TotalOne == ASSUME NEW f, f = [j \in 1..1 |-> f[j]], f[1] \in Nat PROVE Total(f) = f[1]
<1> DEFINE S(k) == FoldFunction(+, 0, [j \in 1..k |-> f[j]])
<1>1. S(0) = 0 /\ (\A k \in 0..1 : S(k) \in Nat) /\ \A k \in 1..1 : S(k) = S(k - 1) + f[k]
  <2>1. \A k \in 1..1 : k = 1
    OBVIOUS
  <2>2. \A k \in 1..1 : f[k] \in Nat
    BY <2>1
  <2> QED
    BY <2>2, SumStep
<1>2. Total(f) = S(1)
  BY Zenon DEF Total
<1> HIDE DEF S
<1> QED
  BY <1>1, <1>2

(* A text has a natural number of placeholders. *)
LEMMA NeedOfType == ASSUME NEW s, Len(s) \in Nat PROVE NeedOf(s) \in Nat
<1>1. Placeholders(s) = TruePlaceholders(s)
  BY MarksAreTrue
<1>2. Cardinality(TruePlaceholders(s)) \in Nat
  BY MarksFinite
<1> QED
  BY <1>1, <1>2 DEF NeedOf

(* A segment of a text is a text. *)
LEMMA SegmentsAreTexts ==
  ASSUME NEW S, NEW t \in Seq(S), NEW k \in DOMAIN Split(t)
  PROVE  Len(Split(t)[k]) \in Nat
BY SegmentAligned

(* A request that has not been read has no phase that could be wrong. *)
LEMMA InitAnswers ==
  ASSUME Init, NoProcess({"search", "grep"})
  PROVE  AnswerInv
<1>1. at = "text" /\ segments = <<>> /\ staged = <<>> /\ plan = <<>> /\ left = User(request.given)
      /\ (bridge = <<>> \/ \E x : bridge = <<x>>)
  BY DEF Init, NoValue, Stale
<1>2. IsSeq(bridge)
  <2>1. IsSeq(<<>>)
    BY DEF IsSeq
  <2>2. ASSUME NEW x PROVE IsSeq(<<x>>)
    BY DEF IsSeq
  <2> QED
    BY <1>1, <2>1, <2>2
<1>3. PlanRight
  BY <1>1 DEF PlanRight
<1> QED
  BY <1>1, <1>2, <1>3 DEF AnswerInv, LeftRight, RunRight

(* Nobody has taken anything of what the caller gave. *)
LEMMA AllLeft ==
  ASSUME request \in Requests
  PROVE  User(request.given) = UsersFrom(0, request.given) /\ request.given \in Nat
<1>1. request.given \in Nat
  BY RequestAssumption
<1> DEFINE m == request.given
<1> HIDE DEF m
<1>2. m \in Nat
  BY <1>1 DEF m
<1>3. ASSUME NEW i \in 1..m PROVE <<"user", i>> = UserAt(0 + i)
  <2>1. 0 + i = i
    OBVIOUS
  <2> QED
    BY <2>1, Zenon DEF UserAt
<1>4. [i \in 1..m |-> <<"user", i>>] = [i \in 1..m |-> UserAt(0 + i)]
  BY <1>3, Zenon
<1> QED
  BY <1>1, <1>4, Zenon DEF User, UsersFrom, m

(* ReadText gives SQL alone, as one phase, all of the caller's parameters. *)
LEMMA ReadTextAnswers == ASSUME Inv, AnswerInv, ReadText PROVE AnswerInv'
<1>1. /\ at = "text" /\ segments' = Split(Strip(request.text))
      /\ UNCHANGED <<ground, step, rows, cursor, procs>>
  BY DEF ReadText
<1>2. /\ staged = <<>> /\ plan = <<>> /\ step = 1 /\ request \in Requests /\ left = User(request.given)
      /\ IsSeq(bridge) /\ NoProcess({"search", "grep"})
  BY <1>1 DEF Inv, Typed, Staging, Running, AnswerInv, LeftRight, RunRight, PlanRight
<1>3. /\ registry' = registry /\ request' = request /\ step' = 1 /\ IsSeq(bridge)' /\ NoProcess({"search", "grep"})'
  BY <1>1, <1>2 DEF ground, cursor, IsSeq, NoProcess
<1>4. IsSeq(segments') /\ \A k \in 1..Len(segments') : Len(segments'[k]) \in Nat
  <2>1. request.text \in Seq(STRING)
    BY <1>2, RequestAssumption
  <2>2. Strip(request.text) \in Seq(STRING)
    BY <2>1, StripType
  <2>3. IsSeq(Split(Strip(request.text)))
    BY <2>2, SplitType
  <2>4. DOMAIN Split(Strip(request.text)) = 1..Len(Split(Strip(request.text)))
    BY <2>3, IsSeqType
  <2> QED
    BY <1>1, <2>2, <2>3, <2>4, SegmentsAreTexts
<1>5. Users(0)' = 0
  <2> DEFINE f == [j \in 1..0 |-> Need(j)']
  <2>1. Users(0)' = Total(f)
    BY DEF Users
  <2>2. f = [j \in 1..0 |-> f[j]]
    OBVIOUS
  <2> HIDE DEF f
  <2> QED
    BY <2>1, <2>2, TotalNone
<1>6. CASE at' \in {"refused", "stage"} /\ UNCHANGED <<staged, left, plan>>
  <2>1. staged' = <<>> /\ plan' = <<>> /\ left' = User(request.given)
    BY <1>2, <1>6
  <2>2. PlanRight'
    BY <1>3, <1>4, <2>1 DEF PlanRight
  <2>3. IsLeft(left, Fused)'
    <3>1. Fused' = 0
      BY <2>1 DEF Fused
    <3>2. left' = UsersFrom(0, request.given) /\ request.given \in Nat
      BY <1>2, <2>1, AllLeft
    <3>3. 0 <= request.given /\ request.given - 0 = request.given
      BY <3>2
    <3>4. Users(Fused)' = 0
      BY <1>5, <3>1 DEF Users, Need
    <3> QED
      BY <1>3, <3>2, <3>3, <3>4 DEF IsLeft
  <2>4. LeftRight' /\ RunRight'
    BY <1>3, <1>6, <2>3 DEF LeftRight, RunRight
  <2> QED
    BY <2>2, <2>4 DEF AnswerInv
<1>7. CASE /\ Len(segments') = 1 /\ IsSQL(segments'[1]) /\ at' = "run"
           /\ staged' = <<[kind |-> "sql", seg |-> 1]>>
           /\ plan' = <<[kind |-> "sql", from |-> "none", parts |-> staged', params |-> left]>>
  <2> DEFINE need == NeedOf(segments'[1])
  <2>0. PICK p, c : p = staged' /\ c = left
    OBVIOUS
  <2>1. IsSeq(p) /\ Len(p) = 1 /\ p[1].seg = 1 /\ p[1].kind = "sql"
    BY <1>7, <2>0 DEF IsSeq
  <2>2. /\ Len(plan') = 1 /\ plan'[1].kind = "sql" /\ plan'[1].from = "none" /\ plan'[1].parts = p
        /\ plan'[1].params = c
    BY <1>7, <2>0
  <2>3. IsSQL(segments[1])'
    BY <1>3, <1>7 DEF IsSQL, OpOf, Known, Resolve
  <2>4. need \in Nat
    <3>1. Len(segments'[1]) \in Nat
      BY <1>4, <1>7
    <3> QED
      BY <3>1, NeedOfType
  <2>5. Own(1)' = UsersFrom(0, need)
    <3>1. Own(1)' = [i \in 1..need |-> <<"user", i + Users(1 - 1)'>>]
      BY <2>3 DEF Own
    <3>2. Users(1 - 1)' = 0
      <4>1. 1 - 1 = 0
        OBVIOUS
      <4> QED
        BY <1>5, <4>1 DEF Users
    <3> HIDE DEF need
    <3>3. ASSUME NEW i \in 1..need PROVE <<"user", i + Users(1 - 1)'>> = UserAt(0 + i)
      <4>1. i + 0 = 0 + i
        BY <2>4
      <4> QED
        BY <3>2, <4>1, Zenon DEF UserAt
    <3>4. [i \in 1..need |-> <<"user", i + Users(1 - 1)'>>] = [i \in 1..need |-> UserAt(0 + i)]
      BY <3>3, Zenon
    <3> QED
      BY <3>1, <3>4, Zenon DEF UsersFrom
  <2>6. Gone(p, 0)' = 0
    <3> DEFINE f == [i \in 1..0 |-> Holes(p[i])']
    <3>1. Gone(p, 0)' = Total(f)
      BY DEF Gone
    <3>2. f = [i \in 1..0 |-> f[i]]
      OBVIOUS
    <3> HIDE DEF f
    <3> QED
      BY <3>1, <3>2, TotalNone
  <2>7. Gone(p, 1)' = need
    <3> DEFINE f == [i \in 1..1 |-> Holes(p[i])']
    <3>1. Gone(p, 1)' = Total(f)
      BY DEF Gone
    <3>2. f = [i \in 1..1 |-> f[i]]
      OBVIOUS
    <3>3. f[1] = Holes(p[1])'
      OBVIOUS
    <3>4. Holes(p[1])' = need
      BY <2>1 DEF Holes
    <3> HIDE DEF f, need
    <3>5. f[1] \in Nat
      BY <2>4, <3>3, <3>4
    <3> QED
      BY <3>1, <3>2, <3>3, <3>4, <3>5, TotalOne
  <2> HIDE DEF need
  <2>8. ParamsFit(p, c)'
    <3>1. ASSUME Len(c) = need PROVE SubSeq(c, 0 + 1, need) = UsersFrom(0, need)
      <4>1. c = UsersFrom(0, request.given) /\ request.given \in Nat
        BY <1>2, <2>0, AllLeft
      <4>2. c \in Seq(Value) /\ Len(c) = request.given
        BY <4>1, UsersFromType
      <4>3. c = UsersFrom(0, need)
        BY <3>1, <4>1, <4>2
      <4>4. SubSeq(c, 1, Len(c)) = c
        BY <4>2
      <4>5. 0 + 1 = 1
        OBVIOUS
      <4> QED
        BY <3>1, <4>3, <4>4, <4>5
    <3>2. \A j \in 1..1 : j = 1 /\ j - 1 = 0
      OBVIOUS
    <3> QED
      BY <2>1, <2>5, <2>6, <2>7, <3>1, <3>2 DEF ParamsFit
  <2>9. EndAt(0)' = 0 /\ EndAt(1)' = 1
    BY <2>1, <2>2 DEF EndAt
  <2>10. PhaseRight(1)'
    <3>1. EndAt(1 - 1)' = 0
      BY <2>9 DEF EndAt
    <3>2. \A j \in 1..1 : j = 1 /\ 0 + j = j
      OBVIOUS
    <3>3. staged' = p /\ Len(staged') = 1 /\ 0 \in Nat /\ 1 = 0 + 1
      BY <2>0, <2>1
    <3>4. ParamsFit(plan[1].parts, plan[1].params)'
      BY <2>2, <2>8 DEF ParamsFit
    <3>5. IsSeq(plan[1].parts)'
      BY <2>1, <2>2 DEF IsSeq
    <3>6. Len(p) >= 1 /\ EndAt(1 - 1)' \in Nat /\ EndAt(1)' = EndAt(1 - 1)' + Len(p) /\ EndAt(1)' <= Len(staged')
      <4>1. Len(p) = 1 /\ EndAt(1)' = 1 /\ Len(staged') = 1
        BY <2>1, <2>9, <3>3
      <4>2. 1 >= 1 /\ 0 \in Nat /\ 1 = 0 + 1 /\ 1 <= 1
        OBVIOUS
      <4> QED
        BY <3>1, <4>1, <4>2, Zenon
    <3>7. \A j \in 1..Len(p) : p[j] = staged'[EndAt(1 - 1)' + j]
      BY <2>1, <3>1, <3>2, <3>3
    <3>8. \A j \in 1..Len(p) : p[j].kind = "bash" <=> plan'[1].kind = "bash"
      BY <2>1, <2>2, <3>2
    <3>9. plan'[1].from = (IF 1 = 1 THEN "none" ELSE "_bridge")
      BY <2>2
    <3> QED
      BY <2>2, <3>4, <3>5, <3>6, <3>7, <3>8, <3>9 DEF PhaseRight
  <2>11. KindRight(1)'
    BY <2>0, <2>1, <2>3 DEF KindRight
  <2>12. PlanRight'
    <3>1. Len(staged') = 1 /\ \A k \in 1..1 : k = 1
      BY <2>0, <2>1
    <3>2. \A k \in 1..Len(staged') : KindRight(k)'
      BY <2>11, <3>1
    <3>3. \A n \in 1..Len(plan') : PhaseRight(n)'
      BY <2>2, <2>10, <3>1
    <3> QED
      BY <1>3, <1>4, <3>2, <3>3 DEF PlanRight
  <2>13. LeftRight' /\ RunRight'
    BY <1>3, <1>7 DEF LeftRight, RunRight
  <2> QED
    BY <2>12, <2>13 DEF AnswerInv
<1> QED
  BY <1>1, <1>6, <1>7 DEF ReadText

(* Stage adds a part of the kind that its segment is. *)
LEMMA StageAnswers == ASSUME Inv, AnswerInv, Stage PROVE AnswerInv'
<1> DEFINE k == Len(staged) + 1
           seg == segments[k]
           kind == IF IsSQL(seg) THEN "sql" ELSE IF Op(seg).duck # "none" THEN "duck" ELSE "bash"
<1>1. at = "stage" /\ Len(staged) < Len(segments)
  BY DEF Stage
<1>2. CASE Refuse
  <2>1. at' = "refused" /\ UNCHANGED <<ground, compiled, step, rows, cursor, procs>>
    BY <1>2 DEF Refuse, End
  <2>2. IsSeq(bridge)'
    BY <2>1 DEF AnswerInv, RunRight, IsSeq, cursor
  <2> QED
    BY <2>1, <2>2, AnswerStays
<1>3. CASE /\ staged' = Append(staged, [kind |-> kind, seg |-> k])
           /\ UNCHANGED <<ground, at, segments, left, plan, step, rows, cursor, procs>>
  <2>1. staged \in Seq(Part) /\ Len(staged) \in Nat /\ Len(segments) \in Nat /\ plan = <<>>
    <3>1. staged \in Seq(Part) /\ Len(staged) \in Nat /\ Len(segments) \in Nat
      BY IsSeqType DEF Inv, Typed
    <3> QED
      BY <1>1, <3>1 DEF Inv, Staging
  <2>2. registry' = registry /\ segments' = segments /\ plan' = <<>> /\ request' = request /\ left' = left /\ at' = "stage"
    BY <1>1, <1>3, <2>1 DEF ground
  <2>3. /\ Len(staged') = k /\ staged'[k].kind = kind
        /\ \A i \in 1..Len(staged) : staged'[i] = staged[i]
    <3> DEFINE r == [kind |-> kind, seg |-> k]
    <3>1. r.kind = kind
      BY Zenon
    <3>2. r \in Part
      BY <2>1 DEF Part
    <3> HIDE DEF r, kind
    <3> QED
      BY <1>3, <2>1, <3>1, <3>2 DEF r
  <2>4. ASSUME NEW i \in 1..Len(staged') PROVE KindRight(i)'
    <3>1. i \in 1..Len(staged) \/ i = k
      BY <2>1, <2>3
    <3>2. CASE i \in 1..Len(staged)
      BY <2>2, <2>3, <3>2, SQLStays DEF AnswerInv, PlanRight, KindRight
    <3>3. CASE i = k
      <4>1. (kind = "sql" <=> IsSQL(segments[i])) /\ (kind = "bash" => Op(segments[i]).duck = "none")
        BY <3>3
      <4> HIDE DEF k, kind
      <4> QED
        BY <2>2, <2>3, <3>3, <4>1, SQLStays DEF KindRight
    <3> QED
      BY <3>1, <3>2, <3>3
  <2>5. PlanRight'
    BY <2>2, <2>4 DEF AnswerInv, PlanRight, NoProcess
  <2>6. IsLeft(left, Fused)'
    <3>1. Fused' = 0 /\ Fused = 0
      BY <2>1, <2>2 DEF Fused
    <3>2. \A n : Users(n)' = Users(n)
      BY <2>2, PlacesStay
    <3>3. IsLeft(left, 0)
      BY <1>1, <3>1 DEF AnswerInv, LeftRight
    <3>4. Users(Fused)' = Users(0)
      BY <3>1, <3>2 DEF Users, Need
    <3> QED
      BY <2>2, <3>3, <3>4 DEF IsLeft
  <2>7. LeftRight' /\ RunRight'
    BY <1>3, <2>2, <2>6 DEF AnswerInv, LeftRight, RunRight, IsSeq, cursor
  <2> QED
    BY <2>5, <2>7 DEF AnswerInv
<1> QED
  BY <1>1, <1>2, <1>3, Zenon DEF Stage

(* CompileStream makes no phase. *)
LEMMA CompileStreamAnswers == ASSUME Inv, AnswerInv, CompileStream PROVE AnswerInv'
<1>1. /\ at = "text" /\ segments' = Split(request.text) /\ at' \in {"streaming", "refused"}
      /\ UNCHANGED <<ground, staged, left, plan, step, rows, cursor, procs>>
  BY DEF CompileStream
<1>2. /\ staged' = <<>> /\ plan' = <<>> /\ request \in Requests /\ registry' = registry /\ bridge' = bridge
  BY <1>1 DEF Inv, Typed, Staging, ground, cursor
<1>3. \A k \in 1..Len(segments') : Len(segments'[k]) \in Nat
  <2>1. request.text \in Seq(STRING)
    BY <1>2, RequestAssumption
  <2>2. IsSeq(Split(request.text))
    BY <2>1, SplitType
  <2>3. DOMAIN Split(request.text) = 1..Len(Split(request.text))
    BY <2>2, IsSeqType
  <2> QED
    BY <1>1, <2>1, <2>3, SegmentsAreTexts
<1>4. PlanRight'
  BY <1>2, <1>3 DEF AnswerInv, PlanRight, NoProcess
<1>5. LeftRight' /\ RunRight'
  BY <1>1, <1>2 DEF AnswerInv, LeftRight, RunRight, IsSeq
<1> QED
  BY <1>4, <1>5 DEF AnswerInv

(* Processes take nothing of what the caller gave. *)
LEMMA BashTakesNothing ==
  ASSUME Segmented, NEW e \in Nat, NEW n \in Nat, e + n <= Len(segments), \A j \in 1..n : ~IsSQL(segments[e + j])
  PROVE  Users(e + n) = Users(e)
<1>1. (\A k \in 0..Len(segments) : Users(k) \in Nat) /\ \A k \in 1..Len(segments) : Users(k) = Users(k - 1) + Need(k)
  BY UsersStep
<1>2. Len(segments) \in Nat
  BY IsSeqType DEF Segmented
<1> DEFINE T == {j \in 0..n : Users(e + j) = Users(e)}
<1>3. 0 \in T
  OBVIOUS
<1>4. ASSUME NEW j \in 0..n, j \in T, j < n PROVE j + 1 \in T
  <2>1. /\ j + 1 \in 1..n /\ j + 1 \in 0..n /\ e + (j + 1) \in 1..Len(segments) /\ (e + (j + 1)) - 1 = e + j
        /\ e + j \in 0..Len(segments)
    BY <1>2, <1>4
  <2>2. Need(e + (j + 1)) = 0
    BY <2>1 DEF Need
  <2>3. Users(e + (j + 1)) = Users(e + j) + 0
    BY <1>1, <2>1, <2>2
  <2>4. Users(e + (j + 1)) = Users(e)
    BY <1>1, <1>4, <2>1, <2>3
  <2> QED
    BY <2>1, <2>4
<1>5. 0..n \subseteq T
  <2> HIDE DEF T
  <2> QED
    BY <1>3, <1>4, UpTo
<1> QED
  BY <1>5

(* The next run of segments is made a phase that is right.                 *)
LEMMA PhaseAdds ==
  ASSUME Inv, AnswerInv, at = "stage", Len(staged) = Len(segments), Fused # Len(staged),
         NEW phase, phase.parts = SubSeq(staged, Fused + 1, RunEnd(Fused + 1)),
         phase.kind = "bash" <=> staged[Fused + 1].kind = "bash",
         plan' = Append(plan, phase),
         UNCHANGED <<ground, at, segments, staged, step, rows, cursor, procs>>,
         phase.kind # "bash" => /\ phase.from = IF plan = <<>> THEN "none" ELSE "_bridge"
                                /\ phase.params = Params(phase.parts)
                                /\ ~(Takes(phase.parts, Len(phase.parts)) > Len(left))
                                /\ left' = SubSeq(left, Takes(phase.parts, Len(phase.parts)) + 1, Len(left)),
         phase.kind = "bash" => left' = left
  PROVE  AnswerInv'
<1> DEFINE parts == phase.parts
<1>0. PICK e, m : e = Fused /\ m = Len(plan) + 1
  OBVIOUS
<1>1. /\ staged \in Seq(Part) /\ Len(staged) \in Nat /\ Len(segments) \in Nat /\ IsSeq(plan) /\ Len(plan) \in Nat
      /\ IsSeq(segments) /\ PlanRight /\ LeftRight /\ RunRight /\ Segmented /\ IsSeq(staged)
  <2>1. staged \in Seq(Part) /\ IsSeq(plan) /\ IsSeq(segments)
    BY DEF Inv, Typed
  <2>2. PlanRight /\ LeftRight /\ RunRight
    BY DEF AnswerInv
  <2>3. Segmented
    BY <2>1, <2>2 DEF PlanRight, Segmented
  <2>4. IsSeq(staged)
    BY <2>1 DEF IsSeq
  <2> QED
    BY <2>1, <2>2, <2>3, <2>4, IsSeqType
<1>2. e \in Nat /\ e + 1 \in 1..Len(staged) /\ EndAt(Len(plan)) = e
  <2>1. e \in 0..Len(staged)
    <3>1. CASE plan = <<>>
      BY <1>0, <1>1, <3>1 DEF Fused
    <3>2. CASE plan # <<>>
      BY <1>0, <1>1, <3>2 DEF Inv, Fusing
    <3> QED
      BY <3>1, <3>2
  <2> QED
    BY <1>0, <1>1, <2>1, FusedIsEnd
<1>3. PICK z : z = RunEnd(e + 1)
  OBVIOUS
<1>4. z \in (e + 1)..Len(staged) /\ \A k \in (e + 1)..z : Alike(staged[e + 1], staged[k])
  BY <1>1, <1>2, <1>3, RunEnds
<1>5. /\ parts = SubSeq(staged, e + 1, z) /\ Len(parts) = z - e /\ Len(parts) \in Nat /\ Len(parts) >= 1
      /\ IsSeq(parts) /\ \A j \in 1..Len(parts) : parts[j] = staged[e + j]
  <2>1. parts = SubSeq(staged, e + 1, z)
    BY <1>0, <1>3
  <2>2. e + 1 \in 1..(Len(staged) + 1) /\ z \in ((e + 1) - 1)..Len(staged) /\ z \in Nat
    BY <1>1, <1>2, <1>4
  <2> DEFINE u == SubSeq(staged, e + 1, z)
  <2>3. /\ u \in Seq(Part) /\ Len(u) = z - (e + 1) + 1
        /\ \A i \in 1..(z - (e + 1) + 1) : u[i] = staged[(e + 1) + i - 1]
    BY <1>1, <2>2, SubSeqProperties
  <2>4. z - (e + 1) + 1 = z - e /\ z - e \in Nat /\ z - e >= 1
    BY <1>2, <1>4, <2>2
  <2> HIDE DEF u
  <2>5. \A i \in 1..(z - e) : (e + 1) + i - 1 = e + i
    BY <1>2, <2>2
  <2>6. IsSeq(u)
    BY <2>3 DEF IsSeq
  <2> QED
    BY <2>1, <2>3, <2>4, <2>5, <2>6 DEF u
<1> HIDE DEF parts
<1>6. ASSUME NEW j \in 1..Len(parts)
      PROVE  /\ e + j \in 1..Len(staged) /\ parts[j].seg = e + j
             /\ parts[j].kind = "bash" <=> phase.kind = "bash"
             /\ parts[j].kind \in {"sql", "duck", "bash"} /\ (parts[j].kind = "sql" <=> IsSQL(segments[e + j]))
  <2>1. e + j \in 1..Len(staged) /\ e + j \in (e + 1)..z
    BY <1>1, <1>2, <1>4, <1>5
  <2>2. staged[e + j] \in Part /\ staged[e + j].seg = e + j /\ KindRight(e + j)
    BY <1>1, <2>1 DEF Inv, Typed, Staging, PlanRight
  <2>3. Alike(staged[e + 1], staged[e + j])
    BY <1>4, <2>1
  <2>4. phase.kind = "bash" <=> staged[e + 1].kind = "bash"
    BY <1>0
  <2>5. parts[j] = staged[e + j]
    BY <1>5
  <2> QED
    BY <2>1, <2>2, <2>3, <2>4, <2>5 DEF Alike, KindRight, Part
<1>7. e + Len(parts) = z /\ z \in Nat /\ z <= Len(staged)
  BY <1>1, <1>2, <1>4, <1>5
<1>8. IsLeft(left, e)
  BY <1>0, <1>1 DEF LeftRight
<1>9. request.given \in Nat
  BY RequestAssumption DEF Inv, Typed
<1>10. phase.kind # "bash" => ParamsFit(parts, phase.params) /\ IsLeft(left', z)
  <2> SUFFICES ASSUME phase.kind # "bash" PROVE ParamsFit(parts, phase.params) /\ IsLeft(left', z)
    OBVIOUS
  <2>1. IsRun(parts, e)
    <3>1. \A j \in 1..Len(parts) : parts[j].kind \in {"sql", "duck"}
      BY <1>6
    <3> QED
      BY <1>2, <1>5, <1>6, <1>7, <3>1 DEF IsRun
  <2>2. Takes(parts, Len(parts)) <= Len(left)
    <3>1. Takes(parts, Len(parts)) \in Nat
      <4>1. Len(parts) \in 0..Len(parts)
        <5>1. \A n \in Nat : n \in 0..n
          OBVIOUS
        <5> QED
          BY <1>5, <5>1, Zenon
      <4> QED
        BY <1>1, <2>1, <4>1, TakesMeans
    <3>2. Len(left) \in Nat
      <4>1. Users(e) \in Nat
        <5>1. e \in 0..Len(segments)
          BY <1>1, <1>2
        <5> QED
          BY <1>1, <5>1, UsersStep
      <4>2. request.given - Users(e) \in Nat
        BY <1>8, <1>9, <4>1 DEF IsLeft
      <4> QED
        BY <1>8, <4>1, <4>2, UsersFromType DEF IsLeft
    <3>3. ~(Takes(parts, Len(parts)) > Len(left))
      BY DEF parts
    <3> QED
      BY <3>1, <3>2, <3>3
  <2>3. /\ ParamsFit(parts, Params(parts))
        /\ IsLeft(SubSeq(left, Takes(parts, Len(parts)) + 1, Len(left)), e + Len(parts))
    BY <1>1, <1>8, <1>9, <2>1, <2>2, ParamsMeans
  <2>4. phase.params = Params(parts) /\ left' = SubSeq(left, Takes(parts, Len(parts)) + 1, Len(left))
    BY DEF parts
  <2> QED
    BY <1>7, <2>3, <2>4
<1>11. phase.kind = "bash" => IsLeft(left', z)
  <2> SUFFICES ASSUME phase.kind = "bash" PROVE IsLeft(left', z)
    OBVIOUS
  <2>1. \A j \in 1..Len(parts) : ~IsSQL(segments[e + j])
    BY <1>6
  <2>2. e + Len(parts) <= Len(segments)
    BY <1>7
  <2>3. Users(e + Len(parts)) = Users(e)
    BY <1>1, <1>2, <1>5, <2>1, <2>2, BashTakesNothing
  <2> QED
    BY <1>7, <1>8, <2>3 DEF IsLeft
<1>12. registry' = registry /\ segments' = segments /\ staged' = staged /\ request' = request /\ at' = "stage"
  BY DEF ground
<1>13. /\ IsSeq(plan') /\ Len(plan') = m /\ plan'[m] = phase
       /\ \A n \in 1..Len(plan) : plan'[n] = plan[n]
  BY <1>0, <1>1, AppendIsSeq
<1>14. m \in Nat /\ m - 1 = Len(plan) /\ m # 0
  BY <1>0, <1>1
<1>15. EndAt(m)' = z
  <2>1. Len(parts) \in 1..Len(parts)
    <3>1. \A n \in Nat : n >= 1 => n \in 1..n
      OBVIOUS
    <3> QED
      BY <1>5, <3>1, Zenon
  <2>2. parts[Len(parts)].seg = z
    BY <1>6, <1>7, <2>1
  <2>3. plan'[m].parts = parts
    BY <1>13 DEF parts
  <2> QED
    BY <1>14, <2>2, <2>3 DEF EndAt
<1>16. EndAt(m - 1)' = e
  <2>1. CASE Len(plan) = 0
    <3>1. EndAt(m - 1)' = 0
      BY <1>14, <2>1 DEF EndAt
    <3> QED
      BY <1>2, <2>1, <3>1 DEF EndAt
  <2>2. CASE Len(plan) # 0
    <3>1. m - 1 # 0 /\ m - 1 \in 1..Len(plan)
      BY <1>1, <1>14, <2>2
    <3>2. plan'[m - 1] = plan[m - 1]
      BY <1>13, <3>1
    <3>3. EndAt(m - 1)' = EndAt(m - 1)
      BY <3>2 DEF EndAt
    <3> QED
      BY <1>2, <1>14, <3>3
  <2> QED
    BY <2>1, <2>2
<1>17. PhaseRight(m)'
  <2>1. plan'[m].parts = parts /\ plan'[m].kind = phase.kind /\ plan'[m] = phase
    BY <1>13 DEF parts
  <2>2. IsSeq(plan[m].parts)'
    BY <1>5, <2>1 DEF IsSeq
  <2>3. EndAt(m - 1)' \in Nat /\ EndAt(m)' = EndAt(m - 1)' + Len(parts) /\ EndAt(m)' <= Len(staged')
    BY <1>2, <1>7, <1>12, <1>15, <1>16
  <2>4. \A j \in 1..Len(parts) : parts[j] = staged'[EndAt(m - 1)' + j]
    BY <1>5, <1>12, <1>16
  <2>5. \A j \in 1..Len(parts) : parts[j].kind = "bash" <=> plan'[m].kind = "bash"
    BY <1>6, <2>1
  <2>6. ASSUME phase.kind # "bash"
        PROVE  plan'[m].from = (IF m = 1 THEN "none" ELSE "_bridge") /\ ParamsFit(plan[m].parts, plan[m].params)'
    <3>1. plan = <<>> <=> m = 1
      <4>1. plan = <<>> <=> Len(plan) = 0
        BY <1>1 DEF IsSeq
      <4> QED
        BY <1>1, <1>14, <4>1
    <3>2. PICK c : c = phase.params
      OBVIOUS
    <3>3. ParamsFit(parts, c)' <=> ParamsFit(parts, c)
      BY <1>12, FitStays
    <3>4. ParamsFit(parts, c)
      BY <1>10, <2>6, <3>2
    <3>5. plan'[m].params = c
      BY <2>1, <3>2
    <3>6. ParamsFit(plan[m].parts, plan[m].params)'
      BY <2>1, <3>3, <3>4, <3>5 DEF ParamsFit
    <3> QED
      BY <2>1, <2>6, <3>1, <3>6
  <2> QED
    BY <1>5, <2>1, <2>2, <2>3, <2>4, <2>5, <2>6 DEF PhaseRight
<1>18. ASSUME NEW n \in 1..Len(plan) PROVE PhaseRight(n)'
  <2>1. n = 1 \/ n - 1 \in 1..Len(plan)
    BY <1>1
  <2>2. plan'[n] = plan[n] /\ (n = 1 \/ plan'[n - 1] = plan[n - 1]) /\ PhaseRight(n)
    BY <1>1, <1>13, <2>1 DEF PlanRight
  <2> QED
    BY <1>12, <2>2, PhaseStays
<1>19. PlanRight'
  <2>1. \A n \in 1..Len(plan') : PhaseRight(n)'
    <3>1. \A n \in 1..Len(plan') : n \in 1..Len(plan) \/ n = m
      BY <1>1, <1>13, <1>14
    <3> QED
      BY <1>17, <1>18, <3>1
  <2>2. \A k \in 1..Len(staged') : KindRight(k)'
    BY <1>1, <1>12, SQLStays DEF PlanRight, KindRight
  <2> QED
    BY <1>1, <1>12, <2>1, <2>2 DEF PlanRight, NoProcess
<1>20. LeftRight'
  <2>1. Fused' = z
    <3>1. plan' # <<>> /\ Len(plan') = m
      BY <1>13, <1>14
    <3>2. EndAt(m)' = Fused'
      BY <1>14, <3>1 DEF EndAt, Fused
    <3> QED
      BY <1>15, <3>2
  <2>2. IsLeft(left', z)
    BY <1>10, <1>11
  <2>3. Users(Fused)' = Users(z)
    <3>1. \A k : Users(k)' = Users(k)
      BY <1>12, PlacesStay
    <3> QED
      BY <2>1, <3>1 DEF Users, Need
  <2>4. IsLeft(left, Fused)'
    BY <1>12, <2>2, <2>3 DEF IsLeft
  <2> QED
    BY <1>12, <2>4 DEF LeftRight
<1>21. RunRight'
  BY <1>1, <1>12 DEF RunRight, IsSeq, cursor
<1> QED
  BY <1>19, <1>20, <1>21 DEF AnswerInv

(* Fuse gives a new run the parameters that are left for it. *)
LEMMA FuseAnswers == ASSUME Inv, AnswerInv, Fuse PROVE AnswerInv'
<1>1. at = "stage" /\ Len(staged) = Len(segments)
  BY DEF Fuse
<1>2. Len(staged) \in Nat /\ step = 1 /\ RunRight /\ IsSeq(bridge)
  BY <1>1, IsSeqType DEF Inv, Typed, Running, AnswerInv, RunRight
<1>3. CASE Refuse
  <2>1. at' = "refused" /\ UNCHANGED <<ground, compiled, step, rows, cursor, procs>>
    BY <1>3 DEF Refuse, End
  <2>2. IsSeq(bridge)'
    BY <1>2, <2>1 DEF IsSeq, cursor
  <2> QED
    BY <2>1, <2>2, AnswerStays
<1>4. CASE End("run")
  <2>1. at' = "run" /\ UNCHANGED <<ground, compiled, step, rows, cursor, procs>>
    BY <1>4 DEF End
  <2>2. PlanRight'
    BY <2>1, PlanStays DEF AnswerInv
  <2>3. LeftRight' /\ RunRight'
    BY <1>2, <2>1 DEF LeftRight, RunRight, IsSeq, cursor
  <2> QED
    BY <2>2, <2>3 DEF AnswerInv
<1>5. ASSUME Fused # Len(staged), ~Refuse PROVE AnswerInv'
  <2> DEFINE i == Fused + 1
             parts == SubSeq(staged, i, RunEnd(i))
             from == IF plan = <<>> THEN "none" ELSE "_bridge"
  <2>1. parts[1] = staged[i]
    <3>1. Fused \in 0..Len(staged)
      BY <1>2 DEF Inv, Fusing, Fused
    <3>2. i \in 1..Len(staged) /\ staged \in Seq(Part)
      BY <1>2, <1>5, <3>1 DEF Inv, Typed
    <3>3. RunEnd(i) \in i..Len(staged)
      BY <3>2, RunEnds
    <3> HIDE DEF i
    <3> QED
      BY <1>2, <3>2, <3>3
  <2>2. CASE parts[1].kind = "bash"
    <3> DEFINE phase == [kind |-> "bash", parts |-> parts]
    <3>1. /\ plan' = Append(plan, phase)
          /\ UNCHANGED <<ground, at, segments, staged, left, step, rows, cursor, procs>>
      BY <1>5, <2>2 DEF Fuse
    <3>2. phase.parts = SubSeq(staged, Fused + 1, RunEnd(Fused + 1)) /\ phase.kind = "bash"
      OBVIOUS
    <3> HIDE DEF parts, phase
    <3> QED
      BY <1>1, <1>5, <2>1, <2>2, <3>1, <3>2, PhaseAdds
  <2>3. CASE parts[1].kind # "bash"
    <3> DEFINE phase == [kind |-> "duck", from |-> from, parts |-> parts, params |-> Params(parts)]
    <3>1. /\ plan' = Append(plan, phase)
          /\ ~(Takes(parts, Len(parts)) > Len(left))
          /\ left' = SubSeq(left, Takes(parts, Len(parts)) + 1, Len(left))
          /\ UNCHANGED <<ground, at, segments, staged, step, rows, cursor, procs>>
      <4>1. ~(Takes(parts, Len(parts)) > Len(left))
        BY <1>5, <2>3 DEF Fuse
      <4>2. /\ plan' = Append(plan, phase)
            /\ UNCHANGED <<ground, at, segments, staged, step, rows, cursor, procs>>
        BY <1>5, <2>3 DEF Fuse
      <4>3. left' = SubSeq(left, Takes(parts, Len(parts)) + 1, Len(left))
        BY <1>5, <2>3 DEF Fuse
      <4> QED
        BY <4>1, <4>2, <4>3
    <3>2. /\ phase.parts = SubSeq(staged, Fused + 1, RunEnd(Fused + 1)) /\ phase.kind = "duck"
          /\ phase.from = from /\ phase.params = Params(parts) /\ phase.parts = parts
      OBVIOUS
    <3> HIDE DEF parts, phase
    <3> QED
      BY <1>1, <1>5, <2>1, <2>3, <3>1, <3>2, PhaseAdds
  <2> QED
    BY <2>2, <2>3
<1> QED
  BY <1>3, <1>4, <1>5 DEF Fuse

(* No user registers another operator as search or as grep. *)
LEMMA NoProcessAtFirst == ASSUME Init PROVE NoProcess({"search", "grep"})
<1> DEFINE search == Operator("search", {"pure"}, TRUE, "source", FALSE, TRUE)
           grep == Operator("grep", {"pure"}, TRUE, "middle", FALSE, FALSE)
<1>1. search \in Builtins /\ grep \in Builtins
  BY Zenon DEF Builtins
<1>2. search.name = "search" /\ grep.name = "grep" /\ search.duck # "none" /\ grep.duck # "none"
  BY DEF Operator
<1> HIDE DEF search, grep
<1>3. registry[Lower("search")] = search /\ registry[Lower("grep")] = grep
  BY <1>1, <1>2, Registry, Zenon
<1>4. ASSUME NEW w \in DOMAIN registry, registry[w].name \in {"search", "grep"} PROVE registry[w].duck # "none"
  <2>1. w = Lower(registry[w].name)
    BY Registry, Zenon
  <2>2. CASE registry[w].name = "search"
    BY <1>2, <1>3, <2>1, <2>2, Zenon
  <2>3. CASE registry[w].name = "grep"
    BY <1>2, <1>3, <2>1, <2>3, Zenon
  <2> QED
    BY <1>4, <2>2, <2>3
<1> QED
  BY <1>4 DEF NoProcess

(* Every step keeps what is known of the answer. *)
LEMMA NextAnswers == Inv /\ AnswerInv /\ [Next]_vars => AnswerInv'
<1> SUFFICES ASSUME Inv, AnswerInv, [Next]_vars PROVE AnswerInv'
  OBVIOUS
<1>1. CASE ReadText \/ Stage \/ Fuse \/ CompileStream
  BY <1>1, ReadTextAnswers, StageAnswers, FuseAnswers, CompileStreamAnswers
<1>2. CASE RunDuck \/ Collect
  BY <1>2, RunDuckAnswers, CollectAnswers
<1>3. CASE Spawn \/ TimesOut \/ \E p \in 1..Len(procs) : ProcessEnds(p)
  BY <1>3, ChainAnswers
<1>4. CASE UNCHANGED vars
  <2>1. UNCHANGED <<ground, compiled, step, rows, bridge>> /\ at' = at /\ IsSeq(bridge)'
    BY <1>4 DEF vars, cursor, AnswerInv, RunRight, IsSeq
  <2> QED
    BY <2>1, AnswerStays
<1> QED
  BY <1>1, <1>2, <1>3, <1>4 DEF Next

(* Whatever the text, the parameters and the plan, the rows of an answer   *)
(* are those of the text's segments in their order, over the window asked  *)
(* for, each with the parameters that are its own.                         *)
THEOREM AnswerRight == Spec => []AnswerIsTheTexts
<1>1. Init => AnswerInv
  BY NoProcessAtFirst, InitAnswers
<1>2. Init => Inv
  BY InitHolds
<1>3. Inv /\ AnswerInv /\ [Next]_vars => Inv' /\ AnswerInv'
  BY NextKeeps, NextAnswers
<1>4. Inv /\ AnswerInv => AnswerIsTheTexts
  <2> SUFFICES ASSUME Inv, AnswerInv, at = "done" PROVE AnswerIsTheTexts
    BY Zenon DEF AnswerIsTheTexts
  <2> DEFINE mine(k) == IF IsSQL(segments[k])
                     THEN [i \in 1..NeedOf(segments[k]) |->
                             <<"user", i + FoldFunction(+, 0, [j \in 1..(k - 1) |->
                                IF IsSQL(segments[j]) THEN NeedOf(segments[j]) ELSE 0])>>]
                     ELSE [i \in 1..ParamsOf(Op(segments[k])) |-> <<"op", k, i>>]
             bash(k) == k \in DOMAIN segments /\ staged[k].kind = "bash"
  <2>1. ASSUME NEW k PROVE mine(k) = Own(k)
    BY Zenon DEF Own, Users, Total, Need
  <2>2. RowsRight(Len(segments)) /\ Len(staged) = Len(segments)
    BY DEF AnswerInv, RunRight, Inv, Staging, Compiled
  <2>3. DOMAIN rows = 1..Len(rows) /\ Len(rows) = Len(segments) /\ DOMAIN segments = 1..Len(segments)
        /\ Len(segments) \in Nat
    BY <2>2, IsSeqType DEF RowsRight, Inv, Typed
  <2> HIDE DEF mine
  <2>4. ASSUME NEW k \in DOMAIN rows
        PROVE  /\ rows[k].seg = k /\ rows[k].params = mine(k)
               /\ \/ rows[k].window = (IF k = 1 THEN "asked" ELSE "none")
                  \/ rows[k].window = "part" /\ bash(k) /\ bash(k + 1)
    <3>1. k \in 1..Len(segments)
      BY <2>3
    <3>2. rows[k].seg = k /\ rows[k].params = mine(k)
      BY <2>1, <2>2, <3>1 DEF RowsRight
    <3>3. CASE rows[k].window = (IF k = 1 THEN "asked" ELSE "none")
      BY <3>2, <3>3
    <3>4. CASE /\ rows[k].window = "part"
               /\ staged[k].kind = "bash" /\ k < Len(staged) /\ staged[k + 1].kind = "bash"
      <4>1. k + 1 \in 1..Len(segments)
        BY <2>2, <2>3, <3>1, <3>4
      <4> QED
        BY <2>3, <3>1, <3>2, <3>4, <4>1
    <3> QED
      BY <2>2, <3>1, <3>3, <3>4 DEF RowsRight
  <2> QED
    BY <2>3, <2>4, Zenon DEF AnswerIsTheTexts, mine
<1> QED
  BY <1>1, <1>2, <1>3, <1>4, PTL DEF Spec
=============================================================================
