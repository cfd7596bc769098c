--------------------------- MODULE TaskLifeProofs ---------------------------
(***************************************************************************)
(* What the task log tells of a task, for any number of tasks,             *)
(* cancellations, failing appends and crashes: a done query has its rows,  *)
(* a settled task stays settled, and a wrapper that ended has said so.     *)
(***************************************************************************)
EXTENDS TaskLife, NumberLemmas, SequenceTheorems, TLAPS

-----------------------------------------------------------------------------
(* The inductive invariant *)

Places == {"none", "over", "gone", "birth"} \cup Live

Blocks == {b \in [task : Tasks, what : States \cup {"result", "void"}] :
             b.what = "result" => b.task \in Queries}

TypeInv ==
  /\ log \in Seq(Lines \cup {Garbled}) /\ unended \in BOOLEAN
  /\ unended => log # <<>>
  /\ result \subseteq Queries /\ expired \subseteq Queries
  /\ phase \in {"up", "closing", "draining", "shut", "dead"}
  /\ bridge \in Seq(Blocks) /\ busy \in BOOLEAN
  /\ busy => bridge # <<>> /\ bridge[1].what # "void"
  /\ phase = "shut" => bridge = <<>>
  /\ pc \in [Tasks -> Places]
  /\ \A t \in Tasks : pc[t] = "persist" => t \in Queries
  /\ hit \subseteq Tasks /\ bad \subseteq Tasks /\ due \subseteq Tasks /\ watch \subseteq Tasks
  /\ cuts \in [Tasks -> SUBSET {"fresh", "fail", "drop", "disk", "shut"}]
  /\ cancels \in Nat /\ mishaps \in Nat

In(b) == \E i \in DOMAIN bridge : bridge[i] = b

(* The i-th block is one of the task's, still to do. *)
Of(t, i) == bridge[i].task = t /\ bridge[i].what # "void"

Clear(t) == \A i \in DOMAIN bridge : ~Of(t, i)

(* The bridge holds of a task the block it awaits, and the one that ran    *)
(* when the wrapper was cancelled, which comes first.                      *)
LeftRunning(t, i) ==
  /\ pc[t] \in {"drop", "over"} /\ i = 1 /\ busy
  /\ pc[t] = "drop" => bridge[i].what \in {"running", "result", "done"} /\ In(Awaited(t))

Queued(t) ==
  /\ \A i \in DOMAIN bridge : Of(t, i) => (pc[t] \in Waiting /\ bridge[i] = Awaited(t)) \/ LeftRunning(t, i)
  /\ \A i, j \in DOMAIN bridge :
       pc[t] \in Waiting /\ bridge[i] = Awaited(t) /\ bridge[j] = Awaited(t) => i = j
  /\ t \in bad => pc[t] \in Waiting /\ ~In(Awaited(t))

Kept(t) == t \in result \cup expired

Has(t, states) == \E i \in DOMAIN log : \E s \in states : log[i] = Line(t, s)

Spoilt == \E i \in DOMAIN log : log[i] = Garbled

(* The rows come before the done line, on the bridge and in the log. *)
RowsFirst(t) ==
  t \in Queries =>
    /\ Has(t, {"done"}) => Kept(t)
    /\ In(Block(t, "done")) => Kept(t)
    /\ pc[t] = "persist" /\ t \notin bad /\ ~In(Block(t, "result")) => Kept(t)

(* After a settling line nothing of the task comes but a cancelled line    *)
(* after a done one.                                                       *)
Settles(t) ==
  /\ Has(t, {"failed", "cancelled"}) => pc[t] \in {"fail", "drop", "over", "gone"} /\ Clear(t)
  /\ Has(t, {"done"}) =>
       /\ pc[t] \in {"settle", "drop", "over", "gone"}
       /\ pc[t] = "settle" => t \notin bad
       /\ \A i \in DOMAIN bridge : Of(t, i) => bridge[i].what = "cancelled"
  /\ \A i, j \in DOMAIN log :
       i < j /\ log[i].state \in Settled /\ log[i] = Line(t, log[i].state) /\ log[j] = Line(t, log[j].state)
         => log[j].state \in Settled

(* A wrapper past its last append has its settling line. *)
Recorded(t) ==
  /\ pc[t] \in {"settle", "fail", "drop"} /\ t \notin bad /\ ~In(Awaited(t)) => Spoilt \/ Has(t, Settled)
  /\ pc[t] = "over" /\ cuts[t] = {} => Clear(t) /\ (Spoilt \/ Has(t, Settled) \/ ~Has(t, States))

TaskInv(t) == Queued(t) /\ RowsFirst(t) /\ Settles(t) /\ Recorded(t)

Inv == TypeInv /\ \A t \in Tasks : TaskInv(t)

-----------------------------------------------------------------------------
(* The queue of the bridge and the log *)

LEMMA Appended ==
  ASSUME NEW S, NEW q \in Seq(S), NEW e \in S
  PROVE  /\ Append(q, e) \in Seq(S)
         /\ Len(q) \in Nat /\ DOMAIN q = 1..Len(q) /\ DOMAIN Append(q, e) = 1..(Len(q) + 1)
         /\ Append(q, e)[Len(q) + 1] = e
         /\ \A i \in DOMAIN q : i \in DOMAIN Append(q, e) /\ Append(q, e)[i] = q[i]
         /\ \A i \in DOMAIN Append(q, e) : i \in DOMAIN q \/ i = Len(q) + 1
OBVIOUS

LEMMA Shifted ==
  ASSUME NEW S, NEW q \in Seq(S), q # <<>>
  PROVE  /\ Tail(q) \in Seq(S) /\ Head(q) = q[1] /\ q[1] \in S /\ 1 \in DOMAIN q
         /\ \A i \in DOMAIN Tail(q) : i \in Nat /\ i + 1 \in DOMAIN q /\ Tail(q)[i] = q[i + 1] /\ i >= 1
         /\ \A i \in DOMAIN q : i = 1 \/ (i - 1 \in DOMAIN Tail(q) /\ Tail(q)[i - 1] = q[i])
OBVIOUS

(* An append to the log: one more line, or, behind a line that was not     *)
(* ended, one readable line less.                                          *)
LEMMA LineAdded ==
  ASSUME TypeInv, NEW l \in Lines \cup {Garbled}, log' = AddLine(l)
  PROVE  /\ log' \in Seq(Lines \cup {Garbled}) /\ log' # <<>>
         /\ \/ log' = Append(log, l)
            \/ /\ \E i \in DOMAIN log' : log'[i] = Garbled
               /\ DOMAIN log' = DOMAIN log
               /\ \A i \in DOMAIN log : log'[i] = log[i] \/ log'[i] = Garbled
<1>1. log \in Seq(Lines \cup {Garbled}) /\ (unended => log # <<>>)
  BY DEF TypeInv
<1>2. CASE ~unended
  BY <1>1, <1>2 DEF AddLine
<1>3. CASE unended
  <2> DEFINE n == Len(log)  S == Lines \cup {Garbled}
  <2>1. n \in Nat /\ n \in 1..n /\ log \in [1..n -> S] /\ Garbled \in S /\ DOMAIN log = 1..n
    BY <1>1, <1>3
  <2>2. log' = [log EXCEPT ![n] = Garbled]
    BY <1>3 DEF AddLine
  <2> HIDE DEF n, S
  <2>3. log' \in [1..n -> S] /\ log'[n] = Garbled /\ \A i \in 1..n : log'[i] = log[i] \/ log'[i] = Garbled
    BY <2>1, <2>2
  <2>4. log' \in Seq(S)
    BY <2>1, <2>3, SeqDef
  <2>5. log' # <<>>
    BY <2>1, <2>3
  <2> QED
    BY <2>1, <2>3, <2>4, <2>5 DEF S
<1> QED
  BY <1>2, <1>3 DEF TypeInv

(* What is withdrawn is passed over; all else stays where it is. *)
LEMMA WithdrawnFacts ==
  ASSUME TypeInv, NEW t \in Tasks
  PROVE  /\ Withdrawn(t) \in Seq(Blocks) /\ DOMAIN Withdrawn(t) = DOMAIN bridge
         /\ \A i \in DOMAIN bridge :
              Withdrawn(t)[i] = IF bridge[i] = Awaited(t) /\ ~(busy /\ i = 1) THEN Block(t, "void") ELSE bridge[i]
         /\ bridge = <<>> => Withdrawn(t) = <<>>
<1> DEFINE n == Len(bridge)
<1>1. bridge \in Seq(Blocks) /\ n \in Nat /\ DOMAIN bridge = 1..n /\ \A i \in 1..n : bridge[i] \in Blocks
  BY DEF TypeInv
<1>2. Block(t, "void") \in Blocks
  BY DEF Blocks, Block
<1>3. Withdrawn(t) = [i \in 1..n |-> IF bridge[i] = Awaited(t) /\ ~(busy /\ i = 1) THEN Block(t, "void") ELSE bridge[i]]
  BY DEF Withdrawn
<1> HIDE DEF n
<1>4. Withdrawn(t) \in [1..n -> Blocks]
  BY <1>1, <1>2, <1>3
<1>5. Withdrawn(t) \in Seq(Blocks)
  BY <1>1, <1>4, SeqDef
<1>6. bridge = <<>> => Withdrawn(t) = <<>>
  <2> SUFFICES ASSUME bridge = <<>> PROVE Withdrawn(t) = <<>>
    OBVIOUS
  <2>1. n = 0
    BY DEF n
  <2> QED
    BY <1>4, <1>5, <2>1
<1> QED
  BY <1>1, <1>3, <1>5, <1>6

-----------------------------------------------------------------------------
(* A step of one wrapper *)

(* Nothing of the task's is moved. *)
Untouched(u) ==
  /\ \A i \in DOMAIN bridge : bridge[i].task = u => i \in DOMAIN bridge' /\ bridge'[i] = bridge[i]
  /\ \A i \in DOMAIN bridge' : bridge'[i].task = u => i \in DOMAIN bridge /\ bridge[i] = bridge'[i]

LEMMA OthersKept ==
  ASSUME NEW u \in Tasks, TaskInv(u), Untouched(u), pc'[u] = pc[u], u \in bad' <=> u \in bad,
         cuts'[u] = cuts[u], UNCHANGED <<log, result, expired>>, busy => busy'
  PROVE  TaskInv(u)'
<1>1. Awaited(u)' = Awaited(u) /\ Awaited(u).task = u
  BY DEF Awaited, Block
<1>2. ASSUME NEW b, b.task = u PROVE In(b)' <=> In(b)
  BY <1>2 DEF In, Untouched
<1>3. In(Awaited(u))' <=> In(Awaited(u))
  BY <1>1, <1>2 DEF In
<1>4. /\ \A i \in DOMAIN bridge' : Of(u, i)' => i \in DOMAIN bridge /\ bridge'[i] = bridge[i] /\ Of(u, i)
  BY DEF Of, Untouched
<1>5. Queued(u)'
  <2>1. \A i \in DOMAIN bridge' :
          Of(u, i)' => (pc'[u] \in Waiting /\ bridge'[i] = Awaited(u)') \/ LeftRunning(u, i)'
    BY <1>1, <1>3, <1>4 DEF TaskInv, Queued, LeftRunning
  <2>2. \A i, j \in DOMAIN bridge' :
          pc'[u] \in Waiting /\ bridge'[i] = Awaited(u)' /\ bridge'[j] = Awaited(u)' => i = j
    BY <1>1 DEF TaskInv, Queued, Untouched
  <2>3. u \in bad' => pc'[u] \in Waiting /\ ~In(Awaited(u))'
    BY <1>3 DEF TaskInv, Queued
  <2> QED
    BY <2>1, <2>2, <2>3 DEF Queued
<1>6. \A s : Has(u, s)' <=> Has(u, s)
  BY DEF Has
<1>7. RowsFirst(u)'
  <2>1. \A w : In(Block(u, w))' <=> In(Block(u, w))
    BY <1>2 DEF Block, In
  <2> QED
    BY <1>6, <2>1 DEF TaskInv, RowsFirst, Kept
<1>8. Clear(u) => Clear(u)'
  BY <1>4 DEF Clear
<1>9. Settles(u)'
  <2>1. (\A i \in DOMAIN bridge : Of(u, i) => bridge[i].what = "cancelled")
           => (\A i \in DOMAIN bridge' : Of(u, i)' => bridge'[i].what = "cancelled")
    BY <1>4
  <2> QED
    BY <1>6, <1>8, <2>1 DEF TaskInv, Settles
<1>10. Recorded(u)'
  <2>1. Spoilt' <=> Spoilt
    BY DEF Spoilt
  <2> QED
    BY <1>3, <1>6, <1>8, <2>1 DEF TaskInv, Recorded
<1> QED
  BY <1>5, <1>7, <1>9, <1>10 DEF TaskInv

(* Whoever is neither waiting nor ended has nothing on the bridge; nor has *)
(* he whose block is over, unless he was cancelled.                        *)
LEMMA ClearFacts ==
  ASSUME NEW t \in Tasks, TaskInv(t),
         pc[t] \in {"none", "fresh", "body"} \/ (pc[t] \in Waiting /\ ~In(Awaited(t)))
  PROVE  Clear(t)
<1>1. ASSUME NEW i \in DOMAIN bridge, Of(t, i) PROVE FALSE
  <2>1. pc[t] \in Waiting => bridge[i] # Awaited(t)
    BY DEF In, Waiting
  <2>2. LeftRunning(t, i)
    BY <1>1, <2>1 DEF TaskInv, Queued, Waiting
  <2> QED
    BY <2>2 DEF LeftRunning, Waiting
<1> QED
  BY <1>1 DEF Clear

(* The coroutine goes on without a block. *)
LEMMA GoesKeeps ==
  ASSUME TypeInv, NEW t \in Tasks, TaskInv(t), Clear(t), NEW p \in {"fresh", "body", "over"},
         pc' = [pc EXCEPT ![t] = p], UNCHANGED <<log, result, expired, bridge>>, t \notin bad',
         p # "over" => ~Has(t, Settled),
         p = "over" => cuts'[t] # {} \/ Spoilt \/ Has(t, Settled)
  PROVE  TaskInv(t)'
<1>1. pc'[t] = p
  BY DEF TypeInv
<1>2. Clear(t)'
  BY DEF Clear, Of
<1>3. \A s : Has(t, s)' <=> Has(t, s)
  BY DEF Has
<1>4. Has(t, {"failed", "cancelled"}) => Has(t, Settled)
  BY DEF Has, Settled
<1>5. Has(t, {"done"}) => Has(t, Settled)
  BY DEF Has, Settled
<1>6. Queued(t)'
  BY <1>1, <1>2 DEF Queued, Clear, Waiting
<1>7. RowsFirst(t)'
  BY <1>1, <1>3 DEF TaskInv, RowsFirst, Kept, In
<1>8. Settles(t)'
  <2>1. \A i, j \in DOMAIN log' :
          i < j /\ log'[i].state \in Settled /\ log'[i] = Line(t, log'[i].state) /\ log'[j] = Line(t, log'[j].state)
            => log'[j].state \in Settled
    BY DEF TaskInv, Settles
  <2>2. \A i \in DOMAIN bridge' : ~Of(t, i)'
    BY <1>2 DEF Clear
  <2> QED
    BY <1>1, <1>2, <1>3, <1>4, <1>5, <2>1, <2>2 DEF Settles
<1>9. Recorded(t)'
  <2>1. Spoilt' <=> Spoilt
    BY DEF Spoilt
  <2> QED
    BY <1>1, <1>2, <1>3, <2>1 DEF Recorded
<1> QED
  BY <1>6, <1>7, <1>8, <1>9 DEF TaskInv

(* What the coroutine can await, and what the bridge then has of it. *)
LEMMA AwaitsFacts ==
  ASSUME NEW t \in Tasks, NEW p \in Waiting, p = "persist" => t \in Queries
  PROVE  /\ Block(t, Awaits(t, p)) \in Blocks /\ Block(t, Awaits(t, p)).task = t
         /\ Awaits(t, p) # "void"
         /\ Awaits(t, p) = "done" => p = "settle"
         /\ Awaits(t, p) = "failed" => p = "fail"
         /\ Awaits(t, p) = "cancelled" => p = "drop"
         /\ Awaits(t, p) = "result" => p = "persist"
         /\ p = "persist" => Awaits(t, p) = "result"
         /\ p = "drop" => Awaits(t, p) = "cancelled"
         /\ p \in {"mark", "persist", "settle"} => Awaits(t, p) \in {"running", "result", "done"}
         /\ p = "settle" => Awaits(t, p) = "done"
         /\ p = "fail" => Awaits(t, p) = "failed"
<1>1. /\ Awaits(t, "birth") \in {"running", "pending"} /\ Awaits(t, "mark") = "running"
      /\ Awaits(t, "persist") = "result" /\ Awaits(t, "settle") = "done"
      /\ Awaits(t, "fail") = "failed" /\ Awaits(t, "drop") = "cancelled"
  BY DEF Awaits
<1>2. p \in {"birth", "mark", "persist", "settle", "fail", "drop"}
  BY DEF Waiting
<1>3. Awaits(t, p) \in States \cup {"result"} /\ (Awaits(t, p) = "result" => t \in Queries)
  BY <1>1, <1>2 DEF States
<1>4. Block(t, Awaits(t, p)) \in Blocks
  BY <1>3 DEF Block, Blocks
<1> QED
  BY <1>1, <1>2, <1>4 DEF Block

(* A block of the task joins the queue of the bridge. *)
LEMMA JoinsOthers ==
  ASSUME TypeInv, NEW b \in Blocks, NEW u, b.task # u, bridge' = Append(bridge, b)
  PROVE  Untouched(u)
<1>1. /\ \A i \in DOMAIN bridge : i \in DOMAIN bridge' /\ bridge'[i] = bridge[i]
      /\ bridge'[Len(bridge) + 1] = b
      /\ \A i \in DOMAIN bridge' : i \in DOMAIN bridge \/ i = Len(bridge) + 1
  BY Appended DEF TypeInv
<1> QED
  BY <1>1 DEF Untouched

(* The coroutine hands over its next block. *)
LEMMA PostsKeeps ==
  ASSUME TypeInv, NEW t \in Tasks, TaskInv(t), Clear(t), NEW p \in Waiting,
         p = "persist" => t \in Queries, p = "settle" /\ t \in Queries => Kept(t),
         ~Has(t, Settled), t \notin bad',
         pc' = [pc EXCEPT ![t] = p], bridge' = Append(bridge, Block(t, Awaits(t, p))),
         UNCHANGED <<log, result, expired>>
  PROVE  TaskInv(t)'
<1> DEFINE b == Block(t, Awaits(t, p))
<1>1. pc'[t] = p /\ Awaited(t)' = b
  BY DEF TypeInv, Awaited
<1>2. /\ b \in Blocks /\ b.task = t /\ b.what = Awaits(t, p)
      /\ Awaits(t, p) = "done" => p = "settle"
      /\ p = "persist" => b = Block(t, "result")
  BY AwaitsFacts DEF Block
<1>3. /\ \A i \in DOMAIN bridge : i \in DOMAIN bridge' /\ bridge'[i] = bridge[i]
      /\ Len(bridge) + 1 \in DOMAIN bridge' /\ bridge'[Len(bridge) + 1] = b
      /\ \A i \in DOMAIN bridge' : i \in DOMAIN bridge \/ i = Len(bridge) + 1
  BY <1>2, Appended DEF TypeInv
<1>4. \A i \in DOMAIN bridge : bridge[i] # b
  BY <1>2, AwaitsFacts DEF Clear, Of
<1> HIDE DEF b
<1>5. In(b)'
  BY <1>3 DEF In
<1>6. Queued(t)'
  <2>1. \A i \in DOMAIN bridge' : Of(t, i)' => bridge'[i] = b
    BY <1>3 DEF Clear, Of
  <2>2. \A i, j \in DOMAIN bridge' : bridge'[i] = b /\ bridge'[j] = b => i = j
    BY <1>3, <1>4
  <2> QED
    BY <1>1, <2>1, <2>2 DEF Queued
<1>7. \A s : Has(t, s)' <=> Has(t, s)
  BY DEF Has
<1>8. ~Has(t, {"failed", "cancelled"}) /\ ~Has(t, {"done"})
  BY DEF Has, Settled
<1>9. RowsFirst(t)'
  <2>1. ASSUME t \in Queries, In(Block(t, "done"))' PROVE Kept(t)
    <3>1. CASE In(Block(t, "done"))
      BY <2>1, <3>1 DEF TaskInv, RowsFirst
    <3>2. CASE b = Block(t, "done")
      <4>1. Awaits(t, p) = "done"
        BY <3>2, <1>2 DEF Block
      <4> QED
        BY <1>2, <2>1, <4>1
    <3>3. \E i \in DOMAIN bridge' : bridge'[i] = Block(t, "done")
      BY <2>1 DEF In
    <3> QED
      BY <1>3, <3>1, <3>2, <3>3 DEF In
  <2>2. Kept(t)' <=> Kept(t)
    BY DEF Kept
  <2>3. p = "persist" => In(Block(t, "result"))'
    BY <1>2, <1>5
  <2> QED
    BY <1>1, <1>7, <1>8, <2>1, <2>2, <2>3 DEF RowsFirst
<1>10. Settles(t)'
  <2>1. \A i, j \in DOMAIN log' :
          i < j /\ log'[i].state \in Settled /\ log'[i] = Line(t, log'[i].state) /\ log'[j] = Line(t, log'[j].state)
            => log'[j].state \in Settled
    BY DEF TaskInv, Settles
  <2> QED
    BY <1>7, <1>8, <2>1 DEF Settles
<1>11. Recorded(t)'
  BY <1>1, <1>5 DEF Recorded, Waiting
<1> QED
  BY <1>6, <1>9, <1>10, <1>11 DEF TaskInv

(* What of the task stays when its block is withdrawn. *)
LEMMA WithdrawnLeft ==
  ASSUME TypeInv, NEW t \in Tasks, TaskInv(t), pc[t] \in Waiting
  PROVE  /\ \A i \in DOMAIN bridge : Withdrawn(t)[i].task = t /\ Withdrawn(t)[i].what # "void"
              => Withdrawn(t)[i] = bridge[i] /\ Of(t, i) /\ i = 1 /\ busy
         /\ \A i \in DOMAIN bridge : Withdrawn(t)[i].task = bridge[i].task
         /\ \A i \in DOMAIN bridge : bridge[i].task # t => Withdrawn(t)[i] = bridge[i]
<1>1. \A i \in DOMAIN bridge :
        Withdrawn(t)[i] = IF bridge[i] = Awaited(t) /\ ~(busy /\ i = 1) THEN Block(t, "void") ELSE bridge[i]
  BY WithdrawnFacts
<1>2. Awaited(t).task = t
  BY DEF Awaited, Block
<1>3. Block(t, "void").task = t /\ Block(t, "void").what = "void"
  BY DEF Block
<1>4. ASSUME NEW i \in DOMAIN bridge, Withdrawn(t)[i].task = t, Withdrawn(t)[i].what # "void"
      PROVE  Withdrawn(t)[i] = bridge[i] /\ Of(t, i) /\ i = 1 /\ busy
  <2>1. Withdrawn(t)[i] = bridge[i] /\ Of(t, i) /\ (bridge[i] = Awaited(t) => busy /\ i = 1)
    BY <1>1, <1>3, <1>4 DEF Of
  <2>2. bridge[i] = Awaited(t) \/ LeftRunning(t, i)
    BY <2>1 DEF TaskInv, Queued
  <2> QED
    BY <2>1, <2>2 DEF LeftRunning
<1>5. \A i \in DOMAIN bridge : Withdrawn(t)[i].task = bridge[i].task
  BY <1>1, <1>2, <1>3
<1>6. \A i \in DOMAIN bridge : bridge[i].task # t => Withdrawn(t)[i] = bridge[i]
  BY <1>1, <1>2
<1> QED
  BY <1>4, <1>5, <1>6

(* A wrapper cancelled at an await says so, behind what still runs. *)
LEMMA DropsKeeps ==
  ASSUME TypeInv, NEW t \in Tasks, TaskInv(t), pc[t] \in {"mark", "persist", "settle"}, t \notin bad',
         pc' = [pc EXCEPT ![t] = "drop"], bridge' = Append(Withdrawn(t), Block(t, Awaits(t, "drop"))),
         UNCHANGED <<log, result, expired, busy>>
  PROVE  TaskInv(t)' /\ \A u \in Tasks : u # t => Untouched(u)
<1> DEFINE w == Withdrawn(t)  c == Block(t, "cancelled")
<1>1. pc'[t] = "drop" /\ Awaited(t)' = c /\ c \in Blocks /\ bridge' = Append(w, c) /\ c.task = t /\ c.what = "cancelled"
  <2>1. "drop" \in Waiting /\ "drop" # "persist"
    BY DEF Waiting
  <2>2. Block(t, Awaits(t, "drop")) = c /\ c \in Blocks
    BY <2>1, AwaitsFacts
  <2> QED
    BY <2>2 DEF TypeInv, Awaited, Block
<1>2. w \in Seq(Blocks) /\ DOMAIN w = DOMAIN bridge
  BY WithdrawnFacts
<1>3. /\ \A i \in DOMAIN bridge : w[i].task = t /\ w[i].what # "void"
           => w[i] = bridge[i] /\ Of(t, i) /\ i = 1 /\ busy
      /\ \A i \in DOMAIN bridge : w[i].task = bridge[i].task
      /\ \A i \in DOMAIN bridge : bridge[i].task # t => w[i] = bridge[i]
  BY WithdrawnLeft DEF Waiting
<1>4. Awaited(t).what \in {"running", "result", "done"}
  BY AwaitsFacts DEF Awaited, Block, Waiting, TypeInv
<1> HIDE DEF w, c
<1>5. /\ \A i \in DOMAIN bridge : i \in DOMAIN bridge' /\ bridge'[i] = w[i]
      /\ Len(w) + 1 \in DOMAIN bridge' /\ bridge'[Len(w) + 1] = c
      /\ \A i \in DOMAIN bridge' : i \in DOMAIN bridge \/ i = Len(w) + 1
  BY <1>1, <1>2, Appended
<1>6. ASSUME NEW i \in DOMAIN bridge, w[i].task = t, w[i].what # "void"
      PROVE  i = 1 /\ busy /\ w[i] = bridge[i] /\ Of(t, i) /\ w[i].what \in {"running", "result", "done"}
  <2>1. w[i] = bridge[i] /\ Of(t, i) /\ i = 1 /\ busy
    BY <1>3, <1>6
  <2>2. bridge[i] = Awaited(t)
    BY <2>1 DEF TaskInv, Queued, LeftRunning
  <2> QED
    BY <1>4, <2>1, <2>2
<1>7. In(c)'
  BY <1>5 DEF In
<1>8. Queued(t)'
  <2>1. \A i \in DOMAIN bridge' :
          Of(t, i)' => bridge'[i] = c \/ (i = 1 /\ busy' /\ bridge'[i].what \in {"running", "result", "done"})
    BY <1>5, <1>6 DEF Of
  <2>2. \A i \in DOMAIN bridge : w[i] # c
    BY <1>1, <1>6
  <2>3. \A i, j \in DOMAIN bridge' : bridge'[i] = c /\ bridge'[j] = c => i = j
    BY <1>5, <2>2
  <2> QED
    BY <1>1, <1>7, <2>1, <2>3 DEF Queued, LeftRunning, Waiting
<1>9. \A s : Has(t, s)' <=> Has(t, s)
  BY DEF Has
<1>10. RowsFirst(t)'
  <2>1. ASSUME In(Block(t, "done"))' PROVE In(Block(t, "done"))
    <3>1. PICK i \in DOMAIN bridge' : bridge'[i] = Block(t, "done")
      BY <2>1 DEF In
    <3>2. bridge'[i].task = t /\ bridge'[i].what = "done"
      BY <3>1 DEF Block
    <3>3. i \in DOMAIN bridge /\ w[i] = Block(t, "done")
      BY <1>1, <1>5, <3>1, <3>2
    <3>4. bridge[i] = Block(t, "done")
      BY <1>5, <1>6, <3>1, <3>2, <3>3
    <3> QED
      BY <3>3, <3>4 DEF In
  <2> QED
    BY <1>1, <1>9, <2>1 DEF TaskInv, RowsFirst, Kept
<1>11. Settles(t)'
  <2>1. ~Has(t, {"failed", "cancelled"})
    BY DEF TaskInv, Settles
  <2>2. ASSUME Has(t, {"done"}), NEW i \in DOMAIN bridge', Of(t, i)' PROVE bridge'[i].what = "cancelled"
    <3>1. CASE i \in DOMAIN bridge
      BY <1>5, <1>6, <2>2, <3>1 DEF Of, TaskInv, Settles
    <3> QED
      BY <1>1, <1>5, <3>1
  <2>3. \A i, j \in DOMAIN log' :
          i < j /\ log'[i].state \in Settled /\ log'[i] = Line(t, log'[i].state) /\ log'[j] = Line(t, log'[j].state)
            => log'[j].state \in Settled
    BY DEF TaskInv, Settles
  <2> QED
    BY <1>1, <1>9, <2>1, <2>2, <2>3 DEF Settles
<1>12. Recorded(t)'
  BY <1>1, <1>7 DEF Recorded
<1>13. \A u \in Tasks : u # t => Untouched(u)
  BY <1>1, <1>3, <1>5 DEF Untouched
<1> QED
  BY <1>8, <1>10, <1>11, <1>12, <1>13 DEF TaskInv

(* A wrapper cut short leaves at most the block that runs. *)
LEMMA EndsShort ==
  ASSUME TypeInv, NEW t \in Tasks, TaskInv(t), pc[t] \in Waiting, t \notin bad', cuts'[t] # {},
         pc' = [pc EXCEPT ![t] = "over"], bridge' = Withdrawn(t),
         UNCHANGED <<log, result, expired, busy>>
  PROVE  TaskInv(t)' /\ \A u \in Tasks : u # t => Untouched(u)
<1> DEFINE w == Withdrawn(t)
<1>1. pc'[t] = "over"
  BY DEF TypeInv
<1>2. w \in Seq(Blocks) /\ DOMAIN w = DOMAIN bridge
  BY WithdrawnFacts
<1>3. /\ \A i \in DOMAIN bridge : w[i].task = t /\ w[i].what # "void"
           => w[i] = bridge[i] /\ Of(t, i) /\ i = 1 /\ busy
      /\ \A i \in DOMAIN bridge : w[i].task = bridge[i].task
      /\ \A i \in DOMAIN bridge : bridge[i].task # t => w[i] = bridge[i]
  BY WithdrawnLeft
<1>4. bridge' = w
  OBVIOUS
<1> HIDE DEF w
<1>5. ASSUME NEW i \in DOMAIN bridge', Of(t, i)' PROVE i \in DOMAIN bridge /\ bridge'[i] = bridge[i] /\ Of(t, i) /\ i = 1 /\ busy
  BY <1>2, <1>3, <1>4, <1>5 DEF Of
<1>6. Queued(t)'
  BY <1>1, <1>5 DEF Queued, LeftRunning, Waiting
<1>7. \A s : Has(t, s)' <=> Has(t, s)
  BY DEF Has
<1>8. RowsFirst(t)'
  <2>1. ASSUME In(Block(t, "done"))' PROVE In(Block(t, "done"))
    <3>1. PICK i \in DOMAIN bridge' : bridge'[i] = Block(t, "done")
      BY <2>1 DEF In
    <3>2. Of(t, i)'
      BY <3>1 DEF Of, Block
    <3> QED
      BY <1>5, <3>1, <3>2 DEF In
  <2> QED
    BY <1>1, <1>7, <2>1 DEF TaskInv, RowsFirst, Kept
<1>9. Settles(t)'
  <2>1. Clear(t) => Clear(t)'
    BY <1>5 DEF Clear
  <2>2. (\A i \in DOMAIN bridge : Of(t, i) => bridge[i].what = "cancelled")
           => (\A i \in DOMAIN bridge' : Of(t, i)' => bridge'[i].what = "cancelled")
    BY <1>5
  <2>3. \A i, j \in DOMAIN log' :
          i < j /\ log'[i].state \in Settled /\ log'[i] = Line(t, log'[i].state) /\ log'[j] = Line(t, log'[j].state)
            => log'[j].state \in Settled
    BY DEF TaskInv, Settles
  <2> QED
    BY <1>1, <1>7, <2>1, <2>2, <2>3 DEF TaskInv, Settles
<1>10. Recorded(t)'
  BY <1>1 DEF Recorded
<1>11. \A u \in Tasks : u # t => Untouched(u)
  BY <1>2, <1>3, <1>4 DEF Untouched
<1> QED
  BY <1>6, <1>8, <1>9, <1>10, <1>11 DEF TaskInv

(* No settling line before the wrapper's last append. *)
LEMMA NotSettled ==
  ASSUME NEW t \in Tasks, TaskInv(t),
         pc[t] \notin {"settle", "fail", "drop", "over", "gone"} \/ (pc[t] = "settle" /\ t \in bad)
  PROVE  ~Has(t, Settled)
<1>1. ~Has(t, {"failed", "cancelled"}) /\ ~Has(t, {"done"})
  BY DEF TaskInv, Settles
<1> QED
  BY <1>1 DEF Has, Settled

LEMMA WrapperTypes ==
  ASSUME TypeInv, NEW t \in Tasks, NEW p \in Places, pc' = [pc EXCEPT ![t] = p], p = "persist" => t \in Queries,
         bridge' \in Seq(Blocks), busy => bridge' # <<>> /\ bridge'[1].what # "void",
         phase = "shut" => bridge' = <<>>,
         cuts' \in [Tasks -> SUBSET {"fresh", "fail", "drop", "disk", "shut"}], hit' \subseteq Tasks, bad' \subseteq Tasks,
         UNCHANGED <<durable, busy, closing, counts>>
  PROVE  TypeInv'
<1>1. pc' \in [Tasks -> Places] /\ \A u \in Tasks : pc'[u] = "persist" => u \in Queries
  BY DEF TypeInv
<1> QED
  BY <1>1 DEF TypeInv, durable, closing, counts

LEMMA CutTypes ==
  ASSUME TypeInv, NEW t \in Tasks, NEW c \in {"fresh", "fail", "drop", "disk", "shut"},
         cuts' = [cuts EXCEPT ![t] = @ \cup {c}]
  PROVE  /\ cuts' \in [Tasks -> SUBSET {"fresh", "fail", "drop", "disk", "shut"}]
         /\ cuts'[t] # {} /\ \A u \in Tasks : u # t => cuts'[u] = cuts[u]
BY DEF TypeInv

(* Handing over a block, or failing to on a bridge that is shut. *)
LEMMA PostStep ==
  ASSUME Inv, NEW t \in Tasks, NEW p \in Waiting, Post(t, p, bridge), Clear(t),
         p = "persist" => t \in Queries, p = "settle" /\ t \in Queries => Kept(t),
         ~Has(t, Settled), t \notin bad', bad' \subseteq bad, bad \subseteq bad' \cup {t}, hit' \subseteq hit,
         UNCHANGED <<durable, busy, closing, counts>>
  PROVE  Inv'
<1>1. TypeInv /\ \A u \in Tasks : TaskInv(u)
  BY DEF Inv
<1>2. UNCHANGED <<log, result, expired>> /\ hit' \subseteq Tasks /\ bad' \subseteq Tasks
  BY <1>1 DEF durable, TypeInv
<1>3. CASE phase = "shut"
  <2>1. pc' = [pc EXCEPT ![t] = "over"] /\ cuts' = [cuts EXCEPT ![t] = @ \cup {"shut"}] /\ bridge' = bridge
    BY <1>3 DEF Post
  <2>2. /\ cuts' \in [Tasks -> SUBSET {"fresh", "fail", "drop", "disk", "shut"}]
        /\ cuts'[t] # {} /\ \A u \in Tasks : u # t => cuts'[u] = cuts[u]
    BY <1>1, <2>1, CutTypes
  <2>3. TypeInv'
    BY <1>1, <1>2, <2>1, <2>2, WrapperTypes DEF TypeInv, Places
  <2>4. TaskInv(t)'
    BY <1>1, <1>2, <2>1, <2>2, GoesKeeps
  <2>5. ASSUME NEW u \in Tasks, u # t PROVE TaskInv(u)'
    <3>1. Untouched(u) /\ pc'[u] = pc[u] /\ cuts'[u] = cuts[u] /\ (u \in bad' <=> u \in bad)
      BY <1>1, <2>1, <2>2, <2>5 DEF Untouched, TypeInv
    <3> QED
      BY <1>1, <1>2, <3>1, OthersKept
  <2> QED
    BY <2>3, <2>4, <2>5 DEF Inv
<1>4. CASE phase # "shut"
  <2> DEFINE b == Block(t, Awaits(t, p))
  <2>1. pc' = [pc EXCEPT ![t] = p] /\ bridge' = Append(bridge, b) /\ cuts' = cuts
    BY <1>4 DEF Post
  <2>2. b \in Blocks /\ b.task = t
    BY AwaitsFacts
  <2>3. TaskInv(t)'
    BY <1>1, <1>2, <2>1, PostsKeeps
  <2> HIDE DEF b
  <2>4. bridge' \in Seq(Blocks) /\ (busy => bridge' # <<>> /\ bridge'[1].what # "void")
    BY <1>1, <2>1, <2>2 DEF TypeInv
  <2>5. TypeInv'
    BY <1>1, <1>2, <1>4, <2>1, <2>4, WrapperTypes DEF TypeInv, Places, Live, Waiting
  <2>6. ASSUME NEW u \in Tasks, u # t PROVE TaskInv(u)'
    <3>1. Untouched(u)
      BY <1>1, <2>1, <2>2, <2>6, JoinsOthers
    <3>2. pc'[u] = pc[u] /\ cuts'[u] = cuts[u] /\ (u \in bad' <=> u \in bad)
      BY <1>1, <2>1, <2>6 DEF TypeInv
    <3> QED
      BY <1>1, <1>2, <3>1, <3>2, OthersKept
  <2> QED
    BY <2>3, <2>5, <2>6 DEF Inv
<1> QED
  BY <1>3, <1>4

(* Going on without one. *)
LEMMA GoStep ==
  ASSUME Inv, NEW t \in Tasks, NEW p \in {"fresh", "body", "over"}, pc' = [pc EXCEPT ![t] = p], bridge' = bridge,
         Clear(t), t \notin bad', bad' \subseteq bad, bad \subseteq bad' \cup {t}, hit' \subseteq hit,
         cuts' = cuts \/ \E c \in {"fresh", "fail", "drop", "disk", "shut"} : cuts' = [cuts EXCEPT ![t] = @ \cup {c}],
         p # "over" => ~Has(t, Settled), p = "over" => cuts'[t] # {} \/ Spoilt \/ Has(t, Settled),
         UNCHANGED <<durable, busy, closing, counts>>
  PROVE  Inv'
<1>1. TypeInv /\ \A u \in Tasks : TaskInv(u)
  BY DEF Inv
<1>2. UNCHANGED <<log, result, expired>> /\ hit' \subseteq Tasks /\ bad' \subseteq Tasks
  BY <1>1 DEF durable, TypeInv
<1>3. /\ cuts' \in [Tasks -> SUBSET {"fresh", "fail", "drop", "disk", "shut"}]
      /\ \A u \in Tasks : u # t => cuts'[u] = cuts[u]
  <2>1. CASE cuts' = cuts
    BY <1>1, <2>1 DEF TypeInv
  <2>2. ASSUME NEW c \in {"fresh", "fail", "drop", "disk", "shut"}, cuts' = [cuts EXCEPT ![t] = @ \cup {c}]
        PROVE  /\ cuts' \in [Tasks -> SUBSET {"fresh", "fail", "drop", "disk", "shut"}]
               /\ cuts'[t] # {} /\ \A u \in Tasks : u # t => cuts'[u] = cuts[u]
    BY <1>1, <2>2, CutTypes
  <2> QED
    BY <2>1, <2>2
<1>4. TypeInv'
  BY <1>1, <1>2, <1>3, WrapperTypes DEF TypeInv, Places, Live
<1>5. TaskInv(t)'
  BY <1>1, <1>2, <1>3, GoesKeeps
<1>6. ASSUME NEW u \in Tasks, u # t PROVE TaskInv(u)'
  <2>1. Untouched(u) /\ pc'[u] = pc[u] /\ cuts'[u] = cuts[u] /\ (u \in bad' <=> u \in bad)
    BY <1>1, <1>3, <1>6 DEF Untouched, TypeInv
  <2> QED
    BY <1>1, <1>2, <2>1, OthersKept
<1> QED
  BY <1>4, <1>5, <1>6 DEF Inv

LEMMA ResumesFacts ==
  ASSUME Inv, NEW t \in Tasks, NEW p \in {"birth", "fresh", "mark", "body", "persist", "settle", "fail", "drop"}, Resumes(t, p)
  PROVE  /\ pc[t] = p /\ t \notin bad /\ Clear(t)
         /\ p \in Waiting => ~In(Awaited(t))
<1>1. pc[t] = p /\ t \notin bad /\ TypeInv /\ TaskInv(t)
  BY DEF Resumes, Inv
<1>2. p \in Waiting => ~In(Awaited(t))
  BY <1>1 DEF Resumes, In, TypeInv
<1>3. p \in {"none", "fresh", "body"} \/ p \in Waiting
  BY DEF Waiting
<1>4. Clear(t)
  BY <1>1, <1>2, <1>3, ClearFacts
<1> QED
  BY <1>1, <1>2, <1>4

(* submit, and the wrapper's own steps. *)
LEMMA WrapperKeeps ==
  ASSUME Inv, NEW t \in Tasks,
         \/ Submit(t) \/ Create(t) \/ Begin(t) \/ Marked(t) \/ BodyReturns(t) \/ BodyRaises(t)
         \/ TimesOut(t) \/ Persisted(t) \/ Ends(t)
  PROVE  Inv'
<1>1. TypeInv /\ TaskInv(t)
  BY DEF Inv
<1>2. "birth" \in Waiting /\ "mark" \in Waiting /\ "persist" \in Waiting /\ "settle" \in Waiting /\ "fail" \in Waiting
  BY DEF Waiting
<1>3. pc[t] \notin Waiting => t \notin bad
  BY <1>1 DEF TaskInv, Queued
<1>4. CASE Submit(t)
  <2>1. /\ Post(t, "birth", bridge) /\ pc[t] = "none"
        /\ UNCHANGED <<durable, busy, closing, hit, bad, counts>>
    BY <1>4 DEF Submit
  <2>2. Clear(t) /\ ~Has(t, Settled) /\ t \notin bad
    BY <1>1, <1>3, <2>1, ClearFacts, NotSettled DEF Waiting
  <2> QED
    BY <1>2, <2>1, <2>2, PostStep
<1>5. CASE Create(t)
  <2>1. Resumes(t, "birth") /\ GoTo(t, "fresh") /\ UNCHANGED <<durable, busy, closing, hit, bad, counts>>
    BY <1>5 DEF Create
  <2>2. pc[t] = "birth" /\ t \notin bad /\ Clear(t)
    BY <2>1, ResumesFacts
  <2>3. ~Has(t, Settled)
    BY <1>1, <2>2, NotSettled
  <2> QED
    BY <2>1, <2>2, <2>3, GoStep DEF GoTo
<1>6. CASE Begin(t)
  <2>1. /\ Resumes(t, "fresh") /\ (GoTo(t, "body") \/ Post(t, "mark", bridge))
        /\ UNCHANGED <<durable, busy, closing, hit, bad, counts>>
    BY <1>6 DEF Begin
  <2>2. pc[t] = "fresh" /\ t \notin bad /\ Clear(t)
    BY <2>1, ResumesFacts
  <2>3. ~Has(t, Settled)
    BY <1>1, <2>2, NotSettled
  <2>4. CASE GoTo(t, "body")
    BY <2>1, <2>2, <2>3, <2>4, GoStep DEF GoTo
  <2>5. CASE Post(t, "mark", bridge)
    BY <1>2, <2>1, <2>2, <2>3, <2>5, PostStep
  <2> QED
    BY <2>1, <2>4, <2>5
<1>7. CASE Marked(t)
  <2>1. Resumes(t, "mark") /\ GoTo(t, "body") /\ UNCHANGED <<durable, busy, closing, hit, bad, counts>>
    BY <1>7 DEF Marked
  <2>2. pc[t] = "mark" /\ t \notin bad /\ Clear(t)
    BY <2>1, ResumesFacts
  <2>3. ~Has(t, Settled)
    BY <1>1, <2>2, NotSettled
  <2> QED
    BY <2>1, <2>2, <2>3, GoStep DEF GoTo
<1>8. CASE BodyReturns(t) \/ BodyRaises(t) \/ TimesOut(t)
  <2>1. /\ pc[t] = "body" /\ hit' \subseteq hit /\ bad' = bad
        /\ \E p \in {"persist", "settle", "fail"} :
             Post(t, p, bridge) /\ (p = "persist" => t \in Queries) /\ (p = "settle" => t \notin Queries)
        /\ UNCHANGED <<durable, busy, closing, counts>>
    BY <1>8 DEF BodyReturns, BodyRaises, TimesOut, Resumes
  <2>2. Clear(t) /\ ~Has(t, Settled) /\ t \notin bad
    BY <1>1, <1>3, <2>1, ClearFacts, NotSettled DEF Waiting
  <2> QED
    BY <1>2, <2>1, <2>2, PostStep
<1>9. CASE Persisted(t)
  <2>1. Resumes(t, "persist") /\ Post(t, "settle", bridge) /\ UNCHANGED <<durable, busy, closing, hit, bad, counts>>
    BY <1>9 DEF Persisted
  <2>2. pc[t] = "persist" /\ t \notin bad /\ Clear(t) /\ ~In(Awaited(t))
    BY <1>2, <2>1, ResumesFacts
  <2>3. ~Has(t, Settled)
    BY <1>1, <2>2, NotSettled
  <2>4. Kept(t)
    <3>1. t \in Queries
      BY <1>1, <2>2 DEF TypeInv
    <3>2. Awaited(t) = Block(t, "result")
      BY <1>2, <2>2, <3>1, AwaitsFacts DEF Awaited
    <3> QED
      BY <1>1, <2>2, <3>1, <3>2 DEF TaskInv, RowsFirst
  <2> QED
    BY <1>2, <2>1, <2>2, <2>3, <2>4, PostStep
<1>10. CASE Ends(t)
  <2>1. PICK p \in {"settle", "fail", "drop"} : Resumes(t, p)
    BY <1>10 DEF Ends
  <2>2. GoTo(t, "over") /\ UNCHANGED <<durable, busy, closing, hit, bad, counts>>
    BY <1>10 DEF Ends
  <2>3. pc[t] = p /\ t \notin bad /\ Clear(t) /\ ~In(Awaited(t))
    BY <2>1, ResumesFacts DEF Waiting
  <2>4. Spoilt \/ Has(t, Settled)
    BY <1>1, <2>3 DEF TaskInv, Recorded
  <2> QED
    BY <2>2, <2>3, <2>4, GoStep DEF GoTo
<1> QED
  BY <1>4, <1>5, <1>6, <1>7, <1>8, <1>9, <1>10

(* An awaited block that raised. *)
LEMMA RaisedKeeps ==
  ASSUME Inv, NEW t \in Tasks, BlockRaised(t)
  PROVE  Inv'
<1>1. TypeInv /\ TaskInv(t)
  BY DEF Inv
<1>2. /\ t \in bad /\ bad' = bad \ {t} /\ UNCHANGED <<durable, busy, closing, hit, counts>>
      /\ \/ pc[t] \in {"mark", "persist", "settle"} /\ Post(t, "fail", bridge)
         \/ /\ pc[t] \in {"birth", "fail", "drop"}
            /\ pc' = [pc EXCEPT ![t] = "over"] /\ cuts' = [cuts EXCEPT ![t] = @ \cup {"disk"}] /\ bridge' = bridge
  BY DEF BlockRaised
<1>3. pc[t] \in Waiting /\ ~In(Awaited(t))
  BY <1>1, <1>2 DEF TaskInv, Queued
<1>4. Clear(t)
  BY <1>1, <1>3, ClearFacts
<1>5. CASE pc[t] \in {"mark", "persist", "settle"} /\ Post(t, "fail", bridge)
  <2>1. ~Has(t, Settled)
    BY <1>1, <1>2, <1>5, NotSettled
  <2>2. "fail" \in Waiting
    BY DEF Waiting
  <2> QED
    BY <1>2, <1>4, <1>5, <2>1, <2>2, PostStep
<1>6. CASE pc' = [pc EXCEPT ![t] = "over"] /\ cuts' = [cuts EXCEPT ![t] = @ \cup {"disk"}] /\ bridge' = bridge
  <2>1. cuts'[t] # {}
    BY <1>1, <1>6, CutTypes
  <2> QED
    BY <1>2, <1>4, <1>6, <2>1, GoStep
<1> QED
  BY <1>2, <1>5, <1>6

(* The CancelledError arrives. *)
LEMMA ThrownKeeps ==
  ASSUME Inv, NEW t \in Tasks, Thrown(t)
  PROVE  Inv'
<1>1. TypeInv /\ \A u \in Tasks : TaskInv(u)
  BY DEF Inv
<1>2. /\ bad' = bad \ {t} /\ hit' = hit \ {t} /\ UNCHANGED <<durable, busy, closing, counts>>
      /\ UNCHANGED <<log, result, expired>>
  BY DEF Thrown, durable
<1>3. hit' \subseteq Tasks /\ bad' \subseteq Tasks
  BY <1>1, <1>2 DEF TypeInv
<1>4. CASE pc[t] \in {"mark", "persist", "settle"} /\ Post(t, "drop", Withdrawn(t)) /\ phase # "shut"
  <2> DEFINE b == Block(t, Awaits(t, "drop"))
  <2>1. pc' = [pc EXCEPT ![t] = "drop"] /\ bridge' = Append(Withdrawn(t), b) /\ cuts' = cuts
    BY <1>4 DEF Post
  <2>2. TaskInv(t)' /\ \A u \in Tasks : u # t => Untouched(u)
    BY <1>1, <1>2, <1>4, <2>1, DropsKeeps
  <2>3. b \in Blocks
    BY AwaitsFacts DEF Waiting
  <2>4. Withdrawn(t) \in Seq(Blocks) /\ DOMAIN Withdrawn(t) = DOMAIN bridge
    BY <1>1, WithdrawnFacts
  <2>5. busy => 1 \in DOMAIN bridge /\ Withdrawn(t)[1] = bridge[1] /\ bridge[1].what # "void"
    BY <1>1, WithdrawnFacts DEF TypeInv
  <2> HIDE DEF b
  <2>6. bridge' \in Seq(Blocks) /\ (busy => bridge' # <<>> /\ bridge'[1].what # "void")
    <3> DEFINE w == Withdrawn(t)
    <3> HIDE DEF w
    <3>1. w \in Seq(Blocks) /\ DOMAIN w = DOMAIN bridge /\ bridge' = Append(w, b)
      BY <2>1, <2>4 DEF w
    <3>2. busy => 1 \in DOMAIN w /\ w[1].what # "void"
      BY <2>4, <2>5 DEF w
    <3> QED
      BY <2>3, <3>1, <3>2
  <2>7. TypeInv'
    BY <1>1, <1>2, <1>3, <1>4, <2>1, <2>6, WrapperTypes DEF TypeInv, Places, Live, Waiting
  <2>8. ASSUME NEW u \in Tasks, u # t PROVE TaskInv(u)'
    <3>1. Untouched(u) /\ pc'[u] = pc[u] /\ cuts'[u] = cuts[u] /\ (u \in bad' <=> u \in bad)
      BY <1>1, <1>2, <2>1, <2>2, <2>8 DEF TypeInv
    <3> QED
      BY <1>1, <1>2, <3>1, OthersKept
  <2> QED
    BY <2>2, <2>7, <2>8 DEF Inv
<1>5. CASE pc[t] \in {"fresh", "body"}
  <2>1. Clear(t) /\ ~Has(t, Settled)
    BY <1>1, <1>5, ClearFacts, NotSettled
  <2>2. CASE pc[t] = "body"
    <3>1. Post(t, "drop", bridge)
      BY <2>2 DEF Thrown
    <3>2. "drop" \in Waiting
      BY DEF Waiting
    <3> QED
      BY <1>2, <2>1, <3>1, <3>2, PostStep
  <2>3. CASE pc[t] = "fresh"
    <3>1. pc' = [pc EXCEPT ![t] = "over"] /\ cuts' = [cuts EXCEPT ![t] = @ \cup {"fresh"}] /\ bridge' = bridge
      BY <2>3 DEF Thrown
    <3>2. cuts'[t] # {}
      BY <1>1, <3>1, CutTypes
    <3> QED
      BY <1>2, <2>1, <3>1, <3>2, GoStep
  <2> QED
    BY <1>5, <2>2, <2>3
<1>6. ASSUME pc[t] \in Waiting, NEW c \in {"fail", "drop", "shut"}, pc' = [pc EXCEPT ![t] = "over"],
             cuts' = [cuts EXCEPT ![t] = @ \cup {c}], bridge' = Withdrawn(t)
      PROVE  Inv'
  <2>1. /\ cuts' \in [Tasks -> SUBSET {"fresh", "fail", "drop", "disk", "shut"}]
        /\ cuts'[t] # {} /\ \A u \in Tasks : u # t => cuts'[u] = cuts[u]
    BY <1>1, <1>6, CutTypes
  <2>2. TaskInv(t)' /\ \A u \in Tasks : u # t => Untouched(u)
    BY <1>1, <1>2, <1>6, <2>1, EndsShort
  <2>3. bridge' \in Seq(Blocks) /\ DOMAIN bridge' = DOMAIN bridge /\ (bridge = <<>> => bridge' = <<>>)
    BY <1>1, <1>6, WithdrawnFacts
  <2>4. busy => 1 \in DOMAIN bridge' /\ bridge'[1] = bridge[1] /\ bridge[1].what # "void"
    BY <1>1, <1>6, WithdrawnFacts DEF TypeInv
  <2>5. busy => bridge' # <<>> /\ bridge'[1].what # "void"
    BY <2>4
  <2>6. TypeInv'
    BY <1>1, <1>2, <1>3, <1>6, <2>1, <2>3, <2>5, WrapperTypes DEF TypeInv, Places
  <2>7. ASSUME NEW u \in Tasks, u # t PROVE TaskInv(u)'
    <3>1. Untouched(u) /\ pc'[u] = pc[u] /\ cuts'[u] = cuts[u] /\ (u \in bad' <=> u \in bad)
      BY <1>1, <1>2, <1>6, <2>1, <2>2, <2>7 DEF TypeInv
    <3> QED
      BY <1>1, <1>2, <3>1, OthersKept
  <2> QED
    BY <2>2, <2>6, <2>7 DEF Inv
<1>7. CASE pc[t] \in {"mark", "persist", "settle"} /\ Post(t, "drop", Withdrawn(t)) /\ phase = "shut"
  BY <1>6, <1>7 DEF Post, Waiting
<1>8. CASE pc[t] \in {"fail", "drop"}
  BY <1>6, <1>8 DEF Thrown, Waiting
<1> QED
  BY <1>4, <1>5, <1>7, <1>8 DEF Thrown

-----------------------------------------------------------------------------
(* A step of the bridge thread *)

LEMMA GarbledIsNoLine == \A t, s : Line(t, s) # Garbled
<1> SUFFICES ASSUME NEW t, NEW s, Line(t, s) = Garbled PROVE FALSE
  OBVIOUS
<1>1. DOMAIN Line(t, s) = {"task", "state"} /\ DOMAIN Garbled = {"state"}
  BY DEF Line, Garbled
<1> QED
  BY <1>1

(* What a task's lines are after an append. *)
LEMMA LinesSeen ==
  ASSUME TypeInv, NEW v \in Tasks, NEW w \in States, log' = AddLine(Line(v, w)), NEW u \in Tasks
  PROVE  /\ \A s \in SUBSET States : Has(u, s)' => Has(u, s) \/ (u = v /\ w \in s)
         /\ \A s \in SUBSET States : Spoilt \/ Has(u, s) \/ (u = v /\ w \in s) => Spoilt' \/ Has(u, s)'
         /\ \A i, j \in DOMAIN log' :
              i < j /\ log'[i] = Line(u, log'[i].state) /\ log'[j] = Line(u, log'[j].state) =>
                /\ i \in DOMAIN log /\ log[i] = log'[i]
                /\ (j \in DOMAIN log /\ log[j] = log'[j]) \/ (u = v /\ log'[j].state = w)
<1> DEFINE l == Line(v, w)
<1>1. l \in Lines /\ l.task = v /\ l.state = w
  BY DEF Line, Lines
<1>2. /\ log' \in Seq(Lines \cup {Garbled}) /\ log' # <<>>
      /\ \/ log' = Append(log, l)
         \/ /\ \E i \in DOMAIN log' : log'[i] = Garbled
            /\ DOMAIN log' = DOMAIN log
            /\ \A i \in DOMAIN log : log'[i] = log[i] \/ log'[i] = Garbled
  BY <1>1, LineAdded
<1>3. \A t, s : Line(t, s).task = t /\ Line(t, s).state = s
  BY DEF Line
<1> HIDE DEF l
<1>4. CASE log' = Append(log, l)
  <2>1. /\ DOMAIN log = 1..Len(log) /\ Len(log) \in Nat
        /\ \A i \in DOMAIN log : i \in DOMAIN log' /\ log'[i] = log[i]
        /\ Len(log) + 1 \in DOMAIN log' /\ log'[Len(log) + 1] = l
        /\ \A i \in DOMAIN log' : i \in DOMAIN log \/ i = Len(log) + 1
    BY <1>1, <1>4, Appended DEF TypeInv
  <2>2. ASSUME NEW s \in SUBSET States, Has(u, s)' PROVE Has(u, s) \/ (u = v /\ w \in s)
    <3>1. PICK i \in DOMAIN log', x \in s : log'[i] = Line(u, x)
      BY <2>2 DEF Has
    <3>2. CASE i \in DOMAIN log
      BY <2>1, <3>1, <3>2 DEF Has
    <3>3. CASE i = Len(log) + 1
      BY <1>1, <1>3, <2>1, <3>1, <3>3
    <3> QED
      BY <2>1, <3>2, <3>3
  <2>3. ASSUME NEW s \in SUBSET States, Has(u, s) PROVE Has(u, s)'
    BY <2>1, <2>3 DEF Has
  <2>4. Spoilt => Spoilt'
    BY <2>1 DEF Spoilt
  <2>5. ASSUME NEW s \in SUBSET States, u = v, w \in s PROVE Has(u, s)'
    BY <2>1, <2>5 DEF Has, l
  <2>6. ASSUME NEW i \in DOMAIN log', NEW j \in DOMAIN log', i < j, log'[i] = Line(u, log'[i].state), log'[j] = Line(u, log'[j].state)
        PROVE  /\ i \in DOMAIN log /\ log[i] = log'[i]
               /\ (j \in DOMAIN log /\ log[j] = log'[j]) \/ (u = v /\ log'[j].state = w)
    <3>1. i \in DOMAIN log /\ log[i] = log'[i]
      BY <2>1, <2>6
    <3>2. j = Len(log) + 1 => u = v /\ log'[j].state = w
      BY <1>1, <1>3, <2>1, <2>6
    <3> QED
      BY <2>1, <3>1, <3>2
  <2> QED
    BY <2>2, <2>3, <2>4, <2>5, <2>6
<1>5. CASE /\ \E i \in DOMAIN log' : log'[i] = Garbled
           /\ DOMAIN log' = DOMAIN log
           /\ \A i \in DOMAIN log : log'[i] = log[i] \/ log'[i] = Garbled
  <2>1. Spoilt'
    BY <1>5 DEF Spoilt
  <2>2. \A i \in DOMAIN log' : \A x : log'[i] = Line(u, x) => i \in DOMAIN log /\ log[i] = log'[i]
    BY <1>5, GarbledIsNoLine
  <2>3. ASSUME NEW s \in SUBSET States, Has(u, s)' PROVE Has(u, s)
    <3>1. PICK i \in DOMAIN log', x \in s : log'[i] = Line(u, x)
      BY <2>3 DEF Has
    <3> QED
      BY <2>2, <3>1 DEF Has
  <2> QED
    BY <2>1, <2>2, <2>3
<1> QED
  BY <1>2, <1>4, <1>5

(* The head of the queue is gone. *)
LEMMA HeadGone ==
  ASSUME TypeInv, NEW u \in Tasks, TaskInv(u), bridge # <<>>, bridge' = Tail(bridge), pc' = pc,
         u \in bad' => u \in bad \/ (pc[u] \in Waiting /\ bridge[1] = Awaited(u))
  PROVE  /\ Queued(u)' /\ bridge' \in Seq(Blocks)
         /\ \A b : In(b)' => In(b)
         /\ \A b : In(b) => In(b)' \/ bridge[1] = b
         /\ \A i \in DOMAIN bridge' : Of(u, i)' =>
              /\ pc[u] \in Waiting /\ bridge'[i] = Awaited(u) /\ In(Awaited(u))
              /\ i + 1 \in DOMAIN bridge /\ Of(u, i + 1) /\ bridge'[i] = bridge[i + 1]
              /\ bridge[1] # Awaited(u)
<1>1. /\ bridge' \in Seq(Blocks) /\ 1 \in DOMAIN bridge
      /\ \A i \in DOMAIN bridge' : i \in Nat /\ i + 1 \in DOMAIN bridge /\ bridge'[i] = bridge[i + 1] /\ i >= 1
      /\ \A i \in DOMAIN bridge : i = 1 \/ (i - 1 \in DOMAIN bridge' /\ bridge'[i - 1] = bridge[i])
  BY Shifted DEF TypeInv
<1>2. ASSUME NEW b, In(b)' PROVE In(b)
  <2>1. PICK i \in DOMAIN bridge' : bridge'[i] = b
    BY <1>2 DEF In
  <2> QED
    BY <1>1, <2>1 DEF In
<1>3. ASSUME NEW b, In(b) PROVE In(b)' \/ bridge[1] = b
  <2>1. PICK i \in DOMAIN bridge : bridge[i] = b
    BY <1>3 DEF In
  <2> QED
    BY <1>1, <2>1 DEF In
<1>4. Awaited(u)' = Awaited(u)
  BY DEF Awaited
<1>5. ASSUME NEW i \in DOMAIN bridge', Of(u, i)'
      PROVE  /\ pc[u] \in Waiting /\ bridge'[i] = Awaited(u) /\ In(Awaited(u))
             /\ i + 1 \in DOMAIN bridge /\ Of(u, i + 1) /\ bridge'[i] = bridge[i + 1]
             /\ bridge[1] # Awaited(u)
  <2>1. i + 1 \in DOMAIN bridge /\ bridge'[i] = bridge[i + 1] /\ Of(u, i + 1) /\ i + 1 # 1
    BY <1>1, <1>5 DEF Of
  <2>2. pc[u] \in Waiting /\ bridge[i + 1] = Awaited(u)
    BY <2>1 DEF TaskInv, Queued, LeftRunning
  <2>3. bridge[1] # Awaited(u)
    BY <1>1, <2>1, <2>2 DEF TaskInv, Queued
  <2> QED
    BY <2>1, <2>2, <2>3 DEF In
<1>6. Queued(u)'
  <2>1. ASSUME NEW i \in DOMAIN bridge', NEW j \in DOMAIN bridge', pc[u] \in Waiting,
               bridge'[i] = Awaited(u), bridge'[j] = Awaited(u)
        PROVE  i = j
    <3>1. i + 1 = j + 1
      BY <1>1, <2>1 DEF TaskInv, Queued
    <3> QED
      BY <1>1, <3>1
  <2>2. ASSUME u \in bad' PROVE pc[u] \in Waiting /\ ~In(Awaited(u))'
    <3>1. CASE u \in bad
      <4>1. pc[u] \in Waiting /\ ~In(Awaited(u))
        BY <3>1 DEF TaskInv, Queued
      <4> QED
        BY <1>1, <1>4, <4>1 DEF In
    <3>2. CASE pc[u] \in Waiting /\ bridge[1] = Awaited(u)
      <4>1. ASSUME NEW i \in DOMAIN bridge', bridge'[i] = Awaited(u) PROVE FALSE
        <5>1. i + 1 \in DOMAIN bridge /\ i + 1 # 1 /\ bridge[i + 1] = Awaited(u)
          BY <1>1, <4>1
        <5> QED
          BY <1>1, <3>2, <5>1 DEF TaskInv, Queued
      <4> QED
        BY <1>4, <3>2, <4>1 DEF In
    <3> QED
      BY <2>2, <3>1, <3>2
  <2> QED
    BY <1>4, <1>5, <2>1, <2>2 DEF Queued
<1> QED
  BY <1>1, <1>2, <1>3, <1>5, <1>6

(* What a task can be waiting for. *)
LEMMA AwaitedFacts ==
  ASSUME TypeInv, NEW u \in Tasks, pc[u] \in Waiting
  PROVE  /\ Awaited(u).task = u /\ Awaited(u).what # "void"
         /\ pc[u] = "persist" => Awaited(u) = Block(u, "result") /\ Awaited(u).what = "result"
         /\ pc[u] = "settle" => Awaited(u) = Block(u, "done") /\ Awaited(u).what = "done"
         /\ pc[u] = "fail" => Awaited(u) = Block(u, "failed") /\ Awaited(u).what = "failed"
         /\ pc[u] = "drop" => Awaited(u) = Block(u, "cancelled") /\ Awaited(u).what = "cancelled"
         /\ Awaited(u).what = "done" => pc[u] = "settle"
         /\ Awaited(u).what = "failed" => pc[u] = "fail"
         /\ Awaited(u).what = "cancelled" => pc[u] = "drop"
<1>1. pc[u] = "persist" => u \in Queries
  BY DEF TypeInv
<1>2. \A w : Block(u, w).task = u /\ Block(u, w).what = w
  BY DEF Block
<1> QED
  BY <1>1, <1>2, AwaitsFacts DEF Awaited

(* A block ended without a line: passed over, raised, or the rows kept. *)
LEMMA BlockOver ==
  ASSUME TypeInv, NEW u \in Tasks, TaskInv(u), bridge # <<>>, bridge' = Tail(bridge), UNCHANGED <<log, pc, cuts>>,
         u \in bad => u \in bad', u \in bad' => u \in bad \/ (pc[u] \in Waiting /\ bridge[1] = Awaited(u)),
         Kept(u) => Kept(u)',
         pc[u] \in Waiting /\ bridge[1] = Awaited(u) => u \in bad' \/ (bridge[1].what = "result" /\ Kept(u)')
  PROVE  TaskInv(u)'
<1>1. /\ Queued(u)'
      /\ \A b : In(b)' => In(b)
      /\ \A b : In(b) => In(b)' \/ bridge[1] = b
      /\ \A i \in DOMAIN bridge' : Of(u, i)' =>
           i + 1 \in DOMAIN bridge /\ Of(u, i + 1) /\ bridge'[i] = bridge[i + 1]
  BY HeadGone
<1>2. Awaited(u)' = Awaited(u)
  BY DEF Awaited
<1>3. (\A s : Has(u, s)' <=> Has(u, s)) /\ (Spoilt' <=> Spoilt)
  BY DEF Has, Spoilt
<1>4. Clear(u) => Clear(u)'
  BY <1>1 DEF Clear
<1>5. RowsFirst(u)'
  <2> SUFFICES ASSUME u \in Queries PROVE RowsFirst(u)'
    BY DEF RowsFirst
  <2>1. In(Block(u, "done"))' => In(Block(u, "done"))
    BY <1>1 DEF In
  <2>2. ASSUME pc[u] = "persist", u \notin bad', ~In(Block(u, "result"))' PROVE Kept(u)'
    <3>1. CASE bridge[1] = Block(u, "result")
      BY <2>2, <3>1, AwaitedFacts DEF Waiting
    <3>2. CASE bridge[1] # Block(u, "result")
      <4>1. ~In(Block(u, "result"))
        BY <1>1, <2>2, <3>2 DEF In
      <4> QED
        BY <2>2, <4>1 DEF TaskInv, RowsFirst
    <3> QED
      BY <3>1, <3>2
  <2> QED
    BY <1>3, <2>1, <2>2 DEF TaskInv, RowsFirst
<1>6. Settles(u)'
  <2>1. ASSUME Has(u, {"done"}) PROVE \A i \in DOMAIN bridge' : Of(u, i)' => bridge'[i].what = "cancelled"
    BY <1>1, <2>1 DEF TaskInv, Settles
  <2>2. ASSUME Has(u, {"done"}), pc[u] = "settle" PROVE u \notin bad'
    <3>1. u \notin bad
      BY <2>2 DEF TaskInv, Settles
    <3>2. bridge[1] # Awaited(u)
      <4> SUFFICES ASSUME bridge[1] = Awaited(u) PROVE FALSE
        OBVIOUS
      <4>1. Awaited(u).task = u /\ Awaited(u).what = "done" /\ 1 \in DOMAIN bridge
        BY <2>2, AwaitedFacts, Shifted DEF Waiting, TypeInv
      <4>2. Of(u, 1)
        BY <4>1 DEF Of
      <4> QED
        BY <2>2, <4>1, <4>2 DEF TaskInv, Settles
    <3> QED
      BY <3>1, <3>2
  <2> QED
    BY <1>3, <1>4, <2>1, <2>2 DEF TaskInv, Settles
<1>7. Recorded(u)'
  <2>1. ASSUME pc[u] \in {"settle", "fail", "drop"}, u \notin bad', ~In(Awaited(u))' PROVE Spoilt \/ Has(u, Settled)
    <3>1. bridge[1] # Awaited(u)
      BY <2>1, AwaitedFacts DEF Waiting
    <3>2. ~In(Awaited(u))
      <4>1. PICK w : w = Awaited(u)
        OBVIOUS
      <4>2. In(w) => In(w)' \/ bridge[1] = w
        BY <1>1
      <4>3. In(w)' <=> In(Awaited(u))'
        BY <1>2, <4>1 DEF In
      <4> QED
        BY <2>1, <3>1, <4>1, <4>2, <4>3
    <3> QED
      BY <2>1, <3>2 DEF TaskInv, Recorded
  <2> QED
    BY <1>3, <1>4, <2>1 DEF TaskInv, Recorded
<1> QED
  BY <1>1, <1>5, <1>6, <1>7 DEF TaskInv

(* No unsettled line of a task comes behind a settled one. *)
LEMMA OrderKept ==
  ASSUME TypeInv, NEW u \in Tasks, TaskInv(u), NEW v \in Tasks, NEW w \in States,
         1 \in DOMAIN bridge, bridge[1] = Block(v, w), log' = AddLine(Line(v, w))
  PROVE  \A i, j \in DOMAIN log' :
           i < j /\ log'[i].state \in Settled /\ log'[i] = Line(u, log'[i].state) /\ log'[j] = Line(u, log'[j].state)
             => log'[j].state \in Settled
<1> SUFFICES ASSUME NEW i \in DOMAIN log', NEW j \in DOMAIN log', i < j, log'[i].state \in Settled,
                    log'[i] = Line(u, log'[i].state), log'[j] = Line(u, log'[j].state)
             PROVE  log'[j].state \in Settled
  OBVIOUS
<1>1. /\ i \in DOMAIN log /\ log[i] = log'[i]
      /\ (j \in DOMAIN log /\ log[j] = log'[j]) \/ (u = v /\ log'[j].state = w)
  BY LinesSeen
<1>2. CASE j \in DOMAIN log /\ log[j] = log'[j]
  BY <1>1, <1>2 DEF TaskInv, Settles
<1>3. CASE u = v /\ log'[j].state = w
  <2>1. Of(u, 1) /\ bridge[1].what = w
    BY <1>3 DEF Of, Block, States
  <2>2. Has(u, {"failed", "cancelled"}) \/ Has(u, {"done"})
    BY <1>1 DEF Has, Settled
  <2>3. ~Has(u, {"failed", "cancelled"})
    BY <2>1 DEF TaskInv, Settles, Clear
  <2>4. w = "cancelled"
    BY <2>1, <2>2, <2>3 DEF TaskInv, Settles
  <2> QED
    BY <1>3, <2>4 DEF Settled
<1> QED
  BY <1>1, <1>2, <1>3

(* A block ended with its line. *)
LEMMA LineOver ==
  ASSUME TypeInv, NEW u \in Tasks, TaskInv(u), bridge # <<>>, bridge' = Tail(bridge), UNCHANGED <<pc, cuts, bad, result, expired>>,
         busy, NEW v \in Tasks, NEW w \in States, bridge[1] = Block(v, w), log' = AddLine(Line(v, w))
  PROVE  TaskInv(u)'
<1>1. /\ Queued(u)'
      /\ \A b : In(b)' => In(b)
      /\ \A b : In(b) => In(b)' \/ bridge[1] = b
      /\ \A i \in DOMAIN bridge' : Of(u, i)' =>
           /\ pc[u] \in Waiting /\ bridge'[i] = Awaited(u) /\ In(Awaited(u))
           /\ i + 1 \in DOMAIN bridge /\ Of(u, i + 1) /\ bridge'[i] = bridge[i + 1]
           /\ bridge[1] # Awaited(u)
  BY HeadGone
<1>2. Awaited(u)' = Awaited(u)
  BY DEF Awaited
<1>3. /\ \A s \in SUBSET States : Has(u, s)' => Has(u, s) \/ (u = v /\ w \in s)
      /\ \A s \in SUBSET States : Spoilt \/ Has(u, s) \/ (u = v /\ w \in s) => Spoilt' \/ Has(u, s)'
  BY LinesSeen
<1>4. {"failed", "cancelled"} \in SUBSET States /\ {"done"} \in SUBSET States /\ Settled \in SUBSET States /\ States \in SUBSET States
  BY DEF States, Settled
<1>5. bridge[1].task = v /\ bridge[1].what = w /\ w # "void" /\ w # "result" /\ 1 \in DOMAIN bridge
  BY Shifted DEF Block, States, TypeInv
<1>6. u = v => Of(u, 1)
  BY <1>5 DEF Of
<1>7. u = v => (pc[u] \in Waiting /\ bridge[1] = Awaited(u)) \/ LeftRunning(u, 1)
  BY <1>5, <1>6 DEF TaskInv, Queued
<1>8. Clear(u) => u # v /\ Clear(u)'
  BY <1>1, <1>5, <1>6 DEF Clear
<1>9. RowsFirst(u)'
  <2> SUFFICES ASSUME u \in Queries PROVE RowsFirst(u)'
    BY DEF RowsFirst
  <2>1. In(Block(u, "done"))' => In(Block(u, "done"))
    BY <1>1 DEF In
  <2>2. u = v /\ w \in {"done"} => In(Block(u, "done"))
    BY <1>5 DEF In
  <2>3. In(Block(u, "result")) => In(Block(u, "result"))'
    <3>1. bridge[1] # Block(u, "result")
      BY <1>5 DEF Block
    <3> QED
      BY <1>1, <3>1 DEF In
  <2> QED
    BY <1>3, <1>4, <2>1, <2>2, <2>3 DEF TaskInv, RowsFirst, Kept
<1>10. Has(u, {"failed", "cancelled"})' => pc[u] \in {"fail", "drop", "over", "gone"} /\ Clear(u)'
  <2>1. CASE Has(u, {"failed", "cancelled"})
    BY <1>8, <2>1 DEF TaskInv, Settles
  <2>2. CASE u = v /\ w \in {"failed", "cancelled"}
    <3>1. CASE pc[u] \in Waiting /\ bridge[1] = Awaited(u)
      <4>1. pc[u] \in {"fail", "drop"}
        BY <1>5, <2>2, <3>1, AwaitedFacts
      <4> QED
        BY <1>1, <3>1, <4>1 DEF Clear
    <3>2. CASE LeftRunning(u, 1)
      <4>1. pc[u] = "over"
        BY <1>5, <2>2, <3>2 DEF LeftRunning
      <4> QED
        BY <1>1, <4>1 DEF Clear, Waiting
    <3> QED
      BY <1>7, <2>2, <3>1, <3>2
  <2> QED
    BY <1>3, <1>4, <2>1, <2>2
<1>11. Has(u, {"done"})' =>
         /\ pc[u] \in {"settle", "drop", "over", "gone"}
         /\ pc[u] = "settle" => u \notin bad
         /\ \A i \in DOMAIN bridge' : Of(u, i)' => bridge'[i].what = "cancelled"
  <2>1. CASE Has(u, {"done"})
    BY <1>1, <2>1 DEF TaskInv, Settles
  <2>2. CASE u = v /\ w = "done"
    <3>1. CASE pc[u] \in Waiting /\ bridge[1] = Awaited(u)
      <4>1. pc[u] = "settle" /\ In(Awaited(u))
        BY <1>5, <2>2, <3>1, AwaitedFacts DEF In
      <4>2. u \notin bad
        BY <4>1 DEF TaskInv, Queued
      <4> QED
        BY <1>1, <3>1, <4>1, <4>2
    <3>2. CASE LeftRunning(u, 1)
      <4>1. pc[u] \in {"drop", "over"}
        BY <3>2 DEF LeftRunning
      <4>2. ASSUME NEW i \in DOMAIN bridge', Of(u, i)' PROVE bridge'[i].what = "cancelled"
        <5>1. pc[u] \in Waiting /\ bridge'[i] = Awaited(u)
          BY <1>1, <4>2
        <5>2. pc[u] = "drop"
          BY <4>1, <5>1 DEF Waiting
        <5> QED
          BY <5>1, <5>2, AwaitedFacts
      <4> QED
        BY <4>1, <4>2
    <3> QED
      BY <1>7, <2>2, <3>1, <3>2
  <2> QED
    BY <1>3, <1>4, <2>1, <2>2
<1>12. \A i, j \in DOMAIN log' :
         i < j /\ log'[i].state \in Settled /\ log'[i] = Line(u, log'[i].state) /\ log'[j] = Line(u, log'[j].state)
           => log'[j].state \in Settled
  BY <1>5, OrderKept
<1>13. Settles(u)'
  BY <1>10, <1>11, <1>12 DEF Settles
<1>14. Recorded(u)'
  <2>1. ASSUME pc[u] \in {"settle", "fail", "drop"}, u \notin bad, ~In(Awaited(u))' PROVE Spoilt' \/ Has(u, Settled)'
    <3>1. CASE bridge[1] = Awaited(u)
      <4>1. u = v /\ w \in Settled
        BY <1>5, <2>1, <3>1, AwaitedFacts DEF Settled, Waiting
      <4> QED
        BY <1>3, <1>4, <4>1
    <3>2. CASE bridge[1] # Awaited(u)
      <4>1. ~In(Awaited(u))
        BY <1>1, <1>2, <2>1, <3>2 DEF In
      <4>2. Spoilt \/ Has(u, Settled)
        BY <2>1, <4>1 DEF TaskInv, Recorded
      <4> QED
        BY <1>3, <1>4, <4>2
    <3> QED
      BY <3>1, <3>2
  <2>2. ASSUME pc[u] = "over", cuts[u] = {} PROVE Clear(u)' /\ (Spoilt' \/ Has(u, Settled)' \/ ~Has(u, States)')
    <3>1. Clear(u) /\ (Spoilt \/ Has(u, Settled) \/ ~Has(u, States))
      BY <2>2 DEF TaskInv, Recorded
    <3>2. CASE Spoilt \/ Has(u, Settled)
      BY <1>3, <1>4, <1>8, <3>1, <3>2
    <3>3. CASE ~Has(u, States)
      BY <1>3, <1>4, <1>8, <3>1, <3>3
    <3> QED
      BY <3>1, <3>2, <3>3
  <2> QED
    BY <2>1, <2>2 DEF Recorded
<1> QED
  BY <1>1, <1>9, <1>13, <1>14 DEF TaskInv

LEMMA ThreadKeeps ==
  ASSUME Inv, Take \/ Run \/ RunFails
  PROVE  Inv'
<1>1. TypeInv /\ \A u \in Tasks : TaskInv(u)
  BY DEF Inv
<1>2. /\ bridge \in Seq(Blocks)
      /\ bridge # <<>> => Tail(bridge) \in Seq(Blocks) /\ Head(bridge) = bridge[1] /\ bridge[1] \in Blocks /\ 1 \in DOMAIN bridge
  BY <1>1, Shifted DEF TypeInv
<1>3. \A b \in Blocks : b.task \in Tasks /\ b.what \in States \cup {"result", "void"} /\ b = Block(b.task, b.what)
                        /\ (b.what = "result" => b.task \in Queries)
  BY DEF Blocks, Block
<1>4. CASE Take /\ Head(bridge).what = "void"
  <2>1. bridge # <<>> /\ ~busy /\ bridge' = Tail(bridge) /\ UNCHANGED <<busy, durable, closing, pc, hit, bad, cuts, counts>>
    BY <1>4 DEF Take
  <2>2. UNCHANGED <<log, result, expired>>
    BY <2>1 DEF durable
  <2>3. TypeInv'
    BY <1>1, <1>2, <2>1 DEF TypeInv, durable, closing, counts
  <2>4. ASSUME NEW u \in Tasks PROVE TaskInv(u)'
    <3>1. ~(pc[u] \in Waiting /\ bridge[1] = Awaited(u))
      BY <1>1, <1>2, <1>4, <2>1, AwaitedFacts
    <3>2. Kept(u)' <=> Kept(u)
      BY <2>2 DEF Kept
    <3> QED
      BY <1>1, <2>1, <2>2, <3>1, <3>2, BlockOver
  <2> QED
    BY <2>3, <2>4 DEF Inv
<1>5. CASE Take /\ Head(bridge).what # "void"
  <2>1. bridge # <<>> /\ busy' = TRUE /\ bridge' = bridge /\ UNCHANGED <<durable, closing, pc, hit, bad, cuts, counts>>
    BY <1>5 DEF Take
  <2>2. UNCHANGED <<log, result, expired>>
    BY <2>1 DEF durable
  <2>3. TypeInv'
    BY <1>1, <1>2, <1>5, <2>1 DEF TypeInv, durable, closing, counts
  <2>4. ASSUME NEW u \in Tasks PROVE TaskInv(u)'
    <3>1. Untouched(u)
      BY <2>1 DEF Untouched
    <3> QED
      BY <1>1, <2>1, <2>2, <3>1, OthersKept
  <2> QED
    BY <2>3, <2>4 DEF Inv
<1>6. CASE Run
  <2> DEFINE v == bridge[1].task  w == bridge[1].what
  <2>1. /\ busy /\ bridge' = Tail(bridge) /\ busy' = FALSE /\ UNCHANGED <<expired, closing, pc, hit, bad, cuts, counts>>
        /\ \/ w = "result" /\ result' = result \cup {v} /\ UNCHANGED <<log, unended>>
           \/ w # "result" /\ log' = AddLine(Line(v, w)) /\ unended' = FALSE /\ result' = result
    BY <1>1, <1>2, <1>6 DEF Run, TypeInv
  <2>2. bridge # <<>> /\ w # "void"
    BY <1>1, <2>1 DEF TypeInv
  <2>3. v \in Tasks /\ w \in States \cup {"result"} /\ bridge[1] = Block(v, w) /\ (w = "result" => v \in Queries)
    BY <1>2, <1>3, <2>2
  <2>4. bridge' \in Seq(Blocks)
    BY <1>2, <2>1, <2>2
  <2> HIDE DEF v, w
  <2>5. CASE w = "result"
    <3>1. result' = result \cup {v} /\ UNCHANGED <<log, unended>>
      BY <2>1, <2>5
    <3>2. TypeInv'
      BY <1>1, <2>1, <2>2, <2>3, <2>4, <2>5, <3>1 DEF TypeInv, closing, counts
    <3>3. ASSUME NEW u \in Tasks PROVE TaskInv(u)'
      <4>1. Kept(u) => Kept(u)'
        BY <2>1, <3>1 DEF Kept
      <4>2. pc[u] \in Waiting /\ bridge[1] = Awaited(u) => bridge[1].what = "result" /\ Kept(u)'
        <5>1. pc[u] \in Waiting => Awaited(u).task = u
          BY <1>1, AwaitedFacts
        <5>2. bridge[1].task = v /\ bridge[1].what = w
          BY <2>3 DEF Block
        <5> QED
          BY <2>5, <3>1, <5>1, <5>2 DEF Kept
      <4> QED
        BY <1>1, <2>1, <2>2, <3>1, <4>1, <4>2, BlockOver
    <3> QED
      BY <3>2, <3>3 DEF Inv
  <2>6. CASE w # "result"
    <3>1. w \in States /\ log' = AddLine(Line(v, w)) /\ unended' = FALSE /\ result' = result
      BY <2>1, <2>3, <2>6
    <3>2. Line(v, w) \in Lines
      BY <2>3, <3>1 DEF Line, Lines
    <3>3. log' \in Seq(Lines \cup {Garbled})
      BY <1>1, <3>1, <3>2, LineAdded
    <3>4. TypeInv'
      BY <1>1, <2>1, <2>2, <2>4, <3>1, <3>3 DEF TypeInv, closing, counts
    <3>5. ASSUME NEW u \in Tasks PROVE TaskInv(u)'
      BY <1>1, <2>1, <2>2, <2>3, <3>1, LineOver
    <3> QED
      BY <3>4, <3>5 DEF Inv
  <2> QED
    BY <2>5, <2>6
<1>7. CASE RunFails
  <2> DEFINE v == bridge[1].task
  <2>1. /\ busy /\ bridge' = Tail(bridge) /\ busy' = FALSE /\ UNCHANGED <<durable, closing, pc, hit, cuts, cancels>>
        /\ mishaps' = mishaps + 1
        /\ bad' = IF pc[v] \in Waiting /\ bridge[1] = Awaited(v) THEN bad \cup {v} ELSE bad
    BY <1>1, <1>2, <1>7 DEF RunFails, Mishap, TypeInv
  <2>2. bridge # <<>> /\ UNCHANGED <<log, result, expired>>
    BY <1>1, <2>1 DEF TypeInv, durable
  <2>3. v \in Tasks /\ bridge' \in Seq(Blocks)
    BY <1>2, <1>3, <2>1, <2>2
  <2>4. TypeInv'
    <3>1. bad' \subseteq Tasks /\ mishaps' \in Nat
      BY <1>1, <2>1, <2>3 DEF TypeInv
    <3> HIDE DEF v
    <3> QED
      BY <1>1, <2>1, <2>2, <2>3, <3>1 DEF TypeInv, durable, closing
  <2>5. ASSUME NEW u \in Tasks PROVE TaskInv(u)'
    <3>1. pc[u] \in Waiting => Awaited(u).task = u
      BY <1>1, AwaitedFacts
    <3>2. pc[u] \in Waiting /\ bridge[1] = Awaited(u) => u \in bad'
      BY <2>1, <3>1
    <3>3. (u \in bad => u \in bad') /\ (u \in bad' => u \in bad \/ (pc[u] \in Waiting /\ bridge[1] = Awaited(u)))
      BY <2>1
    <3>4. Kept(u) => Kept(u)'
      BY <2>2 DEF Kept
    <3> QED
      BY <1>1, <2>1, <2>2, <3>2, <3>3, <3>4, BlockOver
  <2> QED
    BY <2>4, <2>5 DEF Inv
<1> QED
  BY <1>4, <1>5, <1>6, <1>7

-----------------------------------------------------------------------------
(* Calls, closing, crash and reopen *)

(* Cancelling and closing leave bridge and log to the others. *)
LEMMA CallsKeep ==
  ASSUME Inv, (\E t \in Tasks : Cancel(t)) \/ Close \/ Closer
  PROVE  Inv'
<1>1. TypeInv /\ \A u \in Tasks : TaskInv(u)
  BY DEF Inv
<1>2. UNCHANGED <<durable, thread, pc, bad, cuts, mishaps>>
  BY DEF Cancel, Close, Closer, CloseOne, CloseNext, Drain, Shut, counts
<1>3. /\ hit' \subseteq Tasks /\ due' \subseteq Tasks /\ watch' \subseteq Tasks /\ cancels' \in Nat
      /\ phase' \in {"up", "closing", "draining", "shut", "dead"} /\ (phase' = "shut" => bridge = <<>>)
  <2>1. ASSUME NEW t \in Tasks, Cancel(t)
        PROVE  hit' = hit \cup {t} /\ cancels' = cancels + 1 /\ UNCHANGED <<phase, due, watch>>
    BY <2>1 DEF Cancel, closing
  <2>2. ASSUME Close PROVE due' \subseteq Tasks /\ phase' = "closing" /\ UNCHANGED <<hit, watch, cancels>>
    BY <2>2 DEF Close, counts
  <2>3. ASSUME NEW t \in Tasks, CloseOne(t)
        PROVE  due' \subseteq due /\ watch' = {t} /\ hit' \subseteq hit \cup {t} /\ UNCHANGED <<phase, cancels>>
    BY <2>3 DEF CloseOne, counts
  <2>4. ASSUME NEW t \in Tasks, CloseNext(t) PROVE watch' = {} /\ UNCHANGED <<phase, due, hit, cancels>>
    BY <2>4 DEF CloseNext, counts
  <2>5. ASSUME Drain PROVE phase' = "draining" /\ UNCHANGED <<due, watch, hit, cancels>>
    BY <2>5 DEF Drain, counts
  <2>6. ASSUME Shut PROVE phase' = "shut" /\ bridge = <<>> /\ UNCHANGED <<due, watch, hit, cancels>>
    BY <2>6 DEF Shut, counts
  <2> QED
    BY <1>1, <2>1, <2>2, <2>3, <2>4, <2>5, <2>6 DEF Closer, TypeInv
<1>4. TypeInv'
  BY <1>1, <1>2, <1>3 DEF TypeInv, durable, thread
<1>5. ASSUME NEW u \in Tasks PROVE TaskInv(u)'
  <2>1. Untouched(u)
    BY <1>2 DEF Untouched, thread
  <2> QED
    BY <1>1, <1>2, <2>1, OthersKept DEF durable, thread
<1> QED
  BY <1>4, <1>5 DEF Inv

(* The process is gone: what the log still has to bear out. *)
LEMMA ProcessGone ==
  ASSUME TypeInv, NEW u \in Tasks, TaskInv(u), bridge' = <<>>, bad' = {}, UNCHANGED cuts,
         pc' = [t \in Tasks |-> IF pc[t] \in Live \cup {"birth"} THEN "gone" ELSE pc[t]],
         Kept(u) => Kept(u)',
         Has(u, {"done"})' => Has(u, {"done"}) \/ In(Block(u, "done")),
         Has(u, Settled)' => Has(u, Settled) \/ ~Clear(u),
         pc[u] = "over" /\ Clear(u) /\ (Spoilt \/ Has(u, Settled) \/ ~Has(u, States))
           => Spoilt' \/ Has(u, Settled)' \/ ~Has(u, States)',
         \A i, j \in DOMAIN log' :
           i < j /\ log'[i].state \in Settled /\ log'[i] = Line(u, log'[i].state) /\ log'[j] = Line(u, log'[j].state)
             => log'[j].state \in Settled
  PROVE  TaskInv(u)'
<1>1. \A i \in DOMAIN bridge' : FALSE
  OBVIOUS
<1>2. pc'[u] = (IF pc[u] \in Live \cup {"birth"} THEN "gone" ELSE pc[u]) /\ pc[u] \in Places
  BY DEF TypeInv
<1>3. pc'[u] \in {"none", "over", "gone"} /\ (pc'[u] = "over" => pc[u] = "over") /\ (pc'[u] = "none" => pc[u] = "none")
  BY <1>2 DEF Places
<1>4. Queued(u)'
  BY <1>1, <1>3 DEF Queued, Waiting
<1>5. RowsFirst(u)'
  <2>1. ~In(Block(u, "done"))'
    BY <1>1 DEF In
  <2> QED
    BY <1>3, <2>1 DEF TaskInv, RowsFirst
<1>6. Settles(u)'
  <2>1. Has(u, {"failed", "cancelled"})' => Has(u, Settled)'
    BY DEF Has, Settled
  <2>2. Has(u, {"done"})' => Has(u, Settled)'
    BY DEF Has, Settled
  <2>3. pc[u] = "none" => Clear(u) /\ ~Has(u, Settled)
    BY ClearFacts, NotSettled
  <2>4. Clear(u)'
    BY <1>1 DEF Clear
  <2> QED
    BY <1>1, <1>3, <2>1, <2>2, <2>3, <2>4 DEF Settles
<1>7. Recorded(u)'
  <2>1. Clear(u)'
    BY <1>1 DEF Clear
  <2>2. pc[u] = "over" /\ cuts[u] = {} => Clear(u) /\ (Spoilt \/ Has(u, Settled) \/ ~Has(u, States))
    BY DEF TaskInv, Recorded
  <2> QED
    BY <1>3, <2>1, <2>2 DEF Recorded
<1> QED
  BY <1>4, <1>5, <1>6, <1>7 DEF TaskInv

LEMMA GoneTypes ==
  ASSUME TypeInv, pc' = [t \in Tasks |-> IF pc[t] \in Live \cup {"birth"} THEN "gone" ELSE pc[t]]
  PROVE  pc' \in [Tasks -> Places] /\ \A t \in Tasks : pc'[t] = "persist" => t \in Queries
<1>1. "persist" \in Live /\ "gone" \in Places
  BY DEF Live, Waiting, Places
<1> QED
  BY <1>1 DEF TypeInv

(* A line cut short: every other line is what it was, or lost as well. *)
LEMMA CutSeen ==
  ASSUME TypeInv, log' = AddLine(Garbled), NEW u \in Tasks
  PROVE  /\ Spoilt' /\ log' \in Seq(Lines \cup {Garbled}) /\ log' # <<>>
         /\ \A s \in SUBSET States : Has(u, s)' => Has(u, s)
         /\ \A i \in DOMAIN log' : \A x : log'[i] = Line(u, x) => i \in DOMAIN log /\ log[i] = log'[i]
<1>1. /\ log' \in Seq(Lines \cup {Garbled}) /\ log' # <<>>
      /\ \/ log' = Append(log, Garbled)
         \/ /\ \E i \in DOMAIN log' : log'[i] = Garbled
            /\ DOMAIN log' = DOMAIN log
            /\ \A i \in DOMAIN log : log'[i] = log[i] \/ log'[i] = Garbled
  BY LineAdded
<1>2. /\ \E i \in DOMAIN log' : log'[i] = Garbled
      /\ \A i \in DOMAIN log' : log'[i] = Garbled \/ (i \in DOMAIN log /\ log[i] = log'[i])
  <2>1. CASE log' = Append(log, Garbled)
    <3>1. /\ Len(log) + 1 \in DOMAIN log' /\ log'[Len(log) + 1] = Garbled
          /\ \A i \in DOMAIN log : log'[i] = log[i]
          /\ \A i \in DOMAIN log' : i \in DOMAIN log \/ i = Len(log) + 1
      BY <2>1, Appended DEF TypeInv
    <3> QED
      BY <3>1
  <2> QED
    BY <1>1, <2>1
<1>3. \A i \in DOMAIN log' : \A x : log'[i] = Line(u, x) => i \in DOMAIN log /\ log[i] = log'[i]
  BY <1>2, GarbledIsNoLine
<1>4. ASSUME NEW s \in SUBSET States, Has(u, s)' PROVE Has(u, s)
  <2>1. PICK i \in DOMAIN log', x \in s : log'[i] = Line(u, x)
    BY <1>4 DEF Has
  <2> QED
    BY <1>3, <2>1 DEF Has
<1> QED
  BY <1>1, <1>2, <1>3, <1>4 DEF Spoilt

LEMMA CrashKeeps ==
  ASSUME Inv, Crash
  PROVE  Inv'
<1>1. TypeInv /\ \A u \in Tasks : TaskInv(u)
  BY DEF Inv
<1>2. /\ mishaps' = mishaps + 1 /\ cancels' = cancels /\ phase' = "dead"
      /\ bridge' = <<>> /\ busy' = FALSE /\ hit' = {} /\ bad' = {} /\ due' = {} /\ watch' = {}
      /\ pc' = [t \in Tasks |-> IF pc[t] \in Live \cup {"birth"} THEN "gone" ELSE pc[t]]
      /\ UNCHANGED <<result, expired, cuts>>
  BY DEF Crash, Mishap
<1>3. pc' \in [Tasks -> Places] /\ \A t \in Tasks : pc'[t] = "persist" => t \in Queries
  BY <1>1, <1>2, GoneTypes
<1>4. ASSUME log' \in Seq(Lines \cup {Garbled}), unended' \in BOOLEAN, unended' => log' # <<>> PROVE TypeInv'
  <2>1. bridge' \in Seq(Blocks)
    BY <1>2
  <2>2. /\ cancels' \in Nat /\ mishaps' \in Nat /\ result' \subseteq Queries /\ expired' \subseteq Queries
        /\ cuts' \in [Tasks -> SUBSET {"fresh", "fail", "drop", "disk", "shut"}]
    BY <1>1, <1>2 DEF TypeInv
  <2> QED
    BY <1>2, <1>3, <1>4, <2>1, <2>2 DEF TypeInv
<1>5. \A u : Kept(u)' <=> Kept(u)
  BY <1>2 DEF Kept
<1>6. Settled \in SUBSET States /\ {"done"} \in SUBSET States /\ States \in SUBSET States
  BY DEF Settled, States
<1>7. CASE UNCHANGED <<log, unended>>
  <2>1. TypeInv'
    BY <1>1, <1>4, <1>7 DEF TypeInv
  <2>2. ASSUME NEW u \in Tasks PROVE TaskInv(u)'
    <3>1. (\A s : Has(u, s)' <=> Has(u, s)) /\ (Spoilt' <=> Spoilt)
      BY <1>7 DEF Has, Spoilt
    <3>2. \A i, j \in DOMAIN log' :
            i < j /\ log'[i].state \in Settled /\ log'[i] = Line(u, log'[i].state) /\ log'[j] = Line(u, log'[j].state)
              => log'[j].state \in Settled
      BY <1>1, <1>7 DEF TaskInv, Settles
    <3> QED
      BY <1>1, <1>2, <1>5, <3>1, <3>2, ProcessGone
  <2> QED
    BY <2>1, <2>2 DEF Inv
<1>8. CASE log' = AddLine(Garbled) /\ unended' = TRUE
  <2>1. ASSUME NEW u \in Tasks PROVE TypeInv' /\ TaskInv(u)'
    <3>1. /\ Spoilt' /\ log' \in Seq(Lines \cup {Garbled}) /\ log' # <<>>
          /\ \A s \in SUBSET States : Has(u, s)' => Has(u, s)
          /\ \A i \in DOMAIN log' : \A x : log'[i] = Line(u, x) => i \in DOMAIN log /\ log[i] = log'[i]
      BY <1>1, <1>8, CutSeen
    <3>2. TypeInv'
      BY <1>4, <1>8, <3>1
    <3>3. \A i, j \in DOMAIN log' :
            i < j /\ log'[i].state \in Settled /\ log'[i] = Line(u, log'[i].state) /\ log'[j] = Line(u, log'[j].state)
              => log'[j].state \in Settled
      BY <1>1, <3>1 DEF TaskInv, Settles
    <3> QED
      BY <1>1, <1>2, <1>5, <1>6, <3>1, <3>2, <3>3, ProcessGone
  <2>2. TypeInv'
    BY <1>1, <1>4, <1>8, LineAdded
  <2> QED
    BY <2>1, <2>2 DEF Inv
<1>9. CASE /\ busy /\ Head(bridge).what # "result" /\ unended' = TRUE
           /\ log' = AddLine(Line(Head(bridge).task, Head(bridge).what))
  <2> DEFINE v == bridge[1].task  w == bridge[1].what
  <2>1. Head(bridge) = bridge[1] /\ bridge[1] \in Blocks /\ 1 \in DOMAIN bridge /\ w # "void"
    BY <1>1, <1>9, Shifted DEF TypeInv
  <2>2. v \in Tasks /\ w \in States /\ bridge[1] = Block(v, w) /\ log' = AddLine(Line(v, w))
    BY <1>9, <2>1 DEF Blocks, Block
  <2> HIDE DEF v, w
  <2>3. Line(v, w) \in Lines
    BY <2>2 DEF Line, Lines
  <2>4. TypeInv'
    BY <1>1, <1>4, <1>9, <2>2, <2>3, LineAdded
  <2>5. ASSUME NEW u \in Tasks PROVE TaskInv(u)'
    <3>1. /\ \A s \in SUBSET States : Has(u, s)' => Has(u, s) \/ (u = v /\ w \in s)
          /\ \A s \in SUBSET States : Spoilt \/ Has(u, s) \/ (u = v /\ w \in s) => Spoilt' \/ Has(u, s)'
      BY <1>1, <2>2, LinesSeen
    <3>2. \A i, j \in DOMAIN log' :
            i < j /\ log'[i].state \in Settled /\ log'[i] = Line(u, log'[i].state) /\ log'[j] = Line(u, log'[j].state)
              => log'[j].state \in Settled
      BY <1>1, <2>1, <2>2, OrderKept
    <3>3. u = v => ~Clear(u)
      BY <2>1, <2>2 DEF Clear, Of, Block, States
    <3>4. u = v /\ w = "done" => In(Block(u, "done"))
      BY <2>1, <2>2 DEF In
    <3>5. Has(u, {"done"})' => Has(u, {"done"}) \/ In(Block(u, "done"))
      BY <1>6, <3>1, <3>4
    <3>6. Has(u, Settled)' => Has(u, Settled) \/ ~Clear(u)
      BY <1>6, <3>1, <3>3
    <3>7. Clear(u) /\ (Spoilt \/ Has(u, Settled) \/ ~Has(u, States)) => Spoilt' \/ Has(u, Settled)' \/ ~Has(u, States)'
      BY <1>6, <3>1, <3>3
    <3> QED
      BY <1>1, <1>2, <1>5, <3>2, <3>5, <3>6, <3>7, ProcessGone
  <2> QED
    BY <2>4, <2>5 DEF Inv
<1> QED
  BY <1>7, <1>8, <1>9 DEF Crash

LEMMA ReopenKeeps ==
  ASSUME Inv, Reopen
  PROVE  Inv'
<1>1. TypeInv /\ \A u \in Tasks : TaskInv(u)
  BY DEF Inv
<1>2. /\ phase' = "up" /\ bridge' = <<>> /\ busy' = FALSE /\ hit' = {} /\ bad' = {}
      /\ pc' = [t \in Tasks |-> IF pc[t] \in Live \cup {"birth"} THEN "gone" ELSE pc[t]]
      /\ UNCHANGED <<due, watch, cuts, cancels, mishaps>>
  BY DEF Reopen, counts
<1>3. PICK old \in SUBSET result :
        /\ result' = result \ old /\ expired' = expired \cup old
        /\ UNCHANGED <<log, unended>> \/ (result' = {} /\ log' = <<>> /\ unended' = FALSE)
  BY DEF Reopen
<1>4. pc' \in [Tasks -> Places] /\ \A t \in Tasks : pc'[t] = "persist" => t \in Queries
  BY <1>1, <1>2, GoneTypes
<1>5. log' \in Seq(Lines \cup {Garbled}) /\ unended' \in BOOLEAN /\ (unended' => log' # <<>>)
  <2>1. CASE UNCHANGED <<log, unended>>
    BY <1>1, <2>1 DEF TypeInv
  <2>2. CASE log' = <<>> /\ unended' = FALSE
    <3>1. <<>> \in Seq(Lines \cup {Garbled})
      OBVIOUS
    <3> QED
      BY <2>2, <3>1
  <2> QED
    BY <1>3, <2>1, <2>2
<1>6. result' \subseteq Queries /\ expired' \subseteq Queries
  BY <1>1, <1>3 DEF TypeInv
<1>7. TypeInv'
  <2>1. bridge' \in Seq(Blocks)
    BY <1>2
  <2>2. /\ due' \subseteq Tasks /\ watch' \subseteq Tasks /\ cancels' \in Nat /\ mishaps' \in Nat
        /\ cuts' \in [Tasks -> SUBSET {"fresh", "fail", "drop", "disk", "shut"}]
    BY <1>1, <1>2 DEF TypeInv
  <2> QED
    BY <1>2, <1>4, <1>5, <1>6, <2>1, <2>2 DEF TypeInv
<1>8. ASSUME NEW u \in Tasks PROVE TaskInv(u)'
  <2>1. Kept(u) => Kept(u)'
    BY <1>3 DEF Kept
  <2>2. CASE UNCHANGED <<log, unended>>
    <3>1. (\A s : Has(u, s)' <=> Has(u, s)) /\ (Spoilt' <=> Spoilt)
      BY <2>2 DEF Has, Spoilt
    <3>2. \A i, j \in DOMAIN log' :
            i < j /\ log'[i].state \in Settled /\ log'[i] = Line(u, log'[i].state) /\ log'[j] = Line(u, log'[j].state)
              => log'[j].state \in Settled
      BY <1>1, <2>2 DEF TaskInv, Settles
    <3> QED
      BY <1>1, <1>2, <2>1, <3>1, <3>2, ProcessGone
  <2>3. CASE log' = <<>>
    <3>1. \A s : ~Has(u, s)'
      BY <2>3 DEF Has
    <3> QED
      BY <1>1, <1>2, <2>1, <2>3, <3>1, ProcessGone
  <2> QED
    BY <1>3, <2>2, <2>3
<1> QED
  BY <1>7, <1>8 DEF Inv

-----------------------------------------------------------------------------
(* Theorems *)

LEMMA Initially == ASSUME Init PROVE Inv
<1>1. /\ log = <<>> /\ unended = FALSE /\ result = {} /\ expired = {} /\ phase = "up" /\ bridge = <<>> /\ busy = FALSE
      /\ hit = {} /\ bad = {} /\ due = {} /\ watch = {} /\ cancels = 0 /\ mishaps = 0
  BY DEF Init
<1>2. /\ pc \in [Tasks -> Places] /\ \A t \in Tasks : pc[t] = "none"
      /\ cuts \in [Tasks -> SUBSET {"fresh", "fail", "drop", "disk", "shut"}]
  BY DEF Init, Places
<1>3. TypeInv
  <2>1. log \in Seq(Lines \cup {Garbled}) /\ bridge \in Seq(Blocks)
    BY <1>1
  <2>2. \A t \in Tasks : pc[t] # "persist"
    BY <1>2
  <2> QED
    BY <1>1, <1>2, <2>1, <2>2 DEF TypeInv
<1>4. ASSUME NEW t \in Tasks PROVE TaskInv(t)
  <2>1. (\A s : ~Has(t, s)) /\ (\A b : ~In(b)) /\ Clear(t) /\ \A i \in DOMAIN log : FALSE
    BY <1>1 DEF Has, In, Clear
  <2>2. \A i \in DOMAIN bridge : FALSE
    BY <1>1
  <2>3. Queued(t)
    BY <1>1, <2>2 DEF Queued
  <2>4. RowsFirst(t) /\ Settles(t) /\ Recorded(t)
    BY <1>2, <2>1 DEF RowsFirst, Settles, Recorded
  <2> QED
    BY <2>3, <2>4 DEF TaskInv
<1> QED
  BY <1>3, <1>4 DEF Inv

LEMMA Stutter == ASSUME Inv, UNCHANGED vars PROVE Inv'
<1>1. TypeInv /\ \A u \in Tasks : TaskInv(u)
  BY DEF Inv
<1>2. UNCHANGED <<log, unended, result, expired, bridge, busy, phase, due, watch, pc, hit, bad, cuts, cancels, mishaps>>
  BY DEF vars, durable, thread, closing, counts
<1>3. TypeInv'
  BY <1>1, <1>2 DEF TypeInv
<1>4. ASSUME NEW u \in Tasks PROVE TaskInv(u)'
  <2>1. Untouched(u)
    BY <1>2 DEF Untouched
  <2> QED
    BY <1>1, <1>2, <2>1, OthersKept
<1> QED
  BY <1>3, <1>4 DEF Inv

(* The inductive invariant: a task's blocks stand on the bridge in the     *)
(* order its wrapper asked for them, and what has been settled, or kept,   *)
(* is never ahead of its block.                                            *)
THEOREM Invariance == Spec => []Inv
<1>1. Inv /\ [Next]_vars => Inv'
  <2> SUFFICES ASSUME Inv, Next PROVE Inv'
    BY Stutter
  <2> QED
    BY WrapperKeeps, RaisedKeeps, ThrownKeeps, ThreadKeeps, CallsKeep, CrashKeeps, ReopenKeeps DEF Next, Wrapper
<1> QED
  BY <1>1, Initially, PTL DEF Spec

(* Types, and that the bridge thread only runs blocks there are. *)
THEOREM TypeCorrect == Spec => []TypeOK
<1>1. ASSUME Inv PROVE TypeOK
  <2>1. TypeInv
    BY <1>1 DEF Inv
  <2>2. bridge \in Seq([task : Tasks, what : States \cup {"result", "void"}])
    <3>1. Blocks \subseteq [task : Tasks, what : States \cup {"result", "void"}]
      BY DEF Blocks
    <3>2. \A S, T : S \subseteq T => Seq(S) \subseteq Seq(T)
      OBVIOUS
    <3>3. bridge \in Seq(Blocks)
      BY <2>1 DEF TypeInv
    <3> HIDE DEF Blocks
    <3> QED
      BY <3>1, <3>2, <3>3, Zenon
  <2>3. busy => bridge # <<>> /\ Head(bridge).what # "void"
    BY <2>1, Shifted DEF TypeInv
  <2>4. pc \in [Tasks -> {"none", "over", "gone"} \cup {"birth"} \cup Live]
    <3>1. {"none", "over", "gone"} \cup {"birth"} \cup Live = Places
      BY DEF Places
    <3> QED
      BY <2>1, <3>1 DEF TypeInv
  <2> QED
    BY <2>1, <2>2, <2>3, <2>4 DEF TypeOK, TypeInv
<1>2. Inv => TypeOK
  BY <1>1
<1> QED
  BY <1>2, Invariance, PTL

(* What status() answers, of any log. *)
MineIn(l, t) == {i \in 1..Len(l) : l[i] # Garbled /\ l[i].task = t}

StatusIn(l, t) ==
  IF \E i \in 1..Len(l) : l[i] = Garbled THEN "unreadable"
  ELSE IF MineIn(l, t) = {} THEN "unknown"
  ELSE l[CHOOSE i \in MineIn(l, t) : \A j \in MineIn(l, t) : j <= i].state

LEMMA StatusFacts ==
  ASSUME NEW l \in Seq(Lines \cup {Garbled}), NEW t \in Tasks
  PROVE  \/ StatusIn(l, t) = "unreadable" /\ \E i \in DOMAIN l : l[i] = Garbled
         \/ /\ \A i \in DOMAIN l : l[i] # Garbled
            /\ \/ StatusIn(l, t) = "unknown" /\ \A i \in DOMAIN l : l[i] # Line(t, l[i].state)
               \/ \E i \in DOMAIN l :
                    /\ l[i] = Line(t, l[i].state) /\ StatusIn(l, t) = l[i].state /\ l[i].state \in States
                    /\ \A j \in DOMAIN l : l[j] = Line(t, l[j].state) => j <= i
<1>1. Len(l) \in Nat /\ DOMAIN l = 1..Len(l) /\ \A i \in DOMAIN l : l[i] \in Lines \cup {Garbled}
  OBVIOUS
<1>2. CASE \E i \in DOMAIN l : l[i] = Garbled
  BY <1>1, <1>2 DEF StatusIn
<1>3. CASE \A i \in DOMAIN l : l[i] # Garbled
  <2>1. \A i \in DOMAIN l : l[i].state \in States /\ (i \in MineIn(l, t) <=> l[i] = Line(t, l[i].state))
    BY <1>1, <1>3 DEF MineIn, Lines, Line
  <2>2. CASE MineIn(l, t) = {}
    BY <1>1, <1>3, <2>1, <2>2 DEF StatusIn
  <2>3. CASE MineIn(l, t) # {}
    <3> DEFINE m == CHOOSE i \in MineIn(l, t) : \A j \in MineIn(l, t) : j <= i
    <3>1. \E i \in MineIn(l, t) : \A j \in MineIn(l, t) : j <= i
      <4>1. MineIn(l, t) \subseteq 1..Len(l)
        BY DEF MineIn
      <4> QED
        BY <1>1, <2>3, <4>1, LargestIn
    <3>2. m \in MineIn(l, t) /\ \A j \in MineIn(l, t) : j <= m
      BY <3>1
    <3>3. StatusIn(l, t) = l[m].state
      BY <1>1, <1>3, <2>3 DEF StatusIn
    <3> HIDE DEF m
    <3>4. m \in DOMAIN l
      BY <1>1, <3>2 DEF MineIn
    <3> QED
      BY <1>3, <2>1, <3>2, <3>3, <3>4
  <2> QED
    BY <2>2, <2>3
<1> QED
  BY <1>2, <1>3

LEMMA StatusNow ==
  ASSUME NEW t \in Tasks
  PROVE  Status(t) = StatusIn(log, t) /\ Status(t)' = StatusIn(log', t)
BY DEF Status, Mine, StatusIn, MineIn

(* task_service.py _drive: rows first, then the done line. *)
THEOREM RowsBeforeDone == Spec => []DoneHasResult
<1>1. ASSUME Inv, NEW t \in Queries, Status(t) = "done" PROVE t \in result \cup expired
  <2>1. t \in Tasks /\ TypeInv /\ TaskInv(t)
    BY <1>1, TasksAssumption DEF Inv
  <2>2. StatusIn(log, t) = "done" /\ log \in Seq(Lines \cup {Garbled})
    BY <1>1, <2>1, StatusNow DEF TypeInv
  <2>3. \E i \in DOMAIN log : log[i] = Line(t, "done")
    BY <2>1, <2>2, StatusFacts
  <2>4. Has(t, {"done"})
    BY <2>3 DEF Has
  <2> QED
    BY <2>1, <2>4 DEF TaskInv, RowsFirst, Kept
<1>2. Inv => DoneHasResult
  BY <1>1 DEF DoneHasResult
<1> QED
  BY <1>2, Invariance, PTL

(* task_service.py _drive: every way out of the wrapper writes a settling  *)
(* line, but for those "cuts" names.                                       *)
THEOREM EndsRecorded == Spec => []EndIsRecorded
<1>1. ASSUME Inv, NEW t \in Tasks, pc[t] = "over", cuts[t] = {} PROVE Status(t) \in Settled \cup {"unreadable", "unknown"}
  <2>1. TypeInv /\ TaskInv(t) /\ log \in Seq(Lines \cup {Garbled}) /\ Status(t) = StatusIn(log, t)
    BY <1>1, StatusNow DEF Inv, TypeInv
  <2>2. Spoilt \/ Has(t, Settled) \/ ~Has(t, States)
    BY <1>1, <2>1 DEF TaskInv, Recorded
  <2>3. ASSUME NEW i \in DOMAIN log, log[i] = Line(t, log[i].state), StatusIn(log, t) = log[i].state, log[i].state \in States,
               \A j \in DOMAIN log : log[j] # Garbled,
               \A j \in DOMAIN log : log[j] = Line(t, log[j].state) => j <= i
        PROVE  log[i].state \in Settled
    <3>1. ~Spoilt /\ Has(t, States)
      BY <2>3 DEF Spoilt, Has
    <3>2. PICK k \in DOMAIN log, x \in Settled : log[k] = Line(t, x)
      BY <2>2, <3>1 DEF Has
    <3>3. log[k].state = x /\ k <= i
      BY <2>3, <3>2 DEF Line
    <3>4. CASE k = i
      BY <3>2, <3>3, <3>4
    <3>5. CASE k # i
      <4>1. k < i
        BY <2>1, <3>3, <3>5
      <4> QED
        BY <2>1, <2>3, <3>2, <3>3, <4>1 DEF TaskInv, Settles
    <3> QED
      BY <3>4, <3>5
  <2> QED
    BY <2>1, <2>3, StatusFacts
<1>2. Inv => EndIsRecorded
  BY <1>1 DEF EndIsRecorded
<1> QED
  BY <1>2, Invariance, PTL

(* The log only changes by the line the thread was writing, whole or cut,  *)
(* and by the retention.                                                   *)
LEMMA LogMoves ==
  ASSUME Inv, Next
  PROVE  \/ log' = log \/ log' = <<>> \/ log' = AddLine(Garbled)
         \/ \E v \in Tasks, w \in States :
              log' = AddLine(Line(v, w)) /\ bridge # <<>> /\ bridge[1] = Block(v, w)
<1>1. TypeInv
  BY DEF Inv
<1>2. ASSUME busy, Head(bridge).what # "result"
      PROVE  \E v \in Tasks, w \in States :
               /\ Head(bridge).task = v /\ Head(bridge).what = w
               /\ bridge # <<>> /\ bridge[1] = Block(v, w)
  <2>1. bridge # <<>> /\ bridge[1].what # "void" /\ Head(bridge) = bridge[1] /\ bridge[1] \in Blocks
    BY <1>1, <1>2, Shifted DEF TypeInv
  <2>2. \A b \in Blocks : b.task \in Tasks /\ b.what \in States \cup {"result", "void"} /\ b = Block(b.task, b.what)
    BY DEF Blocks, Block
  <2> QED
    BY <1>2, <2>1, <2>2
<1>3. CASE UNCHANGED durable
  BY <1>3 DEF durable
<1>4. ASSUME NEW t \in Tasks, Submit(t) \/ Wrapper(t) \/ BodyReturns(t) \/ BodyRaises(t) \/ Cancel(t)
      PROVE  UNCHANGED durable
  BY <1>4 DEF Submit, Wrapper, Create, Begin, Marked, TimesOut, Persisted, Ends, BlockRaised, Thrown,
              BodyReturns, BodyRaises, Cancel
<1>5. ASSUME Take \/ RunFails \/ Close \/ Closer PROVE UNCHANGED durable
  BY <1>5 DEF Take, RunFails, Close, Closer, CloseOne, CloseNext, Drain, Shut
<1>6. CASE Run
  <2>1. log' = log \/ (busy /\ Head(bridge).what # "result" /\ log' = AddLine(Line(Head(bridge).task, Head(bridge).what)))
    BY <1>6 DEF Run
  <2> QED
    BY <1>2, <2>1
<1>7. CASE Crash
  <2>1. \/ log' = log
        \/ log' = AddLine(Garbled)
        \/ busy /\ Head(bridge).what # "result" /\ log' = AddLine(Line(Head(bridge).task, Head(bridge).what))
    BY <1>7 DEF Crash
  <2> QED
    BY <1>2, <2>1
<1>8. CASE Reopen
  BY <1>8 DEF Reopen
<1> QED
  BY <1>3, <1>4, <1>5, <1>6, <1>7, <1>8 DEF Next

(* What a settled task's last line becomes when a line is added. *)
LEMMA SettledThen ==
  ASSUME TypeInv, NEW t \in Tasks, TaskInv(t), NEW v \in Tasks, NEW w \in States,
         log' = AddLine(Line(v, w)), bridge # <<>>, bridge[1] = Block(v, w),
         StatusIn(log, t) \in Settled, StatusIn(log', t) \notin {"unreadable", "unknown"}
  PROVE  StatusIn(log', t) = StatusIn(log, t) \/ (StatusIn(log, t) = "done" /\ StatusIn(log', t) = "cancelled")
<1> DEFINE l == Line(v, w)
<1>1. /\ l \in Lines \cup {Garbled} /\ \A u, x : Line(u, x).task = u /\ Line(u, x).state = x
  BY DEF Line, Lines
<1>2. /\ log' \in Seq(Lines \cup {Garbled}) /\ log \in Seq(Lines \cup {Garbled})
      /\ log' = Append(log, l) \/ \E i \in DOMAIN log' : log'[i] = Garbled
  BY <1>1, LineAdded DEF TypeInv
<1>3. PICK i \in DOMAIN log : log[i] = Line(t, StatusIn(log, t)) /\ \A j \in DOMAIN log : log[j] = Line(t, log[j].state) => j <= i
  BY <1>2, StatusFacts DEF Settled
<1>4. PICK k \in DOMAIN log' :
        /\ log'[k] = Line(t, StatusIn(log', t)) /\ \A j \in DOMAIN log' : log'[j] = Line(t, log'[j].state) => j <= k
        /\ \A j \in DOMAIN log' : log'[j] # Garbled
  BY <1>2, StatusFacts
<1> DEFINE s == StatusIn(log, t)  r == StatusIn(log', t)
<1> HIDE DEF l, s, r
<1>5. log' = Append(log, l)
  BY <1>2, <1>4
<1>6. /\ DOMAIN log = 1..Len(log) /\ Len(log) \in Nat
      /\ i \in DOMAIN log' /\ log'[i] = log[i]
      /\ log'[Len(log) + 1] = l
      /\ \A j \in DOMAIN log : log'[j] = log[j]
      /\ \A j \in DOMAIN log' : j \in DOMAIN log \/ j = Len(log) + 1
  BY <1>1, <1>2, <1>5, Appended
<1>7. CASE k \in DOMAIN log
  <2>1. log[k] = Line(t, r) /\ log[k].state = r /\ log[i].state = s
    BY <1>1, <1>3, <1>4, <1>6, <1>7 DEF r, s
  <2>2. k <= i
    BY <1>3, <1>7, <2>1
  <2>3. log'[i] = Line(t, log'[i].state)
    BY <1>3, <1>6, <2>1 DEF s
  <2>4. i <= k
    BY <1>4, <1>6, <2>3
  <2>5. i = k
    BY <1>6, <1>7, <2>2, <2>4
  <2> QED
    BY <2>1, <2>5 DEF r, s
<1>8. CASE k = Len(log) + 1
  <2>1. l = Line(t, r)
    BY <1>4, <1>6, <1>8 DEF r
  <2>2. v = t /\ w = r
    BY <1>1, <2>1 DEF l
  <2>3. 1 \in DOMAIN bridge /\ bridge[1].task = t /\ bridge[1].what = w /\ w # "void"
    BY <2>2, Shifted DEF Block, States, TypeInv
  <2>4. Of(t, 1)
    BY <2>3 DEF Of
  <2>5. ~Clear(t)
    BY <2>3, <2>4 DEF Clear
  <2>6. s \in {"failed", "cancelled"} => Has(t, {"failed", "cancelled"})
    BY <1>3 DEF Has, s
  <2>7. s = "done" => Has(t, {"done"})
    BY <1>3 DEF Has, s
  <2>8. s = "done"
    BY <2>5, <2>6 DEF TaskInv, Settles, Settled, s
  <2>9. w = "cancelled"
    BY <2>3, <2>4, <2>7, <2>8 DEF TaskInv, Settles
  <2> QED
    BY <2>2, <2>8, <2>9 DEF r, s
<1> QED
  BY <1>6, <1>7, <1>8

(* task_service.py: no late line takes a settled task back; only a         *)
(* cancellation that overlapped the done line's append comes after it.     *)
THEOREM SettledStays == Spec => SettledForGood
<1>1. ASSUME Inv, [Next]_vars, NEW t \in Tasks, Status(t) \in Settled
      PROVE  \/ Status(t)' \in {Status(t), "unreadable", "unknown"}
             \/ Status(t) = "done" /\ Status(t)' = "cancelled"
  <2>1. TypeInv /\ TaskInv(t) /\ Status(t) = StatusIn(log, t) /\ Status(t)' = StatusIn(log', t)
    BY <1>1, StatusNow DEF Inv
  <2>2. CASE log' = log
    BY <2>1, <2>2
  <2>3. CASE log' = <<>>
    <3>1. log' \in Seq(Lines \cup {Garbled}) /\ DOMAIN log' = {}
      BY <2>3
    <3> QED
      BY <2>1, <3>1, StatusFacts
  <2>4. CASE log' = AddLine(Garbled)
    <3>1. log' \in Seq(Lines \cup {Garbled}) /\ \E i \in DOMAIN log' : log'[i] = Garbled
      BY <2>1, <2>4, CutSeen DEF Spoilt
    <3> QED
      BY <2>1, <3>1, StatusFacts
  <2>5. CASE \E v \in Tasks, w \in States :
               log' = AddLine(Line(v, w)) /\ bridge # <<>> /\ bridge[1] = Block(v, w)
    <3>1. PICK v \in Tasks, w \in States :
            log' = AddLine(Line(v, w)) /\ bridge # <<>> /\ bridge[1] = Block(v, w)
      BY <2>5
    <3> QED
      BY <1>1, <2>1, <3>1, SettledThen
  <2>6. UNCHANGED vars => log' = log
    BY DEF vars, durable
  <2> QED
    BY <1>1, <2>2, <2>3, <2>4, <2>5, <2>6, LogMoves
<1>2. Inv /\ [Next]_vars
        => [\A t \in Tasks :
              /\ Status(t) \in {"failed", "cancelled"}
                   => Status(t)' \in {Status(t), "unreadable", "unknown"}
              /\ Status(t) = "done"
                   => Status(t)' \in {"done", "cancelled", "unreadable", "unknown"}]_vars
  BY <1>1 DEF Settled
<1> QED
  BY <1>2, Invariance, PTL DEF Spec, SettledForGood
=============================================================================
