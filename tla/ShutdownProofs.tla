--------------------------- MODULE ShutdownProofs ---------------------------
(***************************************************************************)
(* What close() guarantees for any number of callers, streams, queries and *)
(* read threads: nobody who is waited for is stranded, and nobody is left  *)
(* on the connection when it is closed.                                    *)
(***************************************************************************)
EXTENDS Shutdown, FiniteSetTheorems, SequenceTheorems, TLAPS

-----------------------------------------------------------------------------
(* Queues without repetitions *)

(* Queueing what is not queued yet. *)
LEMMA AppendFacts ==
  ASSUME NEW S, NEW q \in Seq(S), NEW e \in S, IsInjective(q), e \notin Range(q)
  PROVE  /\ Append(q, e) \in Seq(S)
         /\ IsInjective(Append(q, e))
         /\ \A x : x \in Range(Append(q, e)) <=> x = e \/ x \in Range(q)
<1> DEFINE r == Append(q, e)
<1>1. /\ r \in Seq(S) /\ DOMAIN q = 1..Len(q) /\ DOMAIN r = 1..(Len(q) + 1) /\ Len(q) \in Nat
      /\ r[Len(q) + 1] = e /\ \A i \in 1..Len(q) : r[i] = q[i]
  OBVIOUS
<1> HIDE DEF r
<1>2. \A i \in DOMAIN q : q[i] # e
  BY DEF Range
<1>3. IsInjective(r)
  <2> SUFFICES ASSUME NEW i \in DOMAIN r, NEW j \in DOMAIN r, r[i] = r[j] PROVE i = j
    BY DEF IsInjective
  <2>1. CASE i \in 1..Len(q) /\ j \in 1..Len(q)
    BY <1>1, <2>1 DEF IsInjective
  <2>2. CASE i = Len(q) + 1 \/ j = Len(q) + 1
    BY <1>1, <1>2, <2>2
  <2> QED
    BY <1>1, <2>1, <2>2
<1>4. ASSUME NEW x PROVE x \in Range(r) <=> x = e \/ x \in Range(q)
  <2>1. x \in Range(r) => x = e \/ x \in Range(q)
    <3> SUFFICES ASSUME NEW i \in DOMAIN r, x = r[i] PROVE x = e \/ x \in Range(q)
      BY DEF Range
    <3>1. CASE i = Len(q) + 1
      BY <1>1, <3>1
    <3>2. CASE i \in DOMAIN q
      BY <1>1, <3>2 DEF Range
    <3> QED
      BY <1>1, <3>1, <3>2
  <2>2. x = e => x \in Range(r)
    <3>1. Len(q) + 1 \in DOMAIN r
      BY <1>1
    <3> QED
      BY <1>1, <3>1 DEF Range
  <2>3. x \in Range(q) => x \in Range(r)
    <3> SUFFICES ASSUME NEW i \in DOMAIN q, x = q[i] PROVE x \in Range(r)
      BY DEF Range
    <3>1. i \in DOMAIN r /\ r[i] = x
      BY <1>1
    <3> QED
      BY <3>1 DEF Range
  <2> QED
    BY <2>1, <2>2, <2>3
<1> QED
  BY <1>1, <1>3, <1>4 DEF r

(* What is behind the first n entries. *)
LEMMA DropFacts ==
  ASSUME NEW S, NEW q \in Seq(S), IsInjective(q), NEW n \in Nat
  PROVE  /\ SubSeq(q, n + 1, Len(q)) \in Seq(S)
         /\ IsInjective(SubSeq(q, n + 1, Len(q)))
         /\ \A x : x \in Range(SubSeq(q, n + 1, Len(q))) <=> \E i \in DOMAIN q : i > n /\ q[i] = x
<1> DEFINE r == SubSeq(q, n + 1, Len(q))
<1>1. Len(q) \in Nat /\ DOMAIN q = 1..Len(q)
  OBVIOUS
<1>2. r = [i \in 1..(Len(q) - n) |-> q[i + n]]
  BY <1>1
<1>3. \A i \in 1..(Len(q) - n) : i + n \in DOMAIN q /\ q[i + n] \in S
  BY <1>1
<1>4. r \in Seq(S)
  <2>1. CASE n <= Len(q)
    <3>1. Len(q) - n \in Nat
      BY <1>1, <2>1
    <3> QED
      BY <1>2, <1>3, <3>1, SeqDef
  <2>2. CASE n > Len(q)
    <3>1. 1..(Len(q) - n) = 1..0
      BY <1>1, <2>2
    <3>2. r \in [1..0 -> S]
      BY <1>2, <1>3, <3>1
    <3> QED
      BY <3>2, SeqDef
  <2> QED
    BY <1>1, <2>1, <2>2
<1>5. IsInjective(r)
  BY <1>1, <1>2, <1>3 DEF IsInjective
<1>6. ASSUME NEW x PROVE x \in Range(r) <=> \E i \in DOMAIN q : i > n /\ q[i] = x
  <2>1. ASSUME NEW i \in DOMAIN r, r[i] = x PROVE \E j \in DOMAIN q : j > n /\ q[j] = x
    <3>1. i \in 1..(Len(q) - n) /\ i + n > n /\ r[i] = q[i + n]
      BY <1>1, <1>2, <2>1
    <3> QED
      BY <1>3, <2>1, <3>1
  <2>2. ASSUME NEW i \in DOMAIN q, i > n, q[i] = x PROVE \E j \in DOMAIN r : r[j] = x
    <3>1. i - n \in 1..(Len(q) - n) /\ (i - n) + n = i
      BY <1>1, <2>2
    <3> QED
      BY <1>2, <2>2, <3>1
  <2> QED
    BY <2>1, <2>2 DEF Range
<1> QED
  BY <1>4, <1>5, <1>6

-----------------------------------------------------------------------------
(* The write worker *)

(* The steps of close() before the worker is told. *)
Early == {"open", "streams", "tasks", "raised"}

AheadOfMark(c) == \E i, j \in DOMAIN queue : i < j /\ queue[i] = c /\ queue[j] = STOP

(* Calls are in the queue, in the worker's hands, or answered. *)
WriteInv ==
  /\ call \in [Calls -> {"new", "queued", "begun", "done", "failed"}]
  /\ queue \in Seq(Calls \cup {STOP}) /\ IsInjective(queue)
  /\ worker \in {"get", "busy", "over"} /\ halt \in BOOLEAN /\ owed \subseteq Calls
  /\ \A c : c \in batch <=> c \in Calls /\ call[c] = "begun"
  /\ \A c \in Calls : c \in Range(queue) <=> call[c] = "queued"
  /\ worker # "busy" => batch = {}

Phases == {"open", "streams", "tasks", "writes", "reads", "conn", "closed", "raised"}

(* The worker is told once, late, and what is owed is on its way. *)
StopInv ==
  /\ phase \in Phases
  /\ phase \in Early => halt = FALSE /\ worker # "over" /\ STOP \notin Range(queue) /\ owed = {}
  /\ phase \notin Early => halt = TRUE
  /\ phase \in {"reads", "conn", "closed"} => worker = "over"
  /\ \A c \in owed : call[c] \in {"begun", "done", "failed"} \/ (worker = "get" /\ AheadOfMark(c))

LEMMA SubmitKeeps ==
  ASSUME WriteInv, StopInv, NEW c \in Calls, Submit(c), phase' = phase
  PROVE  WriteInv' /\ StopInv'
<1>1. /\ call[c] = "new" /\ call' = [call EXCEPT ![c] = "queued"] /\ queue' = Append(queue, c)
      /\ UNCHANGED <<worker, batch, halt, owed>> /\ c # STOP
  BY ShutdownAssumption DEF Submit
<1>2. c \notin Range(queue)
  BY <1>1 DEF WriteInv
<1>3. /\ queue' \in Seq(Calls \cup {STOP}) /\ IsInjective(queue')
      /\ \A x : x \in Range(queue') <=> x = c \/ x \in Range(queue)
  BY <1>1, <1>2, AppendFacts DEF WriteInv
<1>4. \A d \in Calls : call'[d] = IF d = c THEN "queued" ELSE call[d]
  BY <1>1 DEF WriteInv
<1>5. WriteInv'
  <2>1. call' \in [Calls -> {"new", "queued", "begun", "done", "failed"}]
    BY <1>1 DEF WriteInv
  <2>2. \A d : d \in batch' <=> d \in Calls /\ call'[d] = "begun"
    BY <1>1, <1>4 DEF WriteInv
  <2>3. \A d \in Calls : d \in Range(queue') <=> call'[d] = "queued"
    BY <1>3, <1>4 DEF WriteInv
  <2> QED
    BY <1>1, <1>3, <2>1, <2>2, <2>3 DEF WriteInv
<1>6. StopInv'
  <2>1. phase' \in Early => halt' = FALSE /\ worker' # "over" /\ STOP \notin Range(queue') /\ owed' = {}
    BY <1>1, <1>3 DEF StopInv
  <2>2. ASSUME NEW d \in owed, AheadOfMark(d) PROVE AheadOfMark(d)'
    <3>1. \A i \in DOMAIN queue : i \in DOMAIN queue' /\ queue'[i] = queue[i]
      BY <1>1 DEF WriteInv
    <3> QED
      BY <2>2, <3>1 DEF AheadOfMark
  <2>3. \A d \in owed : call[d] \in {"begun", "done", "failed"} => call'[d] = call[d]
    BY <1>1, <1>4 DEF WriteInv
  <2> QED
    BY <1>1, <2>1, <2>2, <2>3 DEF StopInv
<1> QED
  BY <1>5, <1>6

(* What the worker finds ahead of the stop mark. *)
LEMMA UpToFacts ==
  ASSUME WriteInv
  PROVE  /\ UpTo \in 0..Len(queue) /\ Len(queue) \in Nat /\ DOMAIN queue = 1..Len(queue)
         /\ \A i \in DOMAIN queue : queue[i] = STOP <=> i = UpTo + 1
         /\ \A i \in 1..UpTo : queue[i] \in Calls
<1>1. Len(queue) \in Nat /\ DOMAIN queue = 1..Len(queue) /\ \A i \in DOMAIN queue : queue[i] \in Calls \cup {STOP}
  BY DEF WriteInv
<1>2. CASE STOP \in Range(queue)
  <2> DEFINE p == CHOOSE i \in DOMAIN queue : queue[i] = STOP
  <2>1. p \in DOMAIN queue /\ queue[p] = STOP
    BY <1>2 DEF Range
  <2>2. UpTo = p - 1
    BY <1>2 DEF UpTo
  <2> HIDE DEF p
  <2>3. \A i \in DOMAIN queue : queue[i] = STOP <=> i = p
    BY <2>1 DEF WriteInv, IsInjective
  <2> QED
    BY <1>1, <2>1, <2>2, <2>3
<1>3. CASE STOP \notin Range(queue)
  <2>1. UpTo = Len(queue)
    BY <1>3 DEF UpTo
  <2>2. \A i \in DOMAIN queue : queue[i] # STOP
    BY <1>3 DEF Range
  <2> QED
    BY <1>1, <2>1, <2>2
<1> QED
  BY <1>2, <1>3

LEMMA GetBatchKeeps ==
  ASSUME WriteInv, StopInv, GetBatch
  PROVE  WriteInv' /\ StopInv'
<1>1. worker = "get" /\ queue # <<>> /\ phase' = phase /\ owed' = owed /\ batch = {}
  BY DEF GetBatch, WriteInv
<1>2. /\ UpTo \in 0..Len(queue) /\ Len(queue) \in Nat /\ DOMAIN queue = 1..Len(queue)
      /\ \A i \in DOMAIN queue : queue[i] = STOP <=> i = UpTo + 1
      /\ \A i \in 1..UpTo : queue[i] \in Calls
  BY UpToFacts
<1>3. \A n \in Nat :
        /\ SubSeq(queue, n + 1, Len(queue)) \in Seq(Calls \cup {STOP})
        /\ IsInjective(SubSeq(queue, n + 1, Len(queue)))
        /\ \A x : x \in Range(SubSeq(queue, n + 1, Len(queue))) <=> \E i \in DOMAIN queue : i > n /\ queue[i] = x
  BY DropFacts DEF WriteInv
<1>4. CASE Head(queue) = STOP
  <2>1. worker' = "over" /\ queue' = Tail(queue) /\ UNCHANGED <<call, batch, halt>>
    BY <1>4 DEF GetBatch
  <2>2. queue' = SubSeq(queue, 1 + 1, Len(queue))
    BY <1>1, <1>2, <2>1 DEF WriteInv
  <2>3. /\ queue' \in Seq(Calls \cup {STOP}) /\ IsInjective(queue')
        /\ \A x : x \in Range(queue') <=> \E i \in DOMAIN queue : i > 1 /\ queue[i] = x
    BY <1>3, <2>2
  <2>4. 1 \in DOMAIN queue /\ queue[1] = STOP
    BY <1>1, <1>2, <1>4
  <2>5. \A i \in DOMAIN queue : queue[i] = STOP => i = 1
    BY <2>4 DEF WriteInv, IsInjective
  <2>6. \A c \in Calls : c \in Range(queue') <=> c \in Range(queue)
    <3>1. STOP \notin Calls
      BY ShutdownAssumption
    <3>2. \A i \in DOMAIN queue : i > 1 \/ i = 1
      BY <1>2
    <3>3. ASSUME NEW c \in Calls, c \in Range(queue') PROVE c \in Range(queue)
      BY <2>3, <3>3 DEF Range
    <3>4. ASSUME NEW c \in Calls, c \in Range(queue) PROVE c \in Range(queue')
      <4>1. PICK i \in DOMAIN queue : queue[i] = c
        BY <3>4 DEF Range
      <4>2. i # 1
        BY <2>4, <3>1, <4>1
      <4> QED
        BY <2>3, <3>2, <4>1, <4>2
    <3> QED
      BY <3>3, <3>4
  <2>7. WriteInv'
    BY <1>1, <2>1, <2>3, <2>6 DEF WriteInv
  <2>8. \A c : ~AheadOfMark(c)
    BY <1>2, <2>5 DEF AheadOfMark
  <2>9. phase \notin Early
    <3>1. STOP \in Range(queue)
      BY <2>4 DEF Range
    <3> QED
      BY <3>1 DEF StopInv
  <2> QED
    BY <1>1, <2>1, <2>7, <2>8, <2>9 DEF StopInv
<1>5. CASE Head(queue) # STOP
  <2>1. /\ worker' = "busy" /\ batch' = Ahead
        /\ call' = [c \in Calls |-> IF c \in Ahead THEN "begun" ELSE call[c]]
        /\ halt' = (halt \/ STOP \in Range(queue))
        /\ queue' = SubSeq(queue, (UpTo + 1) + 1, Len(queue))
    BY <1>2, <1>5 DEF GetBatch
  <2>2. /\ queue' \in Seq(Calls \cup {STOP}) /\ IsInjective(queue')
        /\ \A x : x \in Range(queue') <=> \E i \in DOMAIN queue : i > UpTo + 1 /\ queue[i] = x
    <3> DEFINE n == UpTo + 1
    <3>1. n \in Nat
      BY <1>2
    <3>2. queue' = SubSeq(queue, n + 1, Len(queue))
      BY <2>1
    <3> HIDE DEF n
    <3>3. /\ queue' \in Seq(Calls \cup {STOP}) /\ IsInjective(queue')
          /\ \A x : x \in Range(queue') <=> \E i \in DOMAIN queue : i > n /\ queue[i] = x
      BY <1>3, <3>1, <3>2
    <3> QED
      BY <3>3 DEF n
  <2>3. Ahead \subseteq Calls
    BY <1>2 DEF Ahead
  <2>4. \A c \in Calls : call'[c] = IF c \in Ahead THEN "begun" ELSE call[c]
    BY <2>1
  <2>5. \A c : c \in batch' <=> c \in Calls /\ call'[c] = "begun"
    BY <1>1, <2>1, <2>3, <2>4 DEF WriteInv
  <2>6. ASSUME NEW c \in Calls PROVE c \in Range(queue') <=> call'[c] = "queued"
    <3>1. c # STOP
      BY ShutdownAssumption
    <3>2. call[c] = "queued" <=> \E i \in DOMAIN queue : queue[i] = c
      BY DEF WriteInv, Range
    <3>3. c \in Ahead <=> \E i \in DOMAIN queue : i <= UpTo /\ queue[i] = c
      BY <1>2 DEF Ahead
    <3>4. \A i, j \in DOMAIN queue : queue[i] = c /\ queue[j] = c => i = j
      BY DEF WriteInv, IsInjective
    <3>5. \A i \in DOMAIN queue : queue[i] = c => i <= UpTo \/ i > UpTo + 1
      BY <1>2, <3>1
    <3>6. \A i \in DOMAIN queue : ~(i <= UpTo /\ i > UpTo + 1)
      BY <1>2
    <3>7. call'[c] = "queued" <=> call[c] = "queued" /\ c \notin Ahead
      BY <2>4
    <3> QED
      BY <2>2, <3>2, <3>3, <3>4, <3>5, <3>6, <3>7
  <2>7. call' \in [Calls -> {"new", "queued", "begun", "done", "failed"}]
    BY <2>1 DEF WriteInv
  <2>8. WriteInv'
    BY <1>1, <2>1, <2>2, <2>5, <2>6, <2>7 DEF WriteInv
  <2>9. STOP \in Range(queue) => phase \notin Early
    BY DEF StopInv
  <2>10. STOP \notin Range(queue')
    BY <1>2, <2>2
  <2>11. ASSUME NEW c \in owed PROVE call'[c] \in {"begun", "done", "failed"}
    <3>1. c \in Calls
      BY DEF WriteInv
    <3>2. CASE AheadOfMark(c)
      <4>1. c \in Ahead
        BY <1>2, <3>2 DEF AheadOfMark, Ahead
      <4> QED
        BY <2>4, <3>1, <4>1
    <3>3. CASE call[c] \in {"begun", "done", "failed"}
      BY <2>4, <3>1, <3>3
    <3> QED
      BY <3>2, <3>3 DEF StopInv
  <2>12. (phase \in Early => halt' = FALSE) /\ (phase \notin Early => halt' = TRUE)
    BY <2>1, <2>9 DEF StopInv
  <2>13. phase \notin {"reads", "conn", "closed"}
    BY <1>1 DEF StopInv
  <2> QED
    BY <1>1, <2>1, <2>8, <2>10, <2>11, <2>12, <2>13 DEF StopInv
<1> QED
  BY <1>4, <1>5

(* A batch that ends is answered, whatever part of it failed. *)
LEMMA EndBatchKeeps ==
  ASSUME WriteInv, StopInv, EndBatch
  PROVE  WriteInv' /\ StopInv'
<1>1. PICK bad \in SUBSET batch :
        call' = [c \in Calls |-> IF c \in bad THEN "failed" ELSE IF c \in batch THEN "done" ELSE call[c]]
  BY DEF EndBatch
<1>2. /\ worker = "busy" /\ batch' = {} /\ worker' = IF halt THEN "over" ELSE "get"
      /\ UNCHANGED <<phase, queue, halt, owed>>
  BY DEF EndBatch
<1>3. \A c \in Calls : IF call[c] = "begun" THEN call'[c] \in {"done", "failed"} ELSE call'[c] = call[c]
  BY <1>1 DEF WriteInv
<1>4. WriteInv'
  <2>1. call' \in [Calls -> {"new", "queued", "begun", "done", "failed"}]
    BY <1>1 DEF WriteInv
  <2>2. \A c : c \in batch' <=> c \in Calls /\ call'[c] = "begun"
    BY <1>2, <1>3
  <2>3. \A c \in Calls : c \in Range(queue') <=> call'[c] = "queued"
    BY <1>2, <1>3 DEF WriteInv
  <2> QED
    BY <1>2, <2>1, <2>2, <2>3 DEF WriteInv
<1>5. StopInv'
  <2>1. \A c \in owed : call'[c] \in {"begun", "done", "failed"}
    BY <1>2, <1>3 DEF WriteInv, StopInv
  <2>2. phase \in Early => worker' # "over"
    BY <1>2 DEF StopInv
  <2>3. phase \notin {"reads", "conn", "closed"}
    BY <1>2 DEF StopInv
  <2> QED
    BY <1>2, <2>1, <2>2, <2>3 DEF StopInv
<1> QED
  BY <1>4, <1>5

(* What an idle worker is owed stands ahead of the mark. *)
LEMMA StopWorkerKeeps ==
  ASSUME WriteInv, StopInv, StopWorker
  PROVE  WriteInv' /\ StopInv'
<1>1. /\ phase = "tasks" /\ phase' = "writes" /\ halt' = TRUE /\ queue' = Append(queue, STOP)
      /\ owed' = IF worker = "get" THEN Range(queue) ELSE {}
      /\ UNCHANGED <<call, worker, batch>>
  BY DEF StopWorker
<1>2. STOP \notin Range(queue) /\ worker # "over"
  BY <1>1 DEF StopInv, Early
<1>3. /\ queue' \in Seq(Calls \cup {STOP}) /\ IsInjective(queue')
      /\ \A x : x \in Range(queue') <=> x = STOP \/ x \in Range(queue)
  BY <1>1, <1>2, AppendFacts DEF WriteInv
<1>4. Range(queue) \subseteq Calls
  BY <1>2 DEF WriteInv, Range
<1>5. WriteInv'
  <2>1. \A c \in Calls : c \in Range(queue') <=> call'[c] = "queued"
    BY <1>1, <1>3, ShutdownAssumption DEF WriteInv
  <2>2. owed' \subseteq Calls
    BY <1>1, <1>4
  <2> QED
    BY <1>1, <1>3, <2>1, <2>2 DEF WriteInv
<1>6. ASSUME NEW c \in owed' PROVE worker' = "get" /\ AheadOfMark(c)'
  <2>1. worker = "get" /\ c \in Range(queue)
    BY <1>1
  <2>2. PICK i \in DOMAIN queue : queue[i] = c
    BY <2>1 DEF Range
  <2>3. /\ i \in DOMAIN queue' /\ queue'[i] = c
        /\ Len(queue) + 1 \in DOMAIN queue' /\ queue'[Len(queue) + 1] = STOP /\ i < Len(queue) + 1
    BY <1>1, <2>2 DEF WriteInv
  <2> QED
    BY <1>1, <2>1, <2>3 DEF AheadOfMark
<1> QED
  BY <1>1, <1>5, <1>6 DEF StopInv, Early, Phases

(* A stream that reads on has been answered: nothing is owed to it. *)
LEMMA LandedKeeps ==
  ASSUME WriteInv, StopInv, NEW s \in Streams, Landed(s)
  PROVE  WriteInv' /\ StopInv'
<1>1. /\ call[s] = "done" /\ call' = [call EXCEPT ![s] = "new"] /\ owed' = owed \ {s}
      /\ UNCHANGED <<phase, queue, worker, batch, halt>>
  BY DEF Landed
<1>2. s \in Calls
  BY ShutdownAssumption
<1>3. \A c \in Calls : call'[c] = IF c = s THEN "new" ELSE call[c]
  BY <1>1 DEF WriteInv
<1>4. call' \in [Calls -> {"new", "queued", "begun", "done", "failed"}]
  BY <1>1 DEF WriteInv
<1>5. \A c : c \in batch' <=> c \in Calls /\ call'[c] = "begun"
  BY <1>1, <1>3 DEF WriteInv
<1>6. \A c \in Calls : c \in Range(queue') <=> call'[c] = "queued"
  BY <1>1, <1>3 DEF WriteInv
<1>7. \A c : AheadOfMark(c)' <=> AheadOfMark(c)
  BY <1>1 DEF AheadOfMark
<1>8. \A c \in owed' : c \in owed /\ c \in Calls /\ call'[c] = call[c]
  BY <1>1, <1>3 DEF WriteInv
<1> QED
  BY <1>1, <1>4, <1>5, <1>6, <1>7, <1>8 DEF WriteInv, StopInv

(* What close() does elsewhere keeps its order. *)
LEMMA WritingKept ==
  ASSUME WriteInv, StopInv, UNCHANGED writing, phase' \in Phases,
         phase' \in Early <=> phase \in Early,
         phase' \in {"reads", "conn", "closed"} => worker = "over"
  PROVE  WriteInv' /\ StopInv'
<1>1. \A c : AheadOfMark(c)' <=> AheadOfMark(c)
  BY DEF AheadOfMark, writing
<1> QED
  BY <1>1 DEF WriteInv, StopInv, writing

(* Every step keeps the worker's side. *)
LEMMA WriteStep ==
  ASSUME WriteInv, StopInv, Next
  PROVE  WriteInv' /\ StopInv'
<1>1. ASSUME NEW c \in Calls, Insert(c) PROVE WriteInv' /\ StopInv'
  <2>1. Submit(c) /\ phase' = phase
    BY <1>1 DEF Insert
  <2> QED
    BY <2>1, SubmitKeeps
<1>2. ASSUME NEW s \in Streams, Lands(s) PROVE WriteInv' /\ StopInv'
  <2>1. Submit(s) /\ phase' = phase /\ s \in Calls
    BY <1>2, ShutdownAssumption DEF Lands
  <2> QED
    BY <2>1, SubmitKeeps
<1>3. ASSUME NEW s \in Streams, Dies(s) PROVE WriteInv' /\ StopInv'
  <2>1. UNCHANGED writing /\ (phase' = phase \/ (phase = "streams" /\ phase' = "raised"))
    BY <1>3 DEF Dies
  <2>2. phase' \in Phases /\ (phase' \in Early <=> phase \in Early) /\ (phase' \in {"reads", "conn", "closed"} => worker = "over")
    BY <2>1 DEF StopInv, Phases, Early
  <2> QED
    BY <2>1, <2>2, WritingKept
<1>4. CASE UNCHANGED writing /\ phase' = phase
  <2>1. phase' \in Phases /\ (phase' \in Early <=> phase \in Early) /\ (phase' \in {"reads", "conn", "closed"} => worker = "over")
    BY <1>4 DEF StopInv
  <2> QED
    BY <1>4, <2>1, WritingKept
<1>5. CASE Close \/ StreamsClosed \/ Interrupt \/ Joined \/ CloseConn
  <2>1. UNCHANGED writing
    BY <1>5 DEF Close, StreamsClosed, Interrupt, Joined, CloseConn
  <2>2. phase' \in Phases /\ (phase' \in Early <=> phase \in Early) /\ (phase' \in {"reads", "conn", "closed"} => worker = "over")
    BY <1>5 DEF StopInv, Phases, Early, Close, StreamsClosed, Interrupt, Joined, CloseConn
  <2> QED
    BY <2>1, <2>2, WritingKept
<1>6. ASSUME NEW s \in Streams, StartStream(s) \/ NothingLeft(s) \/ TellStream(s) PROVE UNCHANGED writing /\ phase' = phase
  BY <1>6 DEF StartStream, NothingLeft, TellStream
<1>7. ASSUME NEW r \in Reads, Query(r) \/ Execute(r) \/ Return(r) PROVE UNCHANGED writing /\ phase' = phase
  BY <1>7 DEF Query, Execute, Return
<1>8. TakeUp => UNCHANGED writing /\ phase' = phase
  BY DEF TakeUp
<1> QED
  BY <1>1, <1>2, <1>3, <1>4, <1>5, <1>6, <1>7, <1>8, LandedKeeps, GetBatchKeeps, EndBatchKeeps, StopWorkerKeeps
  DEF Next, Closing, Threads, Resumed

-----------------------------------------------------------------------------
(* The streams *)

(* Once close() has stopped the streams, those that live are later ones. *)
FlowInv ==
  /\ flow \in [Streams -> {"off", "runs", "lands", "sweeps", "over", "died"}]
  /\ told \subseteq Streams /\ late \subseteq Streams
  /\ phase \notin {"open", "streams", "raised"} => \A s \in Streams : Live(s) => s \in late

(* Every step keeps the streams' side. *)
LEMMA FlowStep ==
  ASSUME FlowInv, Next
  PROVE  FlowInv'
<1>1. ASSUME UNCHANGED flows, phase' = phase \/ phase \notin {"open", "streams", "raised"} \/ phase' \in {"streams"}
      PROVE  FlowInv'
  BY <1>1 DEF FlowInv, flows, Live, Landing
<1>2. CASE StreamsClosed
  <2>1. UNCHANGED flows /\ \A s \in Streams : Live(s) => s \in late
    BY <1>2 DEF StreamsClosed, Waited
  <2> QED
    BY <2>1 DEF FlowInv, flows, Live, Landing
<1>3. ASSUME NEW s \in Streams, StartStream(s) PROVE FlowInv'
  <2>1. /\ flow' = [flow EXCEPT ![s] = "runs"] /\ phase' = phase /\ told' = told
        /\ late' = IF phase = "open" THEN late ELSE late \cup {s}
    BY <1>3 DEF StartStream
  <2>2. \A t \in Streams : t # s => flow'[t] = flow[t]
    BY <2>1 DEF FlowInv
  <2> QED
    BY <2>1, <2>2 DEF FlowInv, Live, Landing
<1>4. ASSUME NEW s \in Streams, TellStream(s) PROVE FlowInv'
  BY <1>4 DEF TellStream, FlowInv, Live, Landing
<1>5. ASSUME NEW s \in Streams, NEW f \in {"runs", "lands", "sweeps", "over", "died"},
             flow' = [flow EXCEPT ![s] = f], Live(s), UNCHANGED <<told, late>>,
             phase' = phase \/ (phase = "streams" /\ phase' = "raised")
      PROVE  FlowInv'
  <2>1. \A t \in Streams : t # s => flow'[t] = flow[t]
    BY <1>5 DEF FlowInv
  <2>2. \A t \in Streams : Live(t)' => Live(t)
    BY <1>5, <2>1 DEF Live, Landing
  <2> QED
    BY <1>5, <2>2 DEF FlowInv
<1>6. ASSUME NEW s \in Streams, Lands(s) PROVE FlowInv'
  BY <1>5, <1>6 DEF Lands, Live
<1>7. ASSUME NEW s \in Streams, Resumed(s) PROVE FlowInv'
  <2>1. CASE NothingLeft(s)
    BY <1>5, <2>1 DEF NothingLeft, Live
  <2>2. CASE Landed(s)
    BY <1>5, <2>2 DEF Landed, Live
  <2>3. CASE Dies(s)
    BY <1>5, <2>3 DEF Dies, Live
  <2> QED
    BY <1>7, <2>1, <2>2, <2>3 DEF Resumed
<1>8. CASE Close \/ StopWorker \/ Interrupt \/ Joined \/ CloseConn
  <2>1. UNCHANGED flows
    BY <1>8 DEF Close, StopWorker, Interrupt, Joined, CloseConn
  <2>2. phase \notin {"open", "streams", "raised"} \/ phase' \in {"streams"}
    BY <1>8 DEF Close, StopWorker, Interrupt, Joined, CloseConn
  <2> QED
    BY <1>1, <2>1, <2>2
<1>9. ASSUME NEW c \in Calls, Insert(c) PROVE FlowInv'
  BY <1>1, <1>9 DEF Insert
<1>10. ASSUME NEW r \in Reads, Query(r) \/ Execute(r) \/ Return(r) PROVE FlowInv'
  BY <1>1, <1>10 DEF Query, Execute, Return
<1>11. CASE GetBatch \/ EndBatch \/ TakeUp
  BY <1>1, <1>11 DEF GetBatch, EndBatch, TakeUp
<1> QED
  BY <1>2, <1>3, <1>4, <1>6, <1>7, <1>8, <1>9, <1>10, <1>11 DEF Next, Closing, Threads

-----------------------------------------------------------------------------
(* The read pool *)

(* A cursor is with a thread or free; a query is in line, or with a thread, *)
(* or neither; and nobody is in the pool when the connection goes.          *)
ReadInv ==
  /\ read \in [Reads -> {"new", "refused", "queued", "gap", "exec", "cut", "over"}]
  /\ todo \in [Reads -> 0..Statements] /\ \A r \in Reads : read[r] # "over" => todo[r] > 0
  /\ missed \subseteq Reads
  /\ line \in Seq(Reads) /\ IsInjective(line)
  /\ \A r \in Reads : r \in Range(line) <=> read[r] = "queued"
  /\ Cardinality(Holders) <= Workers /\ free = Workers - Cardinality(Holders)
  /\ phase \in {"conn", "closed"} => Holders = {} /\ line = <<>>

(* The threads are finite in number. *)
LEMMA HoldersFinite == IsFiniteSet(Holders) /\ Cardinality(Holders) \in Nat
BY ShutdownAssumption, FS_Subset, FS_CardinalityType DEF Holders

(* The first query of the line goes to a thread and takes a cursor. *)
LEMMA TakeUpKeeps ==
  ASSUME ReadInv, TakeUp
  PROVE  ReadInv'
<1> DEFINE r == Head(line)
<1>1. /\ line # <<>> /\ Cardinality(Holders) < Workers
      /\ read' = [read EXCEPT ![r] = "gap"] /\ line' = Tail(line) /\ free' = free - 1
      /\ UNCHANGED <<phase, todo, missed>>
  BY DEF TakeUp
<1>2. /\ Len(line) \in Nat /\ DOMAIN line = 1..Len(line) /\ 1 \in DOMAIN line /\ line[1] = r /\ r \in Reads
      /\ line' = SubSeq(line, 1 + 1, Len(line))
  BY <1>1 DEF ReadInv
<1> HIDE DEF r
<1>3. /\ line' \in Seq(Reads) /\ IsInjective(line')
      /\ \A x : x \in Range(line') <=> \E i \in DOMAIN line : i > 1 /\ line[i] = x
  <2>1. line \in Seq(Reads) /\ IsInjective(line) /\ 1 \in Nat
    BY DEF ReadInv
  <2> QED
    BY <1>2, <2>1, DropFacts
<1>4. read[r] = "queued"
  BY <1>2 DEF ReadInv, Range
<1>5. \A q \in Reads : read'[q] = IF q = r THEN "gap" ELSE read[q]
  BY <1>1 DEF ReadInv
<1>6. ASSUME NEW q \in Reads PROVE q \in Range(line') <=> read'[q] = "queued"
  <2>1. CASE q = r
    <3>1. \A i \in DOMAIN line : line[i] = r => i = 1
      BY <1>2 DEF ReadInv, IsInjective
    <3>2. q \notin Range(line')
      BY <1>2, <1>3, <2>1, <3>1
    <3> QED
      BY <1>5, <2>1, <3>2
  <2>2. CASE q # r
    <3>1. q \in Range(line') <=> \E i \in DOMAIN line : line[i] = q
      <4>1. \A i \in DOMAIN line : i > 1 \/ line[i] = r
        BY <1>2
      <4> QED
        BY <1>3, <2>2, <4>1
    <3>2. read[q] = "queued" <=> \E i \in DOMAIN line : line[i] = q
      BY DEF ReadInv, Range
    <3> QED
      BY <1>5, <2>2, <3>1, <3>2
  <2> QED
    BY <2>1, <2>2
<1>7. r \notin Holders
  BY <1>4 DEF Holders, Holds
<1>8. Holders' = Holders \cup {r}
  BY <1>2, <1>5 DEF Holders, Holds
<1>9. Cardinality(Holders') = Cardinality(Holders) + 1
  BY <1>7, <1>8, HoldersFinite, FS_AddElement
<1>10. Cardinality(Holders') <= Workers /\ free' = Workers - Cardinality(Holders')
  BY <1>1, <1>9, HoldersFinite, ShutdownAssumption DEF ReadInv
<1>11. read' \in [Reads -> {"new", "refused", "queued", "gap", "exec", "cut", "over"}]
  BY <1>1 DEF ReadInv
<1>12. \A q \in Reads : read'[q] # "over" => todo'[q] > 0
  BY <1>1, <1>4, <1>5 DEF ReadInv
<1>13. phase' \notin {"conn", "closed"}
  BY <1>1 DEF ReadInv
<1> QED
  BY <1>1, <1>3, <1>6, <1>10, <1>11, <1>12, <1>13 DEF ReadInv

(* A statement that returns leaves the cursor with its thread or gives it  *)
(* back, interrupted or not.                                               *)
LEMMA ReturnKeeps ==
  ASSUME ReadInv, NEW r \in Reads, Return(r)
  PROVE  ReadInv'
<1>1. /\ read[r] \in {"exec", "cut"} /\ todo' = [todo EXCEPT ![r] = @ - 1]
      /\ UNCHANGED <<phase, line, missed>>
  BY DEF Return
<1>2. todo[r] > 0 /\ todo[r] \in 0..Statements /\ \A q \in Reads : todo'[q] = IF q = r THEN todo[r] - 1 ELSE todo[q]
  BY <1>1 DEF ReadInv
<1>3. todo' \in [Reads -> 0..Statements]
  BY <1>1, <1>2, ShutdownAssumption DEF ReadInv
<1>4. r \in Holders /\ phase \notin {"conn", "closed"}
  BY <1>1 DEF Holders, Holds, ReadInv
<1>5. CASE read' = [read EXCEPT ![r] = "gap"] /\ UNCHANGED free /\ todo'[r] > 0
  <2>1. \A q \in Reads : read'[q] = IF q = r THEN "gap" ELSE read[q]
    BY <1>5 DEF ReadInv
  <2>2. Holders' = Holders
    BY <1>4, <2>1 DEF Holders, Holds
  <2>3. read' \in [Reads -> {"new", "refused", "queued", "gap", "exec", "cut", "over"}]
    BY <1>5 DEF ReadInv
  <2>4. \A q \in Reads : (q \in Range(line') <=> read'[q] = "queued") /\ (read'[q] # "over" => todo'[q] > 0)
    BY <1>1, <1>2, <1>5, <2>1 DEF ReadInv
  <2> QED
    BY <1>1, <1>3, <1>4, <1>5, <2>2, <2>3, <2>4 DEF ReadInv
<1>6. CASE read' = [read EXCEPT ![r] = "over"] /\ free' = free + 1
  <2>1. \A q \in Reads : read'[q] = IF q = r THEN "over" ELSE read[q]
    BY <1>6 DEF ReadInv
  <2>2. Holders' = Holders \ {r}
    BY <1>4, <2>1 DEF Holders, Holds
  <2>3. Cardinality(Holders') = Cardinality(Holders) - 1
    BY <1>4, <2>2, HoldersFinite, FS_RemoveElement
  <2>4. Cardinality(Holders') <= Workers /\ free' = Workers - Cardinality(Holders')
    BY <1>6, <2>3, HoldersFinite, ShutdownAssumption DEF ReadInv
  <2>5. read' \in [Reads -> {"new", "refused", "queued", "gap", "exec", "cut", "over"}]
    BY <1>6 DEF ReadInv
  <2>6. \A q \in Reads : (q \in Range(line') <=> read'[q] = "queued") /\ (read'[q] # "over" => todo'[q] > 0)
    BY <1>1, <1>2, <2>1 DEF ReadInv
  <2> QED
    BY <1>1, <1>3, <1>4, <2>4, <2>5, <2>6 DEF ReadInv
<1> QED
  BY <1>5, <1>6 DEF Return

(* A query that is handed in while the pool is open joins the line. *)
LEMMA QueryKeeps ==
  ASSUME ReadInv, NEW r \in Reads, Query(r)
  PROVE  ReadInv'
<1>1. read[r] = "new" /\ UNCHANGED <<phase, todo, free, missed>>
  BY DEF Query
<1>2. ASSUME NEW v \in {"refused", "queued"}, read' = [read EXCEPT ![r] = v]
      PROVE  /\ \A q \in Reads : read'[q] = IF q = r THEN v ELSE read[q]
             /\ read' \in [Reads -> {"new", "refused", "queued", "gap", "exec", "cut", "over"}]
             /\ Holders' = Holders
             /\ \A q \in Reads : read'[q] # "over" => todo'[q] > 0
  <2>1. \A q \in Reads : read'[q] = IF q = r THEN v ELSE read[q]
    BY <1>2 DEF ReadInv
  <2>2. read' \in [Reads -> {"new", "refused", "queued", "gap", "exec", "cut", "over"}]
    BY <1>2 DEF ReadInv
  <2>3. Holders' = Holders
    BY <1>1, <2>1 DEF Holders, Holds
  <2>4. \A q \in Reads : read'[q] # "over" => todo'[q] > 0
    BY <1>1, <2>1 DEF ReadInv
  <2> QED
    BY <2>1, <2>2, <2>3, <2>4
<1>3. r \notin Range(line)
  BY <1>1 DEF ReadInv
<1>4. CASE phase \in {"conn", "closed"}
  <2>1. read' = [read EXCEPT ![r] = "refused"] /\ line' = line
    BY <1>4 DEF Query
  <2>2. \A q \in Reads : q \in Range(line') <=> read'[q] = "queued"
    BY <1>2, <1>3, <2>1 DEF ReadInv
  <2> QED
    BY <1>1, <1>2, <2>1, <2>2 DEF ReadInv
<1>5. CASE phase \notin {"conn", "closed"}
  <2>1. read' = [read EXCEPT ![r] = "queued"] /\ line' = Append(line, r)
    BY <1>5 DEF Query
  <2>2. /\ line' \in Seq(Reads) /\ IsInjective(line')
        /\ \A x : x \in Range(line') <=> x = r \/ x \in Range(line)
    BY <1>3, <2>1, AppendFacts DEF ReadInv
  <2>3. \A q \in Reads : q \in Range(line') <=> read'[q] = "queued"
    BY <1>2, <2>1, <2>2 DEF ReadInv
  <2> QED
    BY <1>1, <1>2, <1>5, <2>1, <2>2, <2>3 DEF ReadInv
<1> QED
  BY <1>4, <1>5

(* Every step keeps the pool's side. *)
LEMMA ReadStep ==
  ASSUME ReadInv, Next
  PROVE  ReadInv'
<1>1. ASSUME UNCHANGED reading, phase' \in {"conn", "closed"} => phase \in {"conn", "closed"} \/ (Holders = {} /\ line = <<>>)
      PROVE  ReadInv'
  <2>1. Holders' = Holders
    BY <1>1 DEF Holders, Holds, reading
  <2> QED
    BY <1>1, <2>1 DEF ReadInv, reading
<1>2. ASSUME NEW r \in Reads, Execute(r) PROVE ReadInv'
  <2>1. read[r] = "gap" /\ read' = [read EXCEPT ![r] = "exec"] /\ UNCHANGED <<phase, todo, line, free, missed>>
    BY <1>2 DEF Execute
  <2>2. \A q \in Reads : read'[q] = IF q = r THEN "exec" ELSE read[q]
    BY <2>1 DEF ReadInv
  <2>3. Holders' = Holders
    BY <2>1, <2>2 DEF Holders, Holds
  <2>4. read' \in [Reads -> {"new", "refused", "queued", "gap", "exec", "cut", "over"}]
    BY <2>1 DEF ReadInv
  <2>5. \A q \in Reads : (q \in Range(line') <=> read'[q] = "queued") /\ (read'[q] # "over" => todo'[q] > 0)
    BY <2>1, <2>2 DEF ReadInv
  <2> QED
    BY <2>1, <2>3, <2>4, <2>5 DEF ReadInv
<1>3. CASE Interrupt
  <2>1. /\ read' = [r \in Reads |-> IF read[r] = "exec" THEN "cut" ELSE read[r]]
        /\ missed' \subseteq Reads /\ phase' = "reads" /\ UNCHANGED <<todo, line, free>>
    BY <1>3 DEF Interrupt
  <2>2. Holders' = Holders
    BY <2>1 DEF Holders, Holds, ReadInv
  <2>3. read' \in [Reads -> {"new", "refused", "queued", "gap", "exec", "cut", "over"}]
    BY <2>1 DEF ReadInv
  <2>4. \A q \in Reads : (q \in Range(line') <=> read'[q] = "queued") /\ (read'[q] # "over" => todo'[q] > 0)
    BY <2>1 DEF ReadInv
  <2> QED
    BY <2>1, <2>2, <2>3, <2>4 DEF ReadInv
<1>4. CASE Close \/ StreamsClosed \/ StopWorker \/ Joined \/ CloseConn \/ GetBatch \/ EndBatch
  BY <1>1, <1>4 DEF Close, StreamsClosed, StopWorker, Joined, CloseConn, GetBatch, EndBatch
<1>5. ASSUME NEW s \in Streams, StartStream(s) \/ Lands(s) \/ Resumed(s) \/ TellStream(s) PROVE ReadInv'
  BY <1>1, <1>5 DEF StartStream, Lands, Resumed, NothingLeft, Landed, Dies, TellStream
<1>6. ASSUME NEW c \in Calls, Insert(c) PROVE ReadInv'
  BY <1>1, <1>6 DEF Insert
<1> QED
  BY <1>2, <1>3, <1>4, <1>5, <1>6, TakeUpKeeps, ReturnKeeps, QueryKeeps DEF Next, Closing, Threads

-----------------------------------------------------------------------------
(* Theorems *)

Inv == WriteInv /\ StopInv /\ FlowInv /\ ReadInv

LEMMA Initially == ASSUME Init PROVE Inv
<1>1. \A x : x \notin Range(<<>>)
  BY DEF Range
<1>2. WriteInv
  <2>1. queue \in Seq(Calls \cup {STOP}) /\ IsInjective(queue)
    BY DEF Init, IsInjective
  <2>2. call \in [Calls -> {"new", "queued", "begun", "done", "failed"}] /\ \A c \in Calls : call[c] = "new"
    BY DEF Init
  <2>3. queue = <<>> /\ worker = "get" /\ batch = {} /\ halt = FALSE /\ owed = {}
    BY DEF Init
  <2> QED
    BY <1>1, <2>1, <2>2, <2>3 DEF WriteInv
<1>3. StopInv
  BY <1>1 DEF Init, StopInv, Phases, Early
<1>4. FlowInv
  BY DEF Init, FlowInv
<1>5. Holders = {} /\ Cardinality(Holders) = 0
  BY FS_EmptySet DEF Init, Holders, Holds
<1>6. ReadInv
  <2>1. line \in Seq(Reads) /\ IsInjective(line)
    BY DEF Init, IsInjective
  <2>2. /\ read \in [Reads -> {"new", "refused", "queued", "gap", "exec", "cut", "over"}]
        /\ todo \in [Reads -> 0..Statements] /\ \A r \in Reads : read[r] = "new" /\ todo[r] > 0
    BY ShutdownAssumption DEF Init
  <2>3. line = <<>> /\ free = Workers /\ missed = {} /\ phase = "open"
    BY DEF Init
  <2> QED
    BY <1>1, <1>5, <2>1, <2>2, <2>3, ShutdownAssumption DEF ReadInv
<1> QED
  BY <1>2, <1>3, <1>4, <1>6 DEF Inv

LEMMA Stutter == ASSUME Inv, UNCHANGED vars PROVE Inv'
<1>1. WriteInv'
  BY DEF Inv, vars, writing, WriteInv
<1>2. StopInv'
  BY DEF Inv, vars, writing, StopInv, AheadOfMark
<1>3. FlowInv'
  BY DEF Inv, vars, flows, FlowInv, Live, Landing
<1>4. Holders' = Holders
  BY DEF vars, reading, Holders, Holds
<1>5. ReadInv'
  BY <1>4 DEF Inv, vars, reading, ReadInv
<1> QED
  BY <1>1, <1>2, <1>3, <1>5 DEF Inv

(* The invariant of the pool holds throughout. *)
THEOREM Invariance == Spec => []Inv
<1>1. Inv /\ [Next]_vars => Inv'
  BY WriteStep, FlowStep, ReadStep, Stutter DEF Inv
<1> QED
  BY <1>1, Initially, PTL DEF Spec

LEMMA InvTypeOK == ASSUME Inv PROVE TypeOK
<1>1. Range(queue) \ {STOP} = {c \in Calls : call[c] = "queued"}
  <2>1. STOP \notin Calls /\ Range(queue) \subseteq Calls \cup {STOP}
    BY ShutdownAssumption DEF Inv, WriteInv, Range
  <2> QED
    BY <2>1 DEF Inv, WriteInv
<1>2. Range(line) = {r \in Reads : read[r] = "queued"}
  <2>1. Range(line) \subseteq Reads
    BY DEF Inv, ReadInv, Range
  <2> QED
    BY <2>1 DEF Inv, ReadInv
<1>3. free \in 0..Workers
  BY HoldersFinite, ShutdownAssumption DEF Inv, ReadInv
<1>4. batch = {c \in Calls : call[c] = "begun"}
  BY DEF Inv, WriteInv
<1>5. phase \in {"open", "streams", "tasks", "writes", "reads", "conn", "closed", "raised"}
  BY DEF Inv, StopInv, Phases
<1>6. /\ call \in [Calls -> {"new", "queued", "begun", "done", "failed"}]
      /\ queue \in Seq(Calls \cup {STOP}) /\ IsInjective(queue)
      /\ worker \in {"get", "busy", "over"} /\ halt \in BOOLEAN /\ owed \subseteq Calls
  BY DEF Inv, WriteInv
<1>7. flow \in [Streams -> {"off", "runs", "lands", "sweeps", "over", "died"}] /\ told \subseteq Streams /\ late \subseteq Streams
  BY DEF Inv, FlowInv
<1>8. /\ read \in [Reads -> {"new", "refused", "queued", "gap", "exec", "cut", "over"}]
      /\ todo \in [Reads -> 0..Statements] /\ missed \subseteq Reads /\ IsInjective(line)
  BY DEF Inv, ReadInv
<1> QED
  BY <1>1, <1>2, <1>3, <1>4, <1>5, <1>6, <1>7, <1>8 DEF TypeOK

(* Type correctness: the write queue holds each waiting call once, the     *)
(* pool's line each waiting query once, and no cursor is lost or lent      *)
(* twice.                                                                  *)
THEOREM TypeCorrect == Spec => []TypeOK
BY Invariance, InvTypeOK, PTL

(* client.py close: when the connection goes nobody works on it, but for   *)
(* streams started after close() has listed them.                          *)
THEOREM ConnectionLast == Spec => []ConnOutlivesUsers
<1>1. ASSUME Inv, phase \in {"conn", "closed"}
      PROVE  /\ worker = "over" /\ batch = {}
             /\ Holders = {} /\ line = <<>> /\ free = Workers
             /\ \A s \in Streams : Live(s) => s \in late
  <2>1. worker = "over" /\ batch = {}
    BY <1>1 DEF Inv, StopInv, WriteInv
  <2>2. Holders = {} /\ line = <<>>
    BY <1>1 DEF Inv, ReadInv
  <2>3. free = Workers
    <3>1. Cardinality(Holders) = 0
      BY <2>2, FS_EmptySet
    <3> QED
      BY <1>1, <3>1, ShutdownAssumption DEF Inv, ReadInv
  <2>4. \A s \in Streams : Live(s) => s \in late
    BY <1>1 DEF Inv, FlowInv
  <2> QED
    BY <2>1, <2>2, <2>3, <2>4
<1>2. Inv => ConnOutlivesUsers
  BY <1>1 DEF ConnOutlivesUsers
<1> QED
  BY <1>2, Invariance, PTL

(* client.py close, service/stream_service.py close: the write worker ends *)
(* only when no stream that is waited for has an insert in its queue.      *)
THEOREM StreamsFirst == Spec => []NoStreamStranded
<1>1. ASSUME Inv, worker = "over", NEW s \in Streams, Landing(s) PROVE s \in late
  <2>1. phase \notin Early
    BY <1>1 DEF Inv, StopInv
  <2> QED
    BY <1>1, <2>1 DEF Inv, FlowInv, Early, Live
<1>2. Inv => NoStreamStranded
  BY <1>1 DEF NoStreamStranded
<1> QED
  BY <1>2, Invariance, PTL

(* service/write_service.py close: an idle worker answers every call that  *)
(* was queued before the stop mark.                                        *)
THEOREM IdleDrains == Spec => []Drained
<1>1. ASSUME Inv, worker = "over", NEW c \in owed PROVE call[c] \in {"done", "failed"}
  <2>1. c \in Calls /\ batch = {}
    BY <1>1 DEF Inv, WriteInv
  <2>2. call[c] # "begun"
    BY <2>1, <1>1 DEF Inv, WriteInv
  <2>3. call[c] \in {"begun", "done", "failed"}
    BY <1>1 DEF Inv, StopInv
  <2> QED
    BY <2>2, <2>3
<1>2. Inv => Drained
  BY <1>1 DEF Drained
<1> QED
  BY <1>2, Invariance, PTL
=============================================================================
