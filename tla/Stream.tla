------------------------------- MODULE Stream -------------------------------
(***************************************************************************)
(* Streaming ingestion (service/stream_service.py): each stream follows    *)
(* its files from checkpointed offsets, takes a batch of lines, pipes it   *)
(* through its bash middles, lands the rows through the write path with    *)
(* skip_existing, and only then commits the offsets.                       *)
(*                                                                         *)
(* A stream is one coroutine; the steps are what it does between two       *)
(* awaits.  The one write worker takes a batch of rows as a whole, and a   *)
(* process that dies meanwhile leaves any first rows of it.                *)
(***************************************************************************)
EXTENDS WatchedFiles, FiniteSets

CONSTANTS Streams,     \* the names of the streams
          Watched,     \* the files each stream's glob matches
          Batch,       \* ingest --batch
          Mishaps,     \* what may go wrong: a file cannot be opened, the
                       \* chain fails, a middle of it but the last fails, the
                       \* checkpoint cannot be written, the process dies
          MaxMishaps   \* how often something does

ASSUME StreamAssumption ==
  /\ Watched \in [Streams -> SUBSET Files]
  /\ Batch \in Nat \ {0}
  /\ Mishaps \subseteq {"open", "chain", "middle", "save", "crash"}
  /\ MaxMishaps \in Nat

VARIABLES
  table,    \* the table: key -> the line its row is from       (durable)
  ckpt,     \* the offsets in each stream's checkpoint file     (durable)
  pc,       \* where each stream's coroutine is
  off,      \* its offsets
  next,     \* the offsets once the batch in hand has landed
  stop,     \* streams whose stop event is set
  last,     \* streams in their last sweep
  asked,    \* (history) the lines there were when stop() was called,
            \* in the files the last sweep could open
  lost,     \* (history) lines a failing middle has swallowed
  mishaps

disk == <<files, table, ckpt, lost>>
coro == <<pc, off, next, stop, last, asked>>
vars == <<disk, coro, mishaps>>

Zero == [f \in Files |-> 0]

Init ==
  /\ InitFiles /\ table = NoRows
  /\ ckpt = [s \in Streams |-> Zero]
  /\ pc = [s \in Streams |-> "off"]
  /\ off = [s \in Streams |-> Zero] /\ next = [s \in Streams |-> Zero]
  /\ stop = {} /\ last = {}
  /\ asked = [s \in Streams |-> Zero]
  /\ lost = {} /\ mishaps = 0

Running(s) == pc[s] \notin {"off", "dead"}

Go(s, to) == pc' = [pc EXCEPT ![s] = to]

(* The coroutine is over; its locals are gone. *)
End(s, how) ==
  /\ Go(s, how)
  /\ off' = [off EXCEPT ![s] = Zero] /\ next' = [next EXCEPT ![s] = Zero]
  /\ stop' = stop \ {s} /\ last' = last \ {s}
  /\ asked' = [asked EXCEPT ![s] = Zero]

Mishap(what) ==
  /\ what \in Mishaps /\ mishaps < MaxMishaps
  /\ mishaps' = mishaps + 1

-----------------------------------------------------------------------------
(* Reading *)

(* The lines of file f between two offsets that go into a batch. *)
Taken(f, a, b) == {<<f, i>> : i \in {j \in (a + 1)..b : Kind(<<f, j>>) # "blank"}}

(* A bug to rule out: the half-written last line is read too. *)
MoreHalf(f, a, b, n) ==
  /\ b <= written[f] /\ b < Len(text[f])
  /\ Kind(<<f, b + 1>>) # "bare"
  /\ Cardinality(Taken(f, a, b)) < n

(* One more line can be read after offset b, the reading of f having begun *)
(* at a with room for n lines.  A bare carriage return splits off a piece  *)
(* that does not end in a newline: it is taken for a half-written line.    *)
More(f, a, b, n) ==
  /\ b < written[f]
  /\ Kind(<<f, b + 1>>) # "bare"
  /\ Cardinality(Taken(f, a, b)) < n

Reach(f, a, n) ==
  IF a > written[f] THEN a
  ELSE CHOOSE b \in a..Len(text[f]) : ~More(f, a, b, n) /\ \A c \in a..(b - 1) : More(f, a, c, n)

(* _read_new_lines: one file after the other, as long as the batch has     *)
(* room; shut are the files that cannot be opened.  n lines of the batch   *)
(* are from the files before f.                                            *)
To(s, shut, f, n) ==
  IF f \in Watched[s] \ shut THEN Reach(f, off[s][f], Batch - n) ELSE off[s][f]

Counts(s, shut) ==
  LET count[f \in 0..NFiles] ==
        IF f = 0 THEN 0
        ELSE LET n == count[f - 1] IN n + Cardinality(Taken(f, off[s][f], To(s, shut, f, n)))
  IN  count

Sweep(s, shut) ==
  LET count == Counts(s, shut) IN [f \in Files |-> To(s, shut, f, count[f - 1])]

(* The lines between a stream's offsets and those of its batch. *)
LinesTo(s, to) == UNION {Taken(f, off[s][f], to[f]) : f \in Files}

InHand(s) == LinesTo(s, next[s])

-----------------------------------------------------------------------------
(* Landing *)

Spoiled(s) == \E l \in InHand(s) : Kind(l) = "bad"

(* validate with skip_existing: of the rows with one key the first, and    *)
(* none whose key the table holds.                                         *)
Fresh(s) ==
  {l \in InHand(s) :
     /\ Keyed(l) /\ Key(l) \notin DOMAIN table
     /\ \A m \in InHand(s) : Before(m, l) /\ Keyed(m) => Key(m) # Key(l)}

Refused(s) == {l \in Fresh(s) : Kind(l) = "refused"}

(* A bug to rule out: the sink leaves out the row DuckDB refuses and takes *)
(* the others.                                                             *)
StoredOthers(s) == IF Spoiled(s) THEN {} ELSE Fresh(s) \ Refused(s)

(* The rows that get into the table: those before the first DuckDB refuses. *)
Stored(s) ==
  IF Spoiled(s) THEN {}
  ELSE {l \in Fresh(s) : \A m \in Refused(s) : Before(l, m)}

(* What a crash leaves of them. *)
FirstOf(L) == {M \in SUBSET L : \A l \in M, m \in L : Before(m, l) => m \in M}

-----------------------------------------------------------------------------
(* The coroutine *)

(* start_stream: refused while the name is running.  The checkpoint is     *)
(* read in the coroutine's first step.                                     *)
Start(s) ==
  /\ ~Running(s)
  /\ Go(s, "poll")
  /\ off' = [off EXCEPT ![s] = ckpt[s]]
  /\ UNCHANGED <<disk, next, stop, last, asked, mishaps>>

(* A bug to rule out: a stream that is told to stop ends at once. *)
PollNoSweep(s, shut) ==
  /\ pc[s] = "poll"
  /\ LET to == Sweep(s, shut) IN
     \/ /\ s \in stop
        /\ End(s, "off")
     \/ /\ s \notin stop /\ LinesTo(s, to) = {}
        /\ UNCHANGED coro
     \/ /\ s \notin stop /\ LinesTo(s, to) # {}
        /\ Go(s, "land")
        /\ next' = [next EXCEPT ![s] = to]
        /\ UNCHANGED <<off, stop, last, asked>>
  /\ UNCHANGED disk

(* The head of the loop, also when it sleeps there until the poll interval *)
(* is over or it is told to stop.  Offsets moved over blank lines only are *)
(* forgotten.                                                              *)
Poll(s, shut) ==
  /\ pc[s] = "poll"
  /\ LET to == Sweep(s, shut) IN
     \/ /\ LinesTo(s, to) = {} /\ s \notin stop
        /\ UNCHANGED coro
     \/ /\ LinesTo(s, to) = {} /\ s \in stop
        /\ End(s, "off")
     \/ /\ LinesTo(s, to) # {}
        /\ Go(s, "land")
        /\ next' = [next EXCEPT ![s] = to]
        /\ last' = last \cup ({s} \cap stop)
        /\ asked' = [asked EXCEPT ![s] = [f \in Files |-> IF f \in shut THEN 0 ELSE @[f]]]
        /\ UNCHANGED <<off, stop>>
  /\ UNCHANGED disk

PollAll(s) == Poll(s, {}) /\ UNCHANGED mishaps

PollSome(s) == Mishap("open") /\ \E f \in Watched[s] : Poll(s, {f})

(* A bug to rule out: a batch that fails is passed over. *)
LandAnyway(s) ==
  /\ pc[s] = "land"
  /\ table' = AddRows(table, Stored(s))
  /\ Go(s, "commit")
  /\ UNCHANGED <<files, ckpt, lost, off, next, stop, last, asked, mishaps>>

(* A bug to rule out: a batch that fails is tried again. *)
LandAgain(s) ==
  /\ pc[s] = "land"
  /\ table' = AddRows(table, Stored(s))
  /\ IF Spoiled(s) \/ Refused(s) # {}
       THEN Go(s, "poll") /\ next' = [next EXCEPT ![s] = Zero]
       ELSE Go(s, "commit") /\ UNCHANGED next
  /\ UNCHANGED <<files, ckpt, lost, off, stop, last, asked, mishaps>>

(* _land: the chain, the parsing of its output, the insert. *)
Land(s) ==
  /\ pc[s] = "land"
  /\ table' = AddRows(table, Stored(s))
  /\ IF Spoiled(s) \/ Refused(s) # {}
       THEN End(s, "dead")
       ELSE Go(s, "commit") /\ UNCHANGED <<off, next, stop, last, asked>>
  /\ UNCHANGED <<files, ckpt, lost, mishaps>>

(* The chain times out or fails. *)
ChainFails(s) == Mishap("chain") /\ pc[s] = "land" /\ End(s, "dead") /\ UNCHANGED disk

(* One of several middles fails and the last does not: only the last exit  *)
(* code is looked at, and the batch counts as landed.  Of what the failing *)
(* one has passed on nothing is assumed to have got through.               *)
MiddleFails(s) ==
  /\ Mishap("middle") /\ pc[s] = "land"
  /\ Go(s, "commit")
  /\ lost' = lost \cup InHand(s)
  /\ UNCHANGED <<files, table, ckpt, off, next, stop, last, asked>>

(* A bug to rule out: the checkpoint holds the batch's files only. *)
NextOffsetsOnly(s) == [f \in Files |-> IF next[s][f] > off[s][f] THEN next[s][f] ELSE 0]

(* offsets.update *)
NextOffsets(s) == next[s]

(* The offsets are moved and written out, once the insert has returned.    *)
Commit(s) ==
  /\ pc[s] = "commit"
  /\ ckpt' = [ckpt EXCEPT ![s] = NextOffsets(s)]
  /\ IF s \in last
       THEN End(s, "off")
       ELSE /\ Go(s, "poll")
            /\ off' = [off EXCEPT ![s] = NextOffsets(s)]
            /\ next' = [next EXCEPT ![s] = Zero]
            /\ UNCHANGED <<stop, last, asked>>
  /\ UNCHANGED <<files, table, lost, mishaps>>

SaveFails(s) == Mishap("save") /\ pc[s] = "commit" /\ End(s, "dead") /\ UNCHANGED disk

(* StreamHandle.stop *)
Stop(s) ==
  /\ Running(s) /\ s \notin stop
  /\ stop' = stop \cup {s}
  /\ asked' = [asked EXCEPT ![s] = written]
  /\ UNCHANGED <<disk, pc, off, next, last, mishaps>>

Step(s) == PollAll(s) \/ Land(s) \/ Commit(s)

-----------------------------------------------------------------------------
(* The files' writers, and the end of the process *)

Write(f) == Grow(f) /\ UNCHANGED <<table, ckpt, lost, coro, mishaps>>

(* A checkpoint file the machine's death leaves empty is read as no        *)
(* offsets at all.                                                         *)
Crash ==
  /\ Mishap("crash")
  /\ \E s \in Streams :
       /\ \E L \in IF pc[s] = "land" THEN FirstOf(Stored(s)) ELSE {{}} :
            table' = AddRows(table, L)
       /\ ckpt' \in {ckpt, [ckpt EXCEPT ![s] = Zero]}
  /\ pc' = [s \in Streams |-> "off"]
  /\ off' = [s \in Streams |-> Zero] /\ next' = off' /\ asked' = off'
  /\ stop' = {} /\ last' = {}
  /\ UNCHANGED <<files, lost>>

Next ==
  \/ \E s \in Streams : Start(s) \/ Step(s) \/ Stop(s)
  \/ \E s \in Streams : PollSome(s) \/ ChainFails(s) \/ MiddleFails(s) \/ SaveFails(s)
  \/ \E f \in Files : Write(f)
  \/ Crash

(* The event loop resumes a stream whose call has returned or whose sleep  *)
(* is over; somebody starts a stream that does not run again.  Writers,    *)
(* callers of stop() and failures owe nothing.                             *)
Fairness == \A s \in Streams : WF_vars(Step(s)) /\ WF_vars(Start(s))

Spec == Init /\ [][Next]_vars /\ Fairness

-----------------------------------------------------------------------------
(* Properties *)

Offsets == [Files -> Nat]

(* Every variable has the values the code can give it; no offset passes    *)
(* the complete lines of its file.                                         *)
TypeOK ==
  /\ text \in Texts /\ written \in [Files -> Nat] /\ \A f \in Files : written[f] <= Len(text[f])
  /\ DOMAIN table \subseteq Keys /\ \A k \in DOMAIN table : table[k] \in Lines
  /\ \A s \in Streams, f \in Files : ckpt[s][f] <= written[f] /\ next[s][f] <= written[f]
  /\ ckpt \in [Streams -> Offsets] /\ off \in [Streams -> Offsets]
  /\ next \in [Streams -> Offsets] /\ asked \in [Streams -> Offsets]
  /\ pc \in [Streams -> {"off", "dead", "poll", "land", "commit"}]
  /\ stop \subseteq Streams /\ last \subseteq stop /\ lost \subseteq Lines
  /\ mishaps \in Nat

Arrived(l) ==
  /\ Kind(l) \notin {"bad", "bare"}
  /\ Keyed(l) => Key(l) \in DOMAIN table

(* A checkpoint is never ahead of the table ("commit only AFTER the batch  *)
(* landed", stream_service.py:141): whatever crashed, failed or was cut    *)
(* short since, no line before it is one the sink has not taken, but for   *)
(* the lines a failing middle has swallowed.  A line skipped here would    *)
(* never be read again.                                                    *)
NothingSkipped ==
  \A s \in Streams, l \in Lines :
    l[1] \in Watched[s] /\ l[2] <= ckpt[s][l[1]] => Arrived(l) \/ l \in lost

(* Files every stream can read to the end.  A line that ends the stream,   *)
(* or cannot be passed, in one file holds up the stream's other files too. *)
Clean(s) ==
  \A l \in Lines : l[1] \in Watched[s] => Kind(l) \notin {"bad", "refused", "bare"}

Promised == UNION {Watched[s] : s \in {s \in Streams : Clean(s)}}

Deliveries == INSTANCE Delivery WITH promised <- Promised

(* At least once and an idempotent sink are effectively once: replayed     *)
(* batches, half-landed batches, streams stopped, dead and started again   *)
(* are not seen in the table, and every row of a clean file arrives or  *)
(* has been swallowed by a failing middle.                                 *)
IsDelivery == Deliveries!Spec

(* Only a crash can take a checkpoint back: a batch that moves the offsets *)
(* of some files keeps those of the others (offsets.update), so nothing    *)
(* that has landed is read again while the process lives.                  *)
CheckpointStays ==
  [][mishaps' = mishaps =>
       \A s \in Streams : \A f \in Watched[s] : ckpt'[s][f] >= ckpt[s][f]]_vars

(* A stop that ends well leaves behind only what one batch has no room     *)
(* for: every row complete when stop() was called has arrived, in the      *)
(* files the last sweep could open, or the last sweep was full.            *)
StopSweeps ==
  [][\A s \in Streams :
       Running(s) /\ pc'[s] = "off" /\ mishaps' = mishaps
         => \/ Cardinality(InHand(s)) = Batch
            \/ \A l \in Lines :
                 /\ l[1] \in Watched[s] /\ l[2] <= asked[s][l[1]] /\ Kind(l) = "row" /\ l \notin lost
                 /\ \A m \in Lines : Earlier(m, l) => Kind(m) # "bare"
                 => Key(l) \in DOMAIN table']_vars

(* stop() returns: the stream it waits for ends, well or not, however fast *)
(* its files grow and whatever is in them.                                 *)
StopReturns == \A s \in Streams : s \in stop ~> ~Running(s)
=============================================================================
