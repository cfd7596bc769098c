----------------------------- MODULE WritePath ------------------------------
(***************************************************************************)
(* The write path of an open database and the rebuild that runs beside it: *)
(* WriteService's worker (service/write_service.py) executing requests     *)
(* against the file mirror and the DuckDB table, AdminService's replay     *)
(* (service/admin_service.py), the calendar, process crashes and reopens.  *)
(*                                                                         *)
(* Interleaving.  The worker and each rebuild are coroutines; every call   *)
(* on the files or on DuckDB is a block on the one bridge thread           *)
(* (runtime/bridge.py).  One TLA+ step is one such block, or, for a block  *)
(* that appends several lines or inserts several rows, one line or row of  *)
(* it: a crash can fall between two of them, another block cannot.         *)
(***************************************************************************)
EXTENDS FileMirror, DuckTable, FiniteSets

CONSTANTS Requests,    \* the insert and delete calls made in the run
          Op,          \* what each of them asks
          Rebuilds,    \* the rebuild() calls made in the run
          Tears,       \* what a crash may leave of a line being appended
          Faults,      \* external calls that may fail
          MaxFaults,   \* how many of them do
          MaxCrashes   \* how often the process dies

Insert == [kind : {"insert"}, rows : Seq([key : Keys, val : Vals]), skip : BOOLEAN]
Delete == [kind : {"delete"}, keys : SUBSET Keys]

ASSUME OpAssumption     == Op \in [Requests -> Insert \cup Delete]
ASSUME TearsAssumption  == Tears \subseteq {"cut", "cutchar", "whole"}
ASSUME FaultsAssumption == Faults \subseteq {"embed", "fts", "log", "abort"}
ASSUME BoundsAssumption == MaxFaults \in Nat /\ MaxCrashes \in Nat

VARIABLES
  today,      \* the calendar day
  files,      \* the table's mirror: day -> lines                  (durable)
  unended,    \* days whose file ends without a newline            (durable)
  duck,       \* the table's rows                                  (durable)
  fts,        \* keys in the FTS index, a snapshot of the table    (durable)
  logged,     \* requests whose born-done task line is written     (durable)
  up,         \* the process is running with the database open
  queue,      \* requests waiting for the worker
  batch,      \* requests drained by the worker, head executing
  executed,   \* requests of the batch that ran to the end
  touched,    \* the batch inserted rows: their FTS index is due
  pc,         \* where the worker is
  keep,       \* keys the executing request writes
  todo,       \* keys of the present block still to write
  stamp,      \* the day stamped on the executing request
  st,         \* what the caller of each request knows
  wrote,      \* keys each finished request wrote
  rb,         \* each rebuild: where it is, its events still to apply, and
              \* (history) whether nobody else wrote since it read them
  faults, crashes

durable == <<files, unended, duck, fts, logged>>
worker  == <<queue, batch, executed, touched, pc, keep, todo, stamp>>
callers == <<st, wrote>>
misfortune == <<faults, crashes>>
vars == <<today, durable, up, worker, callers, rb, misfortune>>

-----------------------------------------------------------------------------
NoRebuild == [st |-> "none", left |-> {}, quiet |-> FALSE]

Init ==
  /\ today = 1
  /\ files = NoFiles /\ unended = {} /\ duck = EmptyTable /\ fts = {} /\ logged = {}
  /\ up = TRUE
  /\ queue = <<>> /\ batch = <<>> /\ executed = <<>> /\ touched = FALSE
  /\ pc = "idle" /\ keep = {} /\ todo = {} /\ stamp = 1
  /\ st = [r \in Requests |-> "new"] /\ wrote = [r \in Requests |-> {}]
  /\ rb = [b \in Rebuilds |-> NoRebuild]
  /\ faults = 0 /\ crashes = 0

-----------------------------------------------------------------------------
(* The requests *)

op == Op[Head(batch)]

(* The rows of an insert whose key is still to be written, the next first; *)
(* of two rows with one key only the first is ever next.                   *)
NextRow(rows, K) ==
  {i \in 1..Len(rows) : rows[i].key \in K /\ \A j \in 1..(i - 1) : rows[j].key \notin K}

KeysOf(rows) == {rows[i].key : i \in 1..Len(rows)}

Distinct(rows) ==
  \A i, j \in 1..Len(rows) : rows[i].key = rows[j].key => i = j

(* validate: a plain insert is refused whole when it repeats a key or      *)
(* meets one the table holds; skip_existing drops those rows instead.      *)
Valid(o) == o.skip \/ (Distinct(o.rows) /\ KeysOf(o.rows) \cap DOMAIN duck = {})

(* A block of several lines or rows has begun and not ended.               *)
MidBlock == pc \in {"puts", "commit", "tombs"} /\ todo # keep

Fault(what) ==
  /\ what \in Faults /\ faults < MaxFaults
  /\ faults' = faults + 1 /\ UNCHANGED crashes

(* A request writes to the files or the table: no rebuild under way has    *)
(* them to itself any more.                                                *)
Disturb == rb' = [b \in Rebuilds |-> [rb[b] EXCEPT !.quiet = FALSE]]

-----------------------------------------------------------------------------
(* Callers *)

Submit(r) ==
  /\ up /\ st[r] = "new"
  /\ st' = [st EXCEPT ![r] = "sent"]
  /\ queue' = Append(queue, r)
  /\ UNCHANGED <<today, durable, up, batch, executed, touched, pc, keep, todo, stamp,
                 wrote, rb, misfortune>>

-----------------------------------------------------------------------------
(* The worker *)

(* _worker_loop: everything queued by the time it wakes is one batch.      *)
TakeBatch ==
  /\ up /\ pc = "idle" /\ queue # <<>>
  /\ batch' = queue /\ queue' = <<>>
  /\ executed' = <<>> /\ touched' = FALSE
  /\ pc' = "begin"
  /\ UNCHANGED <<today, durable, up, keep, todo, stamp, callers, rb, misfortune>>

(* A bug to rule out: the worker does not notice that the batch is empty.  *)
AdvanceBlindly ==
  /\ batch' = Tail(batch)
  /\ pc' = "begin"
  /\ keep' = {} /\ todo' = {}
  /\ UNCHANGED <<queue, stamp>>

(* The executing request is over: on to the next one, or to the indexing.  *)
Advance ==
  /\ batch' = Tail(batch)
  /\ pc' = IF Tail(batch) = <<>> THEN "index" ELSE "begin"
  /\ keep' = {} /\ todo' = {}
  /\ UNCHANGED <<queue, stamp>>

(* A bug to rule out: a later request of the batch forgets that an earlier *)
(* one left its table to be indexed.                                       *)
SucceedAndForget(K, indexed) ==
  /\ Advance
  /\ executed' = Append(executed, Head(batch))
  /\ touched' = indexed
  /\ wrote' = [wrote EXCEPT ![Head(batch)] = K]
  /\ UNCHANGED st

Succeed(K, indexed) ==
  /\ Advance
  /\ executed' = Append(executed, Head(batch))
  /\ touched' = (touched \/ indexed)
  /\ wrote' = [wrote EXCEPT ![Head(batch)] = K]
  /\ UNCHANGED st

(* A bug to rule out: the failed request's future is dropped.              *)
RejectSilently ==
  /\ Advance
  /\ UNCHANGED <<st, executed, touched, wrote>>

(* Its own exception goes to its own future; the batch goes on.            *)
Reject ==
  /\ Advance
  /\ st' = [st EXCEPT ![Head(batch)] = "err"]
  /\ UNCHANGED <<executed, touched, wrote>>

Validate ==
  /\ up /\ pc = "begin" /\ op.kind = "insert"
  /\ LET fresh == KeysOf(op.rows) \ DOMAIN duck IN
     \/ /\ ~Valid(op)
        /\ Reject
     \/ /\ Valid(op) /\ fresh = {}
        /\ Succeed({}, FALSE)
     \/ /\ Valid(op) /\ fresh # {}
        /\ keep' = fresh /\ todo' = fresh /\ pc' = "stamp"
        /\ UNCHANGED <<queue, batch, executed, touched, stamp, callers>>
  /\ UNCHANGED <<today, durable, up, rb, misfortune>>

(* A bug to rule out: the day of an earlier request is stamped.            *)
EmbedKeepsStamp ==
  /\ up /\ pc = "stamp"
  /\ pc' = "puts"
  /\ UNCHANGED <<today, durable, up, queue, batch, executed, touched, keep, todo,
                 stamp, callers, rb, misfortune>>

(* The embedder's answer arrives; the day is read only now.                *)
EmbedAndStamp ==
  /\ up /\ pc = "stamp"
  /\ stamp' = today
  /\ pc' = "puts"
  /\ UNCHANGED <<today, durable, up, queue, batch, executed, touched, keep, todo,
                 callers, rb, misfortune>>

EmbedFails ==
  /\ up /\ pc = "stamp"
  /\ Fault("embed")
  /\ Reject
  /\ UNCHANGED <<today, durable, up, rb>>

(* A bug to rule out: the file is chosen by the day of the append, not by  *)
(* the day stamped on the rows.                                            *)
PutLineToday ==
  /\ up /\ pc = "puts"
  /\ Disturb
  /\ \E i \in NextRow(op.rows, todo) :
       /\ files' = AppendPiece(files, unended, today, Put(op.rows[i].key, op.rows[i].val))
       /\ unended' = unended \ {today}
       /\ IF todo = {op.rows[i].key}
            THEN todo' = keep /\ pc' = "commit"
            ELSE todo' = todo \ {op.rows[i].key} /\ pc' = pc
  /\ UNCHANGED <<today, duck, fts, logged, up, queue, batch, executed, touched, keep,
                 stamp, callers, misfortune>>

(* write_puts: one line a row, in the order of the rows.                   *)
PutLine ==
  /\ up /\ pc = "puts"
  /\ Disturb
  /\ \E i \in NextRow(op.rows, todo) :
       /\ files' = AppendPiece(files, unended, stamp, Put(op.rows[i].key, op.rows[i].val))
       /\ unended' = unended \ {stamp}
       /\ IF todo = {op.rows[i].key}
            THEN todo' = keep /\ pc' = "commit"
            ELSE todo' = todo \ {op.rows[i].key} /\ pc' = pc
  /\ UNCHANGED <<today, duck, fts, logged, up, queue, batch, executed, touched, keep,
                 stamp, callers, misfortune>>

(* commit_rows: executemany, each row its own transaction.  The first row  *)
(* DuckDB refuses ends the request; the rows before it stay.               *)
CommitRow ==
  /\ up /\ pc = "commit"
  /\ Disturb
  /\ \E i \in NextRow(op.rows, todo) :
       LET k == op.rows[i].key  v == op.rows[i].val IN
       \/ /\ Accepts(duck, k, v)
          /\ duck' = InsertRow(duck, k, v, stamp)
          /\ IF todo = {k}
               THEN Succeed(keep, TRUE)
               ELSE /\ todo' = todo \ {k}
                    /\ UNCHANGED <<queue, batch, executed, touched, pc, keep, stamp, callers>>
       \/ /\ ~Accepts(duck, k, v)
          /\ Reject
          /\ UNCHANGED duck
  /\ UNCHANGED <<today, files, unended, fts, logged, up, misfortune>>

(* match_live, then today() when its answer resumes the worker: nothing    *)
(* the worker uses changes in between but the day.                         *)
MatchLive ==
  /\ up /\ pc = "begin" /\ op.kind = "delete"
  /\ LET hits == op.keys \cap Live(duck) IN
     \/ /\ hits = {}
        /\ Succeed({}, FALSE)
     \/ /\ hits # {}
        /\ keep' = hits /\ todo' = hits /\ stamp' = today /\ pc' = "tombs"
        /\ UNCHANGED <<queue, batch, executed, touched, callers>>
  /\ UNCHANGED <<today, durable, up, rb, misfortune>>

(* write_deletes: one tombstone a key, in the order the SELECT gave.       *)
TombLine ==
  /\ up /\ pc = "tombs"
  /\ Disturb
  /\ \E k \in todo :
       /\ files' = AppendPiece(files, unended, stamp, Tomb(k))
       /\ unended' = unended \ {stamp}
       /\ IF todo = {k} THEN todo' = keep /\ pc' = "mark"
                        ELSE todo' = todo \ {k} /\ pc' = pc
  /\ UNCHANGED <<today, duck, fts, logged, up, queue, batch, executed, touched, keep,
                 stamp, callers, misfortune>>

(* soft_delete: one UPDATE for all of them.                                *)
MarkRows ==
  /\ up /\ pc = "mark"
  /\ Disturb
  /\ duck' = SoftDelete(duck, keep, stamp)
  /\ Succeed(keep, FALSE)
  /\ UNCHANGED <<today, files, unended, fts, logged, up, misfortune>>

(* The batch's FTS index, once; its failure is suppressed.                 *)
IndexBatch ==
  /\ up /\ pc = "index"
  /\ \/ /\ fts' = IF touched THEN DOMAIN duck ELSE fts
        /\ UNCHANGED misfortune
     \/ /\ touched
        /\ Fault("fts")
        /\ UNCHANGED fts
  /\ pc' = "log"
  /\ UNCHANGED <<today, files, unended, duck, logged, up, queue, batch, executed, touched,
                 keep, todo, stamp, callers, rb>>

Unlogged == {i \in 1..Len(executed) : executed[i] \notin logged}

(* One born-done task line per executed request, then all callers at once. *)
LogTask ==
  /\ up /\ pc = "log"
  /\ \E i \in Unlogged :
       /\ \A j \in Unlogged : i <= j
       /\ logged' = logged \cup {executed[i]}
  /\ UNCHANGED <<today, files, unended, duck, fts, up, worker, callers, rb, misfortune>>

Answer(how) ==
  /\ st' = [r \in Requests |->
              IF \E i \in 1..Len(executed) : executed[i] = r THEN how ELSE st[r]]
  /\ executed' = <<>> /\ pc' = "idle"
  /\ UNCHANGED <<queue, batch, touched, keep, todo, stamp, wrote>>

Resolve ==
  /\ up /\ pc = "log" /\ Unlogged = {}
  /\ Answer("ok")
  /\ UNCHANGED <<today, durable, up, rb, misfortune>>

(* The append raises: _worker_loop hands the exception to every future of  *)
(* the batch that is still waiting.                                        *)
LogFails ==
  /\ up /\ pc = "log" /\ Unlogged # {}
  /\ Fault("log")
  /\ Answer("err")
  /\ UNCHANGED <<today, durable, up, rb>>

Worker ==
  \/ TakeBatch \/ Validate \/ EmbedAndStamp \/ PutLine \/ CommitRow
  \/ MatchLive \/ TombLine \/ MarkRows \/ IndexBatch \/ LogTask \/ Resolve

-----------------------------------------------------------------------------
(* rebuild(): a background task of its own, beside the worker, not behind  *)
(* its queue.                                                              *)

RbGo(b, to) == rb' = [rb EXCEPT ![b].st = to]

(* A replay writes to the table: no other one under way has it to itself.  *)
Alone(b) == [c \in Rebuilds |-> IF c = b THEN rb[c] ELSE [rb[c] EXCEPT !.quiet = FALSE]]

RbApplied(b, e) == rb' = [Alone(b) EXCEPT ![b].left = @ \ {e}]

RbStart(b) ==
  /\ up /\ rb[b].st = "none"
  /\ RbGo(b, "read")
  /\ UNCHANGED <<today, durable, up, worker, callers, misfortune>>

(* Every event is read, and the puts embedded, before anything is cleared. *)
RbRead(b) ==
  /\ up /\ rb[b].st = "read"
  /\ \/ /\ ~Undecodable(files)
        /\ rb' = [rb EXCEPT ![b] = [st |-> "clear", left |-> Events(files), quiet |-> TRUE]]
     \/ /\ Undecodable(files)
        /\ RbGo(b, "failed")
  /\ UNCHANGED <<today, durable, up, worker, callers, misfortune>>

RbClear(b) ==
  /\ up /\ rb[b].st = "clear" /\ ~MidBlock
  /\ duck' = EmptyTable
  /\ rb' = [Alone(b) EXCEPT ![b].st = "rows"]
  /\ UNCHANGED <<today, files, unended, fts, logged, up, worker, callers, misfortune>>

(* A bug to rule out: a refused row is retried for ever.                   *)
RbRowStuck(b) ==
  /\ up /\ rb[b].st = "rows" /\ ~MidBlock
  /\ \E e \in First(PutsOf(rb[b].left)) :
       /\ Accepts(duck, e.rec.key, e.rec.val)
       /\ duck' = InsertRow(duck, e.rec.key, e.rec.val, e.day)
       /\ RbApplied(b, e)
  /\ UNCHANGED <<today, files, unended, fts, logged, up, worker, callers, misfortune>>

(* commit_rows of one put; a row DuckDB refuses ends the replay.           *)
RbRow(b) ==
  /\ up /\ rb[b].st = "rows" /\ ~MidBlock
  /\ \E e \in First(PutsOf(rb[b].left)) :
       \/ /\ Accepts(duck, e.rec.key, e.rec.val)
          /\ duck' = InsertRow(duck, e.rec.key, e.rec.val, e.day)
          /\ RbApplied(b, e)
       \/ /\ ~Accepts(duck, e.rec.key, e.rec.val)
          /\ RbGo(b, "failed")
          /\ UNCHANGED duck
  /\ UNCHANGED <<today, files, unended, fts, logged, up, worker, callers, misfortune>>

(* A bug to rule out: a replayed deletion is stamped with the present day. *)
RbMarkToday(b) ==
  /\ up /\ rb[b].st = "rows" /\ ~MidBlock
  /\ PutsOf(rb[b].left) = {}
  /\ \E e \in First(rb[b].left) :
       /\ duck' = SoftDelete(duck, {e.rec.key}, today)
       /\ RbApplied(b, e)
  /\ UNCHANGED <<today, files, unended, fts, logged, up, worker, callers, misfortune>>

(* soft_delete of one tombstone's key, once every put is in.               *)
RbMark(b) ==
  /\ up /\ rb[b].st = "rows" /\ ~MidBlock
  /\ PutsOf(rb[b].left) = {}
  /\ \E e \in First(rb[b].left) :
       /\ duck' = SoftDelete(duck, {e.rec.key}, e.day)
       /\ RbApplied(b, e)
  /\ UNCHANGED <<today, files, unended, fts, logged, up, worker, callers, misfortune>>

(* A bug to rule out: the replay ends when the rows are in, the deletions  *)
(* not yet applied.                                                        *)
RbIndexEarly(b) ==
  /\ up /\ rb[b].st = "rows" /\ PutsOf(rb[b].left) = {} /\ ~MidBlock
  /\ fts' = DOMAIN duck
  /\ RbGo(b, "done")
  /\ UNCHANGED <<today, files, unended, duck, logged, up, worker, callers, misfortune>>

(* rebuild_fts: the index is made once the events are all in.              *)
RbIndex(b) ==
  /\ up /\ rb[b].st = "rows" /\ rb[b].left = {} /\ ~MidBlock
  /\ fts' = DOMAIN duck
  /\ RbGo(b, "done")
  /\ UNCHANGED <<today, files, unended, duck, logged, up, worker, callers, misfortune>>

(* The task is cancelled, times out, or the embedder fails.                *)
RbAbort(b) ==
  /\ up /\ rb[b].st \in {"read", "clear", "rows"}
  /\ Fault("abort")
  /\ RbGo(b, "aborted")
  /\ UNCHANGED <<today, durable, up, worker, callers>>

RbStep(b) == RbRead(b) \/ RbClear(b) \/ RbRow(b) \/ RbMark(b) \/ RbIndex(b)

-----------------------------------------------------------------------------
(* The calendar, and the process's end and return *)

Midnight ==
  /\ today < MaxDay
  /\ today' = today + 1
  /\ UNCHANGED <<durable, up, worker, callers, rb, misfortune>>

(* The record whose line a crash may tear. *)
Appending ==
  CASE pc = "puts"  -> {Put(op.rows[i].key, op.rows[i].val) : i \in NextRow(op.rows, todo)}
    [] pc = "tombs" -> {Tomb(k) : k \in todo}
    [] OTHER        -> {}

TornPiece ==
  {[t |-> how] : how \in Tears \ {"whole"}} \cup (IF "whole" \in Tears THEN Appending ELSE {})

Crash ==
  /\ up /\ crashes < MaxCrashes
  /\ crashes' = crashes + 1 /\ UNCHANGED faults
  /\ up' = FALSE
  /\ \/ UNCHANGED <<files, unended>>
     \/ /\ Appending # {}
        /\ \E piece \in TornPiece :
             /\ files' = AppendPiece(files, unended, stamp, piece)
             /\ unended' = unended \cup {stamp}
  /\ queue' = <<>> /\ batch' = <<>> /\ executed' = <<>> /\ touched' = FALSE
  /\ pc' = "idle" /\ keep' = {} /\ todo' = {} /\ stamp' = 1
  /\ st' = [r \in Requests |-> IF st[r] = "sent" THEN "lost" ELSE st[r]]
  /\ rb' = [b \in Rebuilds |-> IF rb[b].st \in {"read", "clear", "rows"}
                                 THEN [rb[b] EXCEPT !.st = "lost"] ELSE rb[b]]
  /\ UNCHANGED <<today, duck, fts, logged, wrote>>

(* StoreService.open: the tables and indexes are created if missing and    *)
(* the FTS index is built anew.  The files are not looked at.              *)
Reopen ==
  /\ ~up
  /\ up' = TRUE
  /\ fts' = DOMAIN duck
  /\ UNCHANGED <<today, files, unended, duck, logged, worker, callers, rb, misfortune>>

Next ==
  \/ \E r \in Requests : Submit(r)
  \/ Worker \/ EmbedFails \/ LogFails
  \/ \E b \in Rebuilds : RbStart(b) \/ RbStep(b) \/ RbAbort(b)
  \/ Midnight \/ Crash \/ Reopen

(* The event loop and the bridge thread run every step that is due.  When  *)
(* a caller calls, the process dies or is started again is not theirs.     *)
Fairness == WF_vars(Worker) /\ \A b \in Rebuilds : WF_vars(RbStep(b))

Spec == Init /\ [][Next]_vars /\ Fairness

-----------------------------------------------------------------------------
(* Properties *)

Pcs == {"idle", "begin", "stamp", "puts", "commit", "tombs", "mark", "index", "log"}

RbSts == {"none", "read", "clear", "rows", "done", "failed", "aborted", "lost"}

(* Every variable has the values the code can give it. *)
TypeOK ==
  /\ today \in Days /\ stamp \in 1..today
  /\ files \in Mirror /\ unended \in SUBSET Days
  /\ duck \in Table /\ fts \in SUBSET Keys /\ logged \in SUBSET Requests
  /\ up \in BOOLEAN /\ touched \in BOOLEAN
  /\ queue \in Seq(Requests) /\ batch \in Seq(Requests) /\ executed \in Seq(Requests)
  /\ pc \in Pcs
  /\ pc \notin {"idle", "index", "log"} => batch # <<>>
  /\ keep \in SUBSET Keys /\ todo \in SUBSET keep
  /\ st \in [Requests -> {"new", "sent", "ok", "err", "lost"}]
  /\ wrote \in [Requests -> SUBSET Keys]
  /\ rb \in [Rebuilds -> [st : RbSts, left : SUBSET Event, quiet : BOOLEAN]]
  /\ faults \in Nat /\ crashes \in Nat

(* The canonical files cover the derived table (store.md section 4,        *)
(* file >= DuckDB): a row DuckDB holds has its put line, and a deletion it *)
(* holds its tombstone, in the mirror file of the day the row says.  The   *)
(* files-first order of _execute_one has to give this through every crash, *)
(* tear, failure and rebuild.                                              *)
FilesCoverDuck ==
  \A k \in DOMAIN duck :
    /\ Recorded(files, duck[k].ds, Put(k, duck[k].val))
    /\ duck[k].del # NULL => Recorded(files, duck[k].del, Tomb(k))

(* The row an insert asks to be stored under k: the first it gives for k.  *)
RowFor(r, k) == {Op[r].rows[i].val : i \in NextRow(Op[r].rows, {k})}

Complete(r) ==
  IF Op[r].kind = "insert"
  THEN /\ ~Op[r].skip => wrote[r] = KeysOf(Op[r].rows)
       /\ \A k \in wrote[r] : k \in DOMAIN duck /\ duck[k].val \in RowFor(r, k)
       /\ wrote[r] \subseteq fts
  ELSE \A k \in wrote[r] : k \in DOMAIN duck /\ duck[k].del # NULL

(* A done task means the whole write is there (write_service.py docstring, *)
(* task.md section 2), and a caller that was answered has such a task: its *)
(* rows are in the table, in the search index and in the files, its        *)
(* deletions are marked.  It must survive crashes, a batch of several      *)
(* requests and the failures of other requests of the batch.               *)
DoneIsComplete ==
  /\ \A r \in logged : Complete(r)
  /\ \A r \in Requests : st[r] = "ok" => r \in logged

(* The table the events E say: each key's first put, deleted on the day of *)
(* its first tombstone.                                                    *)
IsReplay(tbl, E) ==
  LET putsOf(k)  == {e \in PutsOf(E) : e.rec.key = k}
      tombsOf(k) == {e \in TombsOf(E) : e.rec.key = k}
  IN  /\ DOMAIN tbl = {e.rec.key : e \in PutsOf(E)}
      /\ \A k \in DOMAIN tbl :
           /\ \A e \in First(putsOf(k)) : tbl[k].val = e.rec.val /\ tbl[k].ds = e.day
           /\ IF tombsOf(k) = {} THEN tbl[k].del = NULL
                                 ELSE \A e \in First(tombsOf(k)) : tbl[k].del = e.day

(* A rebuild that reports done, and had files and table to itself since it *)
(* read the files, has made the table and its index what the files say:    *)
(* store.md section 4 (clear and replay) and 5 (deletions are kept).  This *)
(* has to hold whatever a crash left: rows without tasks, torn lines.      *)
RebuildRestores ==
  [][\A b \in Rebuilds :
        rb[b].st # "done" /\ rb'[b].st = "done" /\ rb[b].quiet
          => IsReplay(duck', Events(files)) /\ fts' = DOMAIN duck']_vars

(* The table behaves as the time machine promises: keys written once,      *)
(* deletions kept, a past day's view settled.  Without rebuilds.           *)
UnderStamp == IF pc \in {"puts", "commit", "tombs", "mark"} THEN {stamp} ELSE {}

TT == INSTANCE TimeTable WITH tbl <- duck, day <- today, open <- UnderStamp

IsTimeTable == TT!Spec

(* Every call a client makes is answered, or dies with the process: no     *)
(* path of the worker forgets a future.                                    *)
EveryCallAnswered == \A r \in Requests : st[r] = "sent" ~> st[r] # "sent"

(* Every rebuild task reaches an end. *)
EveryRebuildEnds ==
  \A b \in Rebuilds : rb[b].st = "read" ~> rb[b].st \in {"done", "failed", "aborted", "lost"}

-----------------------------------------------------------------------------
(* What the documents say and the program does not do *)

(* docs/works/store.md section 4 (the derived tier is strongly consistent: *)
(* an insert that returned is visible to search, and rebuild() restores    *)
(* the table from the files): when no rebuild is under way or was cut      *)
(* short, what finished writes wrote is there.                             *)
WritesSurviveRebuild == (\A b \in Rebuilds : rb[b].st \in {"none", "done"}) => DoneIsComplete

(* store.md section 4 and DESIGN.md 6.6: after open, every put line of the *)
(* files has its row (repair replays what a crash left out).               *)
OpenRepairs ==
  [][~up /\ up' => \A e \in PutsOf(Events(files)) : e.rec.key \in DOMAIN duck']_vars

(* store.md section 4: the derived tier can be rebuilt from the files at   *)
(* any time; a rebuild that is not cut short does not fail.                *)
RebuildSucceeds == \A b \in Rebuilds : rb[b].st # "failed"
=============================================================================
