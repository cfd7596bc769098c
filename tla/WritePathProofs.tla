--------------------------- MODULE WritePathProofs --------------------------
(***************************************************************************)
(* What the write path guarantees for every set of requests, rebuilds,     *)
(* keys and days: its types, the files-first invariant, and that without   *)
(* rebuilds it implements the time machine of TimeTable.                   *)
(***************************************************************************)
EXTENDS WritePath, StorageLemmas

(* The kind of the executing request is the one its phase belongs to, and  *)
(* a request that waits for its stamp has written nothing.                 *)
Phase ==
  /\ pc \in {"stamp", "puts", "commit"} => op \in Insert
  /\ pc \in {"tombs", "mark"} => op \in Delete
  /\ pc = "stamp" => todo = keep

(* A batch with a request in it has one at its head, and a rest.           *)
LEMMA BatchHead ==
  ASSUME TypeOK, batch # <<>>
  PROVE  /\ Head(batch) \in Requests
         /\ Tail(batch) \in Seq(Requests)
         /\ op \in Insert \cup Delete
         /\ op.kind = "insert" => op \in Insert
         /\ op.kind = "delete" => op \in Delete
<1>1. batch \in Seq(Requests) /\ batch # <<>>
  BY DEF TypeOK
<1>2. Head(batch) \in Requests /\ Tail(batch) \in Seq(Requests)
  BY <1>1, HeadTailProperties
<1>3. op \in Insert \cup Delete
  BY <1>2, OpAssumption DEF op
<1> QED
  BY <1>2, <1>3 DEF Insert, Delete

(* What the worker appends is a piece of a file.                           *)
LEMMA PutsAreRecords ==
  ASSUME NEW k \in Keys, NEW v \in Vals
  PROVE  Put(k, v) \in Pieces
BY DEF Pieces, Records, Puts

(* The rows of an insert are rows.                                         *)
LEMMA RowTypes ==
  ASSUME NEW o \in Insert, NEW K, NEW i \in NextRow(o.rows, K)
  PROVE  o.rows[i].key \in Keys /\ o.rows[i].val \in Vals /\ o.rows[i].key \in K
<1>1. o.rows \in Seq([key : Keys, val : Vals])
  BY DEF Insert
<1>2. i \in 1..Len(o.rows) /\ o.rows[i].key \in K
  BY DEF NextRow
<1>3. o.rows[i] \in [key : Keys, val : Vals]
  BY <1>1, <1>2, ElementOfSeq
<1> QED
  BY <1>2, <1>3

(* The keys of an insert are keys of the table.                            *)
LEMMA KeysOfRows ==
  ASSUME NEW o \in Insert
  PROVE  KeysOf(o.rows) \subseteq Keys
<1>1. o.rows \in Seq([key : Keys, val : Vals])
  BY DEF Insert
<1>2. \A i \in 1..Len(o.rows) : o.rows[i] \in [key : Keys, val : Vals]
  BY <1>1, ElementOfSeq
<1> QED
  BY <1>2 DEF KeysOf

(* The stamp and the present day are days, and the first day is not after  *)
(* today.                                                                  *)
LEMMA DayFacts ==
  ASSUME TypeOK
  PROVE  stamp \in Days /\ today \in Days /\ 1 \in 1..today
BY MaxDayAssumption DEF TypeOK, Days

(* An event is a put with a key and a body, or a tombstone with a key.     *)
LEMMA EventTypes ==
  ASSUME NEW E \in SUBSET Event, NEW e \in E
  PROVE  /\ e.day \in Days
         /\ e \in PutsOf(E) => /\ e.rec.key \in Keys /\ e.rec.val \in Vals
                               /\ e.rec = Put(e.rec.key, e.rec.val)
         /\ e \notin PutsOf(E) => e.rec.key \in Keys /\ e.rec = Tomb(e.rec.key)
<1>1. e.day \in Days /\ e.rec \in Records
  BY DEF Event
<1>2. ASSUME e.rec \in Puts
      PROVE  e.rec.key \in Keys /\ e.rec.val \in Vals /\ e.rec = Put(e.rec.key, e.rec.val)
  BY <1>2 DEF Puts, Put
<1>3. ASSUME e.rec \in Tombs PROVE e.rec.key \in Keys /\ e.rec = Tomb(e.rec.key)
  BY <1>3 DEF Tombs, Tomb
<1> QED
  BY <1>1, <1>2, <1>3 DEF PutsOf, Records

(* The ways a request ends.                                                *)
LEMMA AdvanceTypes ==
  ASSUME TypeOK, batch # <<>>, Advance
  PROVE  /\ batch' \in Seq(Requests) /\ queue' = queue /\ stamp' = stamp
         /\ pc' \in {"index", "begin"} /\ (pc' = "begin" => batch' # <<>>)
         /\ keep' = {} /\ todo' = {}
BY BatchHead DEF Advance

(* A request that ends well keeps what the batch and the callers know      *)
(* typed.                                                                  *)
LEMMA SucceedTypes ==
  ASSUME TypeOK, batch # <<>>, NEW K \in SUBSET Keys, NEW indexed \in BOOLEAN,
         Succeed(K, indexed)
  PROVE  /\ executed' \in Seq(Requests) /\ touched' \in BOOLEAN
         /\ wrote' \in [Requests -> SUBSET Keys] /\ st' = st
<1>1. Head(batch) \in Requests
  BY BatchHead
<1>2. executed' = Append(executed, Head(batch)) /\ executed \in Seq(Requests)
  BY DEF Succeed, TypeOK
<1> QED
  BY <1>1, <1>2, AppendProperties DEF Succeed, TypeOK

(* A request that fails changes only what its own caller knows.            *)
LEMMA RejectTypes ==
  ASSUME TypeOK, batch # <<>>, Reject
  PROVE  /\ executed' = executed /\ touched' = touched /\ wrote' = wrote
         /\ st' \in [Requests -> {"new", "sent", "ok", "err", "lost"}]
BY BatchHead DEF Reject, TypeOK

-----------------------------------------------------------------------------
(* A day whose file ends without a newline has a file with a line in it.   *)
FileKept == \A d \in unended : Len(files[d]) > 0

TypeInv == TypeOK /\ Phase /\ FileKept

(* One append keeps the types and everything the files say.                *)
LEMMA AppendKeeps ==
  ASSUME TypeInv, NEW d \in Days, NEW piece \in Pieces,
         files' = AppendPiece(files, unended, d, piece),
         unended' \subseteq unended \cup {d}
  PROVE  /\ files' \in Mirror /\ unended' \in SUBSET Days /\ FileKept'
         /\ Recorded(files', d, piece)
         /\ \A e \in Days : \A rec : Recorded(files, e, rec) => Recorded(files', e, rec)
<1> DEFINE G == AppendPiece(files, unended, d, piece)
<1>1. files \in Mirror /\ unended \in SUBSET Days /\ \A e \in unended : Len(files[e]) > 0
  BY DEF TypeInv, TypeOK, FileKept
<1>2. /\ G \in Mirror
      /\ \A e \in unended \cup {d} : Len(G[e]) > 0
      /\ Recorded(G, d, piece)
      /\ \A e \in Days : \A rec : Recorded(files, e, rec) => Recorded(G, e, rec)
  BY <1>1, AppendRecords
<1>3. files' = G
  OBVIOUS
<1> HIDE DEF G
<1> QED
  BY <1>1, <1>2, <1>3 DEF FileKept

(* Disturb, and a step of one rebuild, keep the rebuilds typed.            *)
LEMMA DisturbTypes ==
  ASSUME TypeOK, Disturb
  PROVE  rb' \in [Rebuilds -> [st : RbSts, left : SUBSET Event, quiet : BOOLEAN]]
BY DEF Disturb, TypeOK

(* A rebuild that moves on stays typed.                                    *)
LEMMA RbGoTypes ==
  ASSUME TypeOK, NEW b \in Rebuilds, NEW to \in RbSts, RbGo(b, to)
  PROVE  rb' \in [Rebuilds -> [st : RbSts, left : SUBSET Event, quiet : BOOLEAN]]
BY DEF RbGo, TypeOK

(* A rebuild that has applied an event stays typed.                        *)
LEMMA RbLeftTypes ==
  ASSUME TypeOK, NEW b \in Rebuilds, NEW e, RbApplied(b, e)
  PROVE  rb' \in [Rebuilds -> [st : RbSts, left : SUBSET Event, quiet : BOOLEAN]]
<1>1. Alone(b) \in [Rebuilds -> [st : RbSts, left : SUBSET Event, quiet : BOOLEAN]]
  BY DEF Alone, TypeOK
<1>2. (Alone(b)[b].left \ {e}) \in SUBSET Event
  BY <1>1
<1> QED
  BY <1>1, <1>2 DEF RbApplied

(* So does one that has cleared the table, and its events are left to do.  *)
LEMMA RbClearTypes ==
  ASSUME TypeOK, NEW b \in Rebuilds, rb' = [Alone(b) EXCEPT ![b].st = "rows"]
  PROVE  /\ rb' \in [Rebuilds -> [st : RbSts, left : SUBSET Event, quiet : BOOLEAN]]
         /\ \A c \in Rebuilds : rb'[c].left = rb[c].left
<1>1. /\ Alone(b) \in [Rebuilds -> [st : RbSts, left : SUBSET Event, quiet : BOOLEAN]]
      /\ \A c \in Rebuilds : Alone(b)[c].left = rb[c].left
  BY DEF Alone, TypeOK
<1>2. "rows" \in RbSts
  BY DEF RbSts
<1> QED
  BY <1>1, <1>2

(* The worker's steps, the rebuilds', and the others keep TypeInv.         *)
LEMMA WorkerTypes ==
  ASSUME TypeInv, Worker \/ EmbedFails \/ LogFails
  PROVE  TypeInv'
<1> USE DEF TypeInv
<1>0. /\ stamp \in Days /\ today \in Days /\ 1 \in 1..today
      /\ (pc \notin {"idle", "index", "log"} => batch # <<>>)
  BY DayFacts DEF TypeOK
<1>1. CASE TakeBatch
  <2>1. queue # <<>> /\ queue \in Seq(Requests) /\ <<>> \in Seq(Requests)
    BY <1>1 DEF TakeBatch, TypeOK
  <2>2. /\ batch' = queue /\ queue' = <<>> /\ executed' = <<>> /\ touched' = FALSE
        /\ pc' = "begin"
        /\ UNCHANGED <<today, durable, up, keep, todo, stamp, callers, rb, misfortune>>
    BY <1>1 DEF TakeBatch
  <2>3. Phase' /\ FileKept'
    BY <2>2 DEF Phase, FileKept, durable
  <2> QED
    BY <2>1, <2>2, <2>3 DEF TypeOK, Pcs, durable, callers, misfortune
<1>2. CASE Validate
  <2>1. batch # <<>> /\ op \in Insert
    BY <1>0, <1>2, BatchHead DEF Validate
  <2> DEFINE fresh == KeysOf(op.rows) \ DOMAIN duck
  <2>2. fresh \in SUBSET Keys
    BY <2>1, KeysOfRows
  <2>3. CASE Reject
    BY <1>2, <2>1, <2>3, AdvanceTypes, RejectTypes
    DEF Validate, Reject, TypeOK, Phase, FileKept, Pcs, durable, misfortune
  <2>4. CASE Succeed({}, FALSE)
    BY <1>2, <2>1, <2>4, AdvanceTypes, SucceedTypes
    DEF Validate, Succeed, TypeOK, Phase, FileKept, Pcs, durable, misfortune
  <2>5. CASE /\ keep' = fresh /\ todo' = fresh /\ pc' = "stamp"
             /\ UNCHANGED <<queue, batch, executed, touched, stamp, callers>>
    BY <1>2, <2>1, <2>2, <2>5
    DEF Validate, TypeOK, Phase, op, FileKept, Pcs, durable, misfortune, callers
  <2> QED
    BY <1>2, <2>3, <2>4, <2>5 DEF Validate
<1>3. CASE EmbedAndStamp
  BY <1>0, <1>3 DEF EmbedAndStamp, TypeOK, Phase, op, FileKept, Pcs, Days, durable, callers, misfortune
<1>4. CASE EmbedFails
  BY <1>0, <1>4, AdvanceTypes, RejectTypes
  DEF EmbedFails, Fault, Reject, TypeOK, Phase, FileKept, Pcs, durable
<1>5. CASE PutLine
  <2>1. batch # <<>> /\ op \in Insert /\ pc = "puts"
    BY <1>0, <1>5 DEF PutLine, Phase
  <2>2. PICK i \in NextRow(op.rows, todo) :
          /\ files' = AppendPiece(files, unended, stamp, Put(op.rows[i].key, op.rows[i].val))
          /\ unended' = unended \ {stamp}
          /\ \/ todo' = keep /\ pc' = "commit"
             \/ todo' = todo \ {op.rows[i].key} /\ pc' = pc
    BY <1>5 DEF PutLine
  <2>3. Put(op.rows[i].key, op.rows[i].val) \in Pieces
    <3>1. op.rows[i].key \in Keys /\ op.rows[i].val \in Vals
      BY <2>1, RowTypes
    <3> QED
      BY <3>1, PutsAreRecords
  <2>4. files' \in Mirror /\ unended' \in SUBSET Days /\ FileKept'
    BY <1>0, <2>2, <2>3, AppendKeeps
  <2>5. rb' \in [Rebuilds -> [st : RbSts, left : SUBSET Event, quiet : BOOLEAN]]
    BY <1>5, DisturbTypes DEF PutLine
  <2>6. Phase' /\ todo' \in SUBSET keep /\ pc' \in {"puts", "commit"} /\ keep' = keep
    BY <1>5, <2>1, <2>2 DEF PutLine, Phase, op, TypeOK
  <2> QED
    BY <1>5, <2>1, <2>4, <2>5, <2>6 DEF PutLine, TypeOK, Pcs, callers, misfortune
<1>6. CASE CommitRow
  <2>1. batch # <<>> /\ op \in Insert /\ pc = "commit"
    BY <1>0, <1>6 DEF CommitRow, Phase
  <2>2. rb' \in [Rebuilds -> [st : RbSts, left : SUBSET Event, quiet : BOOLEAN]]
    BY <1>6, DisturbTypes DEF CommitRow
  <2>3. PICK i \in NextRow(op.rows, todo) :
          \/ /\ duck' = InsertRow(duck, op.rows[i].key, op.rows[i].val, stamp)
             /\ \/ Succeed(keep, TRUE)
                \/ /\ todo' = todo \ {op.rows[i].key}
                   /\ UNCHANGED <<queue, batch, executed, touched, pc, keep, stamp, callers>>
          \/ Reject /\ UNCHANGED duck
    BY <1>6 DEF CommitRow
  <2>4. op.rows[i].key \in Keys /\ op.rows[i].val \in Vals
    BY <2>1, RowTypes
  <2>5. InsertRow(duck, op.rows[i].key, op.rows[i].val, stamp) \in Table
    BY <1>0, <2>4, InsertRowTable DEF TypeOK
  <2>6. duck' \in Table
    BY <2>3, <2>5 DEF TypeOK
  <2>7. keep \in SUBSET Keys /\ TRUE \in BOOLEAN
    BY DEF TypeOK
  <2>8. CASE Reject
    BY <1>6, <2>1, <2>2, <2>6, <2>8, AdvanceTypes, RejectTypes
    DEF CommitRow, Reject, TypeOK, Phase, FileKept, Pcs, misfortune
  <2>9. CASE Succeed(keep, TRUE)
    BY <1>6, <2>1, <2>2, <2>6, <2>7, <2>9, AdvanceTypes, SucceedTypes
    DEF CommitRow, Succeed, TypeOK, Phase, FileKept, Pcs, misfortune
  <2>10. CASE /\ todo' = todo \ {op.rows[i].key}
              /\ UNCHANGED <<queue, batch, executed, touched, pc, keep, stamp, callers>>
    BY <1>6, <2>1, <2>2, <2>6, <2>10
    DEF CommitRow, TypeOK, Phase, op, FileKept, Pcs, callers, misfortune
  <2> QED
    BY <2>3, <2>8, <2>9, <2>10
<1>7. CASE MatchLive
  <2>1. batch # <<>> /\ op \in Delete
    BY <1>0, <1>7, BatchHead DEF MatchLive
  <2> DEFINE hits == op.keys \cap Live(duck)
  <2>2. hits \in SUBSET Keys
    BY <2>1 DEF Delete
  <2>3. CASE Succeed({}, FALSE)
    BY <1>7, <2>1, <2>3, AdvanceTypes, SucceedTypes
    DEF MatchLive, Succeed, TypeOK, Phase, FileKept, Pcs, durable, misfortune
  <2>4. CASE /\ keep' = hits /\ todo' = hits /\ stamp' = today /\ pc' = "tombs"
             /\ UNCHANGED <<queue, batch, executed, touched, callers>>
    BY <1>0, <1>7, <2>1, <2>2, <2>4
    DEF MatchLive, TypeOK, Phase, op, FileKept, Pcs, Days, durable, misfortune, callers
  <2> QED
    BY <1>7, <2>3, <2>4 DEF MatchLive
<1>8. CASE TombLine
  <2>1. batch # <<>> /\ op \in Delete /\ pc = "tombs"
    BY <1>0, <1>8 DEF TombLine, Phase
  <2>2. PICK k \in todo :
          /\ files' = AppendPiece(files, unended, stamp, Tomb(k))
          /\ unended' = unended \ {stamp}
          /\ \/ todo' = keep /\ pc' = "mark"
             \/ todo' = todo \ {k} /\ pc' = pc
    BY <1>8 DEF TombLine
  <2>3. Tomb(k) \in Pieces
    BY DEF Pieces, Records, Tombs, TypeOK
  <2>4. files' \in Mirror /\ unended' \in SUBSET Days /\ FileKept'
    BY <1>0, <2>2, <2>3, AppendKeeps
  <2>5. rb' \in [Rebuilds -> [st : RbSts, left : SUBSET Event, quiet : BOOLEAN]]
    BY <1>8, DisturbTypes DEF TombLine
  <2>6. Phase' /\ todo' \in SUBSET keep /\ pc' \in {"tombs", "mark"} /\ keep' = keep
    BY <1>8, <2>1, <2>2 DEF TombLine, Phase, op, TypeOK
  <2> QED
    BY <1>8, <2>1, <2>4, <2>5, <2>6 DEF TombLine, TypeOK, Pcs, callers, misfortune
<1>9. CASE MarkRows
  <2>1. batch # <<>> /\ keep \in SUBSET Keys /\ FALSE \in BOOLEAN /\ Succeed(keep, FALSE)
    BY <1>0, <1>9 DEF MarkRows, TypeOK
  <2>2. SoftDelete(duck, keep, stamp) \in Table
    BY <1>0, SoftDeleteTable DEF TypeOK
  <2>3. duck' \in Table
    BY <1>9, <2>2 DEF MarkRows
  <2>4. rb' \in [Rebuilds -> [st : RbSts, left : SUBSET Event, quiet : BOOLEAN]]
    BY <1>9, DisturbTypes DEF MarkRows
  <2> QED
    BY <1>9, <2>1, <2>3, <2>4, AdvanceTypes, SucceedTypes
    DEF MarkRows, Succeed, TypeOK, Phase, FileKept, Pcs, misfortune
<1>10. CASE IndexBatch
  <2>1. DOMAIN duck \in SUBSET Keys
    BY DEF TypeOK, Table
  <2>2. fts' \in SUBSET Keys
    BY <1>10, <2>1 DEF IndexBatch, TypeOK
  <2> QED
    BY <1>10, <2>2 DEF IndexBatch, Fault, TypeOK, Phase, FileKept, Pcs, callers, misfortune
<1>11. CASE LogTask
  <2>1. \A i \in Unlogged : executed[i] \in Requests
    BY ElementOfSeq DEF Unlogged, TypeOK
  <2>2. logged' \in SUBSET Requests
    BY <1>11, <2>1 DEF LogTask, TypeOK
  <2> QED
    BY <1>11, <2>2 DEF LogTask, TypeOK, Phase, op, FileKept, Pcs, worker, callers, misfortune
<1>12. ASSUME NEW how \in {"ok", "err"}, Answer(how)
       PROVE  /\ st' \in [Requests -> {"new", "sent", "ok", "err", "lost"}]
              /\ executed' \in Seq(Requests) /\ pc' = "idle" /\ Phase'
              /\ UNCHANGED <<queue, batch, touched, keep, todo, stamp, wrote>>
  BY <1>12 DEF Answer, TypeOK, Phase
<1>13. CASE Resolve
  BY <1>12, <1>13 DEF Resolve, TypeOK, FileKept, Pcs, durable, misfortune
<1>14. CASE LogFails
  BY <1>12, <1>14 DEF LogFails, Fault, TypeOK, FileKept, Pcs, durable
<1> QED
  BY <1>1, <1>2, <1>3, <1>4, <1>5, <1>6, <1>7, <1>8, <1>9, <1>10, <1>11, <1>13, <1>14
  DEF Worker

(* Every step of a rebuild keeps TypeInv.                                  *)
LEMMA RebuildTypes ==
  ASSUME TypeInv, NEW b \in Rebuilds, RbStart(b) \/ RbStep(b) \/ RbAbort(b)
  PROVE  TypeInv'
<1> USE DEF TypeInv
<1> DEFINE RbType == rb' \in [Rebuilds -> [st : RbSts, left : SUBSET Event, quiet : BOOLEAN]]
<1>1. rb[b].left \in SUBSET Event /\ files \in Mirror /\ duck \in Table
  BY DEF TypeOK
<1>2. CASE RbStart(b)
  <2>1. RbType
    BY <1>2, RbGoTypes DEF RbStart, RbSts
  <2> QED
    BY <1>2, <2>1 DEF RbStart, TypeOK, Phase, op, FileKept, Pcs, durable, worker, callers, misfortune
<1>3. CASE RbRead(b)
  <2>1. Events(files) \in SUBSET Event
    BY <1>1, EventsRecorded
  <2>2. CASE RbGo(b, "failed")
    <3>1. RbType
      BY <2>2, RbGoTypes DEF RbSts
    <3> QED
      BY <1>3, <3>1 DEF RbRead, TypeOK, Phase, op, FileKept, Pcs, durable, worker, callers, misfortune
  <2>3. CASE rb' = [rb EXCEPT ![b] = [st |-> "clear", left |-> Events(files), quiet |-> TRUE]]
    <3>1. RbType
      BY <2>1, <2>3 DEF TypeOK, RbSts
    <3> QED
      BY <1>3, <3>1 DEF RbRead, TypeOK, Phase, op, FileKept, Pcs, durable, worker, callers, misfortune
  <2> QED
    BY <1>3, <2>2, <2>3 DEF RbRead
<1>4. CASE RbClear(b)
  <2>1. RbType
    BY <1>4, RbClearTypes DEF RbClear
  <2>2. duck' \in Table
    BY <1>4, EmptyTableTable DEF RbClear
  <2> QED
    BY <1>4, <2>1, <2>2 DEF RbClear, TypeOK, Phase, op, FileKept, Pcs, worker, callers, misfortune
<1>5. CASE RbRow(b)
  <2>1. PICK e \in First(PutsOf(rb[b].left)) :
          \/ /\ duck' = InsertRow(duck, e.rec.key, e.rec.val, e.day)
             /\ RbApplied(b, e)
          \/ RbGo(b, "failed") /\ UNCHANGED duck
    BY <1>5 DEF RbRow
  <2>2. e \in rb[b].left /\ e \in PutsOf(rb[b].left)
    BY <2>1 DEF First, PutsOf
  <2>3. e.day \in Days /\ e.rec.key \in Keys /\ e.rec.val \in Vals
    BY <1>1, <2>2, EventTypes
  <2>4. duck' \in Table
    <3>1. InsertRow(duck, e.rec.key, e.rec.val, e.day) \in Table
      BY <1>1, <2>3, InsertRowTable
    <3> QED
      BY <1>1, <2>1, <3>1
  <2>5. RbType
    BY <2>1, RbGoTypes, RbLeftTypes DEF RbSts
  <2> QED
    BY <1>5, <2>4, <2>5 DEF RbRow, TypeOK, Phase, op, FileKept, Pcs, worker, callers, misfortune
<1>6. CASE RbMark(b)
  <2>1. PICK e \in First(rb[b].left) :
          /\ duck' = SoftDelete(duck, {e.rec.key}, e.day)
          /\ RbApplied(b, e)
    BY <1>6 DEF RbMark
  <2>2. e.day \in Days
    BY <1>1, <2>1, EventTypes DEF First
  <2>3. duck' \in Table
    BY <1>1, <2>1, <2>2, SoftDeleteTable
  <2>4. RbType
    BY <2>1, RbLeftTypes
  <2> QED
    BY <1>6, <2>3, <2>4 DEF RbMark, TypeOK, Phase, op, FileKept, Pcs, worker, callers, misfortune
<1>7. CASE RbIndex(b)
  <2>1. RbType
    BY <1>7, RbGoTypes DEF RbIndex, RbSts
  <2>2. fts' \in SUBSET Keys
    BY <1>7 DEF RbIndex, TypeOK, Table
  <2> QED
    BY <1>7, <2>1, <2>2 DEF RbIndex, TypeOK, Phase, op, FileKept, Pcs, worker, callers, misfortune
<1>8. CASE RbAbort(b)
  <2>1. RbType
    BY <1>8, RbGoTypes DEF RbAbort, RbSts
  <2> QED
    BY <1>8, <2>1 DEF RbAbort, Fault, TypeOK, Phase, op, FileKept, Pcs, durable, worker, callers
<1> QED
  BY <1>2, <1>3, <1>4, <1>5, <1>6, <1>7, <1>8 DEF RbStep

(* What a crash may leave of a line is a piece of a file.                  *)
LEMMA TornPieces ==
  ASSUME TypeInv
  PROVE  Appending # {} => TornPiece \subseteq Pieces /\ stamp \in Days
<1> SUFFICES ASSUME Appending # {} PROVE TornPiece \subseteq Pieces
  BY DayFacts DEF TypeInv
<1>1. \A how \in Tears \ {"whole"} : [t |-> how] \in Pieces
  BY TearsAssumption DEF Pieces, Stumps
<1>2. Appending \subseteq Pieces
  <2>1. CASE pc = "puts"
    <3>1. op \in Insert
      BY <2>1 DEF TypeInv, Phase
    <3>2. \A i \in NextRow(op.rows, todo) : Put(op.rows[i].key, op.rows[i].val) \in Pieces
      <4> TAKE i \in NextRow(op.rows, todo)
      <4>1. op.rows[i].key \in Keys /\ op.rows[i].val \in Vals
        BY <3>1, RowTypes
      <4> QED
        BY <4>1, PutsAreRecords
    <3> QED
      BY <2>1, <3>2 DEF Appending
  <2>2. CASE pc = "tombs"
    <3>1. \A k \in todo : Tomb(k) \in Pieces
      BY DEF TypeInv, TypeOK, Pieces, Records, Tombs
    <3> QED
      BY <2>2, <3>1 DEF Appending
  <2> QED
    BY <2>1, <2>2 DEF Appending
<1> QED
  BY <1>1, <1>2 DEF TornPiece

(* A crash, whatever it leaves of a line, keeps TypeInv and every record   *)
(* of the files.                                                           *)
LEMMA CrashTypes ==
  ASSUME TypeInv, Crash
  PROVE  /\ TypeInv'
         /\ \A d \in Days : \A rec : Recorded(files, d, rec) => Recorded(files', d, rec)
<1> USE DEF TypeInv
<1>1. /\ files' \in Mirror /\ unended' \in SUBSET Days /\ FileKept'
      /\ \A d \in Days : \A rec : Recorded(files, d, rec) => Recorded(files', d, rec)
  <2>1. CASE UNCHANGED <<files, unended>>
    BY <2>1 DEF TypeOK, FileKept
  <2>2. CASE \E piece \in TornPiece :
               /\ Appending # {}
               /\ files' = AppendPiece(files, unended, stamp, piece)
               /\ unended' = unended \cup {stamp}
    <3>1. PICK piece \in Pieces : /\ stamp \in Days
                                  /\ files' = AppendPiece(files, unended, stamp, piece)
                                  /\ unended' = unended \cup {stamp}
      BY <2>2, TornPieces
    <3> QED
      BY <3>1, AppendKeeps
  <2> QED
    BY <2>1, <2>2 DEF Crash
<1>2. rb' \in [Rebuilds -> [st : RbSts, left : SUBSET Event, quiet : BOOLEAN]]
  BY DEF Crash, TypeOK, RbSts
<1>3. st' \in [Requests -> {"new", "sent", "ok", "err", "lost"}]
  BY DEF Crash, TypeOK
<1>4. 1 \in 1..today /\ <<>> \in Seq(Requests)
  BY DayFacts
<1>5. /\ up' = FALSE /\ queue' = <<>> /\ batch' = <<>> /\ executed' = <<>>
      /\ touched' = FALSE /\ pc' = "idle" /\ keep' = {} /\ todo' = {} /\ stamp' = 1
      /\ crashes' = crashes + 1 /\ UNCHANGED faults
      /\ UNCHANGED <<today, duck, fts, logged, wrote>>
  BY DEF Crash
<1>6. TypeOK'
  <2>1. /\ today' \in Days /\ stamp' \in 1..today'
        /\ duck' \in Table /\ fts' \in SUBSET Keys /\ logged' \in SUBSET Requests
        /\ wrote' \in [Requests -> SUBSET Keys]
    BY <1>4, <1>5 DEF TypeOK
  <2>2. queue' \in Seq(Requests) /\ batch' \in Seq(Requests) /\ executed' \in Seq(Requests)
    BY <1>4, <1>5
  <2>3. faults' \in Nat /\ crashes' \in Nat
    BY <1>5 DEF TypeOK
  <2>4. up' \in BOOLEAN /\ touched' \in BOOLEAN /\ keep' \in SUBSET Keys /\ todo' \in SUBSET keep'
    BY <1>5
  <2>5. pc' \in Pcs /\ pc' \in {"idle", "index", "log"}
    BY <1>5 DEF Pcs
  <2> QED
    BY <1>1, <1>2, <1>3, <2>1, <2>2, <2>3, <2>4, <2>5 DEF TypeOK
<1> QED
  BY <1>1, <1>5, <1>6 DEF Phase

(* Calls, midnight, a reopen and stuttering keep TypeInv.                  *)
LEMMA OtherTypes ==
  ASSUME TypeInv, (\E r \in Requests : Submit(r)) \/ Midnight \/ Reopen \/ UNCHANGED vars
  PROVE  TypeInv'
<1> USE DEF TypeInv
<1>1. ASSUME NEW r \in Requests, Submit(r) PROVE TypeInv'
  <2>1. queue' \in Seq(Requests)
    BY <1>1, AppendProperties DEF Submit, TypeOK
  <2>2. st' \in [Requests -> {"new", "sent", "ok", "err", "lost"}]
    BY <1>1 DEF Submit, TypeOK
  <2> QED
    BY <1>1, <2>1, <2>2 DEF Submit, TypeOK, Phase, op, FileKept, Pcs, durable, misfortune
<1>2. CASE Midnight
  <2>1. today' \in Days /\ stamp' \in 1..today'
    BY <1>2, MaxDayAssumption DEF Midnight, TypeOK, Days, worker
  <2> QED
    BY <1>2, <2>1 DEF Midnight, TypeOK, Phase, op, FileKept, Pcs, durable, worker, callers, misfortune
<1>3. CASE Reopen
  <2>1. fts' \in SUBSET Keys
    BY <1>3 DEF Reopen, TypeOK, Table
  <2> QED
    BY <1>3, <2>1 DEF Reopen, TypeOK, Phase, op, FileKept, Pcs, worker, callers, misfortune
<1>4. CASE UNCHANGED vars
  BY <1>4 DEF vars, TypeOK, Phase, op, FileKept, Pcs, durable, worker, callers, misfortune
<1> QED
  BY <1>1, <1>2, <1>3, <1>4

(* A new database is well typed.                                           *)
LEMMA InitTypes == Init => TypeInv
<1> SUFFICES ASSUME Init PROVE TypeInv
  OBVIOUS
<1>1. NoFiles \in Mirror /\ 1 \in Days /\ <<>> \in Seq(Requests)
  BY MaxDayAssumption DEF NoFiles, Mirror, Days
<1>2. rb \in [Rebuilds -> [st : RbSts, left : SUBSET Event, quiet : BOOLEAN]]
  BY DEF Init, NoRebuild, RbSts
<1>3. duck \in Table
  BY EmptyTableTable DEF Init
<1>4. /\ st \in [Requests -> {"new", "sent", "ok", "err", "lost"}]
      /\ wrote \in [Requests -> SUBSET Keys]
  BY DEF Init
<1>5. TypeOK
  <2>1. /\ today \in Days /\ stamp \in 1..today
        /\ files \in Mirror /\ unended \in SUBSET Days
        /\ fts \in SUBSET Keys /\ logged \in SUBSET Requests
    BY <1>1 DEF Init
  <2>2. queue \in Seq(Requests) /\ batch \in Seq(Requests) /\ executed \in Seq(Requests)
    BY <1>1 DEF Init
  <2>3. faults \in Nat /\ crashes \in Nat
    BY DEF Init
  <2>4. up \in BOOLEAN /\ touched \in BOOLEAN /\ keep \in SUBSET Keys /\ todo \in SUBSET keep
    BY DEF Init
  <2>5. pc \in Pcs /\ pc \in {"idle", "index", "log"}
    BY DEF Init, Pcs
  <2> QED
    BY <1>2, <1>3, <1>4, <2>1, <2>2, <2>3, <2>4, <2>5 DEF TypeOK
<1> QED
  BY <1>5 DEF Init, TypeInv, Phase, FileKept

(* TypeInv is inductive.                                                   *)
LEMMA TypeStep == TypeInv /\ [Next]_vars => TypeInv'
BY WorkerTypes, RebuildTypes, CrashTypes, OtherTypes DEF Next

(* Every variable of the write path keeps its type, whatever the requests, *)
(* the rebuilds, the faults, the tears and the number of crashes.          *)
THEOREM WritePathTypes == Spec => []TypeOK
<1>1. Spec => []TypeInv
  BY InitTypes, TypeStep, PTL DEF Spec
<1> QED
  BY <1>1, PTL DEF TypeInv

-----------------------------------------------------------------------------
(* Files first.  FilesCoverDuck is not inductive: a row or a mark is about *)
(* to enter the table on the strength of lines written some steps ago.     *)
(* What carries it is that the lines of the executing request's rows       *)
(* (PutsDone) and deletions (TombsDone), and the events a rebuild is still *)
(* to apply (EventsKept), are in the files.                                *)
PutsFor == CASE pc = "puts"   -> keep \ todo
             [] pc = "commit" -> keep
             [] OTHER         -> {}

TombsFor == CASE pc = "tombs" -> keep \ todo
              [] pc = "mark"  -> keep
              [] OTHER        -> {}

PutsDone == \A k \in PutsFor : \A i \in NextRow(op.rows, {k}) :
              Recorded(files, stamp, Put(k, op.rows[i].val))

TombsDone == \A k \in TombsFor : Recorded(files, stamp, Tomb(k))

EventsKept == \A b \in Rebuilds : \A e \in rb[b].left : Recorded(files, e.day, e.rec)

CoverInv == TypeInv /\ PutsDone /\ TombsDone /\ EventsKept /\ FilesCoverDuck

FilesGrow == \A d \in Days : \A rec : Recorded(files, d, rec) => Recorded(files', d, rec)

(* The next row of an insert is the first row for its key.                 *)
LEMMA NextRowFirst ==
  ASSUME NEW o \in Insert, NEW K, NEW i \in NextRow(o.rows, K)
  PROVE  NextRow(o.rows, {o.rows[i].key}) = {i}
<1>1. Len(o.rows) \in Nat
  BY DEF Insert
<1>2. /\ i \in 1..Len(o.rows) /\ o.rows[i].key \in K
      /\ \A j \in 1..(i - 1) : o.rows[j].key \notin K
  BY DEF NextRow
<1>3. i \in NextRow(o.rows, {o.rows[i].key})
  BY <1>2 DEF NextRow
<1>4. ASSUME NEW j \in NextRow(o.rows, {o.rows[i].key}) PROVE j = i
  <2>1. /\ j \in 1..Len(o.rows) /\ o.rows[j].key = o.rows[i].key
        /\ \A h \in 1..(j - 1) : o.rows[h].key # o.rows[i].key
    BY DEF NextRow
  <2>2. ~(j < i)
    BY <1>1, <1>2, <2>1
  <2>3. ~(i < j)
    BY <1>1, <1>2, <2>1
  <2> QED
    BY <1>1, <1>2, <2>1, <2>2, <2>3
<1> QED
  BY <1>3, <1>4

(* What the files say of the table, of the events and of the request stays *)
(* while these do.                                                         *)
LEMMA DuckStays ==
  ASSUME CoverInv, FilesGrow, duck' = duck
  PROVE  FilesCoverDuck'
<1>1. \A k \in DOMAIN duck : duck[k].ds \in Days /\ (duck[k].del # NULL => duck[k].del \in Days)
  <2>1. \A k \in DOMAIN duck : duck[k] \in Row
    BY DEF CoverInv, TypeInv, TypeOK, Table
  <2> QED
    BY <2>1, MaxDayAssumption DEF Row, NULL, Days
<1> QED
  BY <1>1 DEF CoverInv, FilesCoverDuck, FilesGrow

(* The events a rebuild has read stay recorded while the files only grow.  *)
LEMMA EventsStay ==
  ASSUME CoverInv, FilesGrow, \A b \in Rebuilds : rb'[b].left \subseteq rb[b].left
  PROVE  EventsKept'
<1>1. \A b \in Rebuilds : \A e \in rb[b].left : e.day \in Days
  BY DEF CoverInv, TypeInv, TypeOK, Event
<1> QED
  BY <1>1 DEF CoverInv, EventsKept, FilesGrow

(* What the executing request has recorded stays so while the worker       *)
(* waits.                                                                  *)
LEMMA RequestStays ==
  ASSUME CoverInv, FilesGrow, UNCHANGED worker
  PROVE  PutsDone' /\ TombsDone'
<1>1. stamp \in Days /\ UNCHANGED <<batch, pc, keep, todo, stamp>>
  BY DayFacts DEF CoverInv, TypeInv, worker
<1>2. op' = op /\ PutsFor' = PutsFor /\ TombsFor' = TombsFor
  BY <1>1 DEF op, PutsFor, TombsFor
<1> QED
  BY <1>1, <1>2 DEF CoverInv, PutsDone, TombsDone, FilesGrow

(* A worker outside the writing phases owes the files nothing.             *)
LEMMA RequestOver ==
  ASSUME pc' \notin {"puts", "commit", "tombs", "mark"}
  PROVE  PutsDone' /\ TombsDone'
<1>1. PutsFor' = {} /\ TombsFor' = {}
  BY DEF PutsFor, TombsFor
<1> QED
  BY <1>1 DEF PutsDone, TombsDone

(* Disturb takes no event from a rebuild and gives it none.                *)
LEMMA DisturbLeaves ==
  ASSUME TypeOK, Disturb
  PROVE  \A b \in Rebuilds : rb'[b].left \subseteq rb[b].left
BY DEF Disturb, TypeOK

(* The row of a put whose line is in the files may enter the table.        *)
LEMMA RowCovered ==
  ASSUME CoverInv, NEW k \in Keys, NEW v \in Vals, NEW d \in Days,
         Recorded(files, d, Put(k, v)),
         duck' = InsertRow(duck, k, v, d), files' = files
  PROVE  FilesCoverDuck'
<1> DEFINE T == InsertRow(duck, k, v, d)
<1>1. duck \in Table
  BY DEF CoverInv, TypeInv, TypeOK
<1>2. /\ \A x : x \in DOMAIN T <=> x = k \/ x \in DOMAIN duck
      /\ T[k] = [val |-> v, ds |-> d, del |-> NULL]
      /\ \A x \in DOMAIN duck : x # k => T[x] = duck[x]
  BY <1>1, InsertRowTable
<1>3. duck' = T
  OBVIOUS
<1> HIDE DEF T
<1>4. ASSUME NEW x \in DOMAIN duck'
      PROVE  /\ Recorded(files', duck'[x].ds, Put(x, duck'[x].val))
             /\ duck'[x].del # NULL => Recorded(files', duck'[x].del, Tomb(x))
  <2>1. CASE x = k
    BY <1>2, <1>3, <2>1
  <2>2. CASE x # k
    <3>1. x \in DOMAIN duck /\ duck'[x] = duck[x]
      BY <1>2, <1>3, <1>4, <2>2
    <3> QED
      BY <3>1 DEF CoverInv, FilesCoverDuck
  <2> QED
    BY <2>1, <2>2
<1> QED
  BY <1>4 DEF FilesCoverDuck

(* Rows whose tombstones are in the files may be marked deleted.           *)
LEMMA MarkCovered ==
  ASSUME CoverInv, NEW K, NEW d \in Days,
         \A k \in K : Recorded(files, d, Tomb(k)),
         duck' = SoftDelete(duck, K, d), files' = files
  PROVE  FilesCoverDuck'
<1> DEFINE T == SoftDelete(duck, K, d)
<1>1. duck \in Table
  BY DEF CoverInv, TypeInv, TypeOK
<1>2. /\ DOMAIN T = DOMAIN duck
      /\ \A x \in DOMAIN duck :
           /\ T[x].val = duck[x].val /\ T[x].ds = duck[x].ds
           /\ T[x].del = IF x \in K /\ duck[x].del = NULL THEN d ELSE duck[x].del
  BY <1>1, SoftDeleteTable
<1>3. duck' = T
  OBVIOUS
<1> HIDE DEF T
<1>4. ASSUME NEW x \in DOMAIN duck'
      PROVE  /\ Recorded(files', duck'[x].ds, Put(x, duck'[x].val))
             /\ duck'[x].del # NULL => Recorded(files', duck'[x].del, Tomb(x))
  <2>1. x \in DOMAIN duck /\ duck'[x].val = duck[x].val /\ duck'[x].ds = duck[x].ds
    BY <1>2, <1>3, <1>4
  <2>2. CASE x \in K /\ duck[x].del = NULL
    <3>1. duck'[x].del = d
      BY <1>2, <1>3, <2>1, <2>2
    <3> QED
      BY <2>1, <2>2, <3>1 DEF CoverInv, FilesCoverDuck
  <2>3. CASE ~(x \in K /\ duck[x].del = NULL)
    <3>1. duck'[x].del = duck[x].del
      BY <1>2, <1>3, <2>1, <2>3
    <3> QED
      BY <2>1, <3>1 DEF CoverInv, FilesCoverDuck
  <2> QED
    BY <2>2, <2>3
<1> QED
  BY <1>4 DEF FilesCoverDuck

(* Every step of the worker keeps the files covering the table.            *)
LEMMA WorkerCovers ==
  ASSUME CoverInv, Worker \/ EmbedFails \/ LogFails
  PROVE  PutsDone' /\ TombsDone' /\ EventsKept' /\ FilesCoverDuck'
<1>0. /\ stamp \in Days /\ TypeInv /\ TypeOK
      /\ (pc \notin {"idle", "index", "log"} => batch # <<>>)
  BY DayFacts DEF CoverInv, TypeInv, TypeOK
<1>1. ASSUME UNCHANGED <<files, duck, rb>>, pc' \notin {"puts", "commit", "tombs", "mark"}
      PROVE  PutsDone' /\ TombsDone' /\ EventsKept' /\ FilesCoverDuck'
  <2>1. FilesGrow /\ \A b \in Rebuilds : rb'[b].left \subseteq rb[b].left
    BY <1>1 DEF FilesGrow
  <2> QED
    BY <1>1, <2>1, DuckStays, EventsStay, RequestOver
<1>2. CASE TakeBatch \/ IndexBatch \/ LogTask \/ Resolve \/ LogFails
  BY <1>1, <1>2 DEF TakeBatch, IndexBatch, LogTask, Resolve, LogFails, Answer, durable, worker
<1>3. CASE Validate \/ EmbedFails
  <2>1. pc' \notin {"puts", "commit", "tombs", "mark"}
    BY <1>3 DEF Validate, EmbedFails, Succeed, Reject, Advance
  <2>2. UNCHANGED <<files, duck, rb>>
    BY <1>3 DEF Validate, EmbedFails, durable
  <2> QED
    BY <1>1, <2>1, <2>2
<1>4. CASE EmbedAndStamp
  <2>1. FilesGrow /\ duck' = duck /\ \A b \in Rebuilds : rb'[b].left \subseteq rb[b].left
    BY <1>4 DEF EmbedAndStamp, durable, FilesGrow
  <2>2. PutsFor' = {} /\ TombsFor' = {}
    BY <1>0, <1>4 DEF EmbedAndStamp, PutsFor, TombsFor, CoverInv, TypeInv, Phase
  <2> QED
    BY <2>1, <2>2, DuckStays, EventsStay DEF PutsDone, TombsDone
<1>5. CASE PutLine
  <2>1. op \in Insert /\ todo \in SUBSET keep /\ keep \in SUBSET Keys
    BY <1>5 DEF PutLine, CoverInv, TypeInv, Phase, TypeOK
  <2>2. PICK i \in NextRow(op.rows, todo) :
          /\ files' = AppendPiece(files, unended, stamp, Put(op.rows[i].key, op.rows[i].val))
          /\ unended' = unended \ {stamp}
          /\ IF todo = {op.rows[i].key}
               THEN todo' = keep /\ pc' = "commit"
               ELSE todo' = todo \ {op.rows[i].key} /\ pc' = pc
    BY <1>5 DEF PutLine
  <2> DEFINE k == op.rows[i].key
             v == op.rows[i].val
  <2>3. k \in Keys /\ v \in Vals /\ k \in todo /\ Put(k, v) \in Pieces
    BY <2>1, RowTypes, PutsAreRecords
  <2>4. FilesGrow /\ Recorded(files', stamp, Put(k, v))
    <3> HIDE DEF k, v
    <3>1. files' = AppendPiece(files, unended, stamp, Put(k, v))
      BY <2>2 DEF k, v
    <3>2. unended' \subseteq unended \cup {stamp}
      BY <2>2
    <3> QED
      BY <1>0, <2>3, <3>1, <3>2, AppendKeeps DEF FilesGrow
  <2>5. duck' = duck /\ (\A b \in Rebuilds : rb'[b].left \subseteq rb[b].left)
    BY <1>0, <1>5, DisturbLeaves DEF PutLine
  <2>6. op' = op /\ stamp' = stamp /\ pc = "puts" /\ keep' = keep /\ pc' \in {"puts", "commit"}
    BY <1>5, <2>2 DEF PutLine, op
  <2>7. NextRow(op.rows, {k}) = {i}
    BY <2>1, NextRowFirst
  <2>8. PutsFor' = PutsFor \cup {k}
    <3> HIDE DEF k
    <3>1. IF todo = {k} THEN todo' = keep /\ pc' = "commit"
                        ELSE todo' = todo \ {k} /\ pc' = pc
      BY <2>2 DEF k
    <3> QED
      BY <2>1, <2>3, <2>6, <3>1 DEF PutsFor
  <2>9. PutsDone'
    <3>1. ASSUME NEW x \in PutsFor, NEW j \in NextRow(op.rows, {x})
          PROVE  Recorded(files', stamp, Put(x, op.rows[j].val))
      BY <1>0, <2>4 DEF CoverInv, PutsDone, FilesGrow
    <3>2. \A j \in NextRow(op.rows, {k}) : Recorded(files', stamp, Put(k, op.rows[j].val))
      BY <2>4, <2>7
    <3> HIDE DEF k, v
    <3> QED
      BY <2>6, <2>8, <3>1, <3>2 DEF PutsDone
  <2>10. TombsFor' = {}
    BY <2>6 DEF TombsFor
  <2> QED
    BY <2>4, <2>5, <2>9, <2>10, DuckStays, EventsStay DEF TombsDone
<1>6. CASE CommitRow
  <2>1. op \in Insert /\ pc = "commit" /\ todo \in SUBSET keep /\ files' = files
    BY <1>6 DEF CommitRow, CoverInv, TypeInv, Phase, TypeOK
  <2>2. FilesGrow /\ EventsKept'
    <3>1. FilesGrow
      BY <2>1 DEF FilesGrow
    <3>2. \A b \in Rebuilds : rb'[b].left \subseteq rb[b].left
      BY <1>0, <1>6, DisturbLeaves DEF CommitRow
    <3> QED
      BY <3>1, <3>2, EventsStay
  <2>3. PICK i \in NextRow(op.rows, todo) :
          \/ /\ duck' = InsertRow(duck, op.rows[i].key, op.rows[i].val, stamp)
             /\ \/ Succeed(keep, TRUE)
                \/ UNCHANGED <<queue, batch, executed, touched, pc, keep, stamp, callers>>
          \/ Reject /\ UNCHANGED duck
    BY <1>6 DEF CommitRow
  <2> DEFINE k == op.rows[i].key
             v == op.rows[i].val
  <2>4. k \in Keys /\ v \in Vals /\ k \in keep
    BY <2>1, RowTypes
  <2>5. Recorded(files, stamp, Put(k, v))
    <3>1. NextRow(op.rows, {k}) = {i}
      BY <2>1, NextRowFirst
    <3>2. k \in PutsFor
      BY <2>1, <2>4 DEF PutsFor
    <3> QED
      BY <3>1, <3>2 DEF CoverInv, PutsDone
  <2>6. FilesCoverDuck'
    <3> HIDE DEF k, v
    <3>1. duck' = InsertRow(duck, k, v, stamp) \/ duck' = duck
      BY <2>3 DEF k, v
    <3>2. CASE duck' = InsertRow(duck, k, v, stamp)
      BY <1>0, <2>1, <2>4, <2>5, <3>2, RowCovered
    <3>3. CASE duck' = duck
      BY <2>2, <3>3, DuckStays
    <3> QED
      BY <3>1, <3>2, <3>3
  <2>7. PutsDone' /\ TombsDone'
    <3>1. CASE Succeed(keep, TRUE) \/ Reject
      <4>1. pc' \notin {"puts", "commit", "tombs", "mark"}
        BY <3>1 DEF Succeed, Reject, Advance
      <4> QED
        BY <4>1, RequestOver
    <3>2. CASE UNCHANGED <<queue, batch, executed, touched, pc, keep, stamp, callers>>
      <4>1. op' = op /\ PutsFor' = PutsFor /\ TombsFor' = TombsFor /\ stamp' = stamp
        BY <2>1, <3>2 DEF op, PutsFor, TombsFor
      <4> QED
        BY <2>1, <4>1 DEF CoverInv, PutsDone, TombsDone
    <3> QED
      BY <2>3, <3>1, <3>2
  <2> QED
    BY <2>2, <2>6, <2>7
<1>7. CASE MatchLive
  <2>1. FilesGrow /\ duck' = duck /\ \A b \in Rebuilds : rb'[b].left \subseteq rb[b].left
    BY <1>7 DEF MatchLive, durable, FilesGrow
  <2>2. PutsFor' = {} /\ TombsFor' = {}
    BY <1>7 DEF MatchLive, Succeed, Advance, PutsFor, TombsFor
  <2> QED
    BY <2>1, <2>2, DuckStays, EventsStay DEF PutsDone, TombsDone
<1>8. CASE TombLine
  <2>1. todo \in SUBSET keep /\ keep \in SUBSET Keys
    BY DEF CoverInv, TypeInv, TypeOK
  <2>2. PICK k \in todo :
          /\ files' = AppendPiece(files, unended, stamp, Tomb(k))
          /\ unended' = unended \ {stamp}
          /\ IF todo = {k} THEN todo' = keep /\ pc' = "mark"
                           ELSE todo' = todo \ {k} /\ pc' = pc
    BY <1>8 DEF TombLine
  <2>3. Tomb(k) \in Pieces
    BY <2>1 DEF Pieces, Records, Tombs
  <2>4. FilesGrow /\ Recorded(files', stamp, Tomb(k))
    <3>1. unended' \subseteq unended \cup {stamp}
      BY <2>2
    <3> QED
      BY <1>0, <2>2, <2>3, <3>1, AppendKeeps DEF FilesGrow
  <2>5. duck' = duck /\ (\A b \in Rebuilds : rb'[b].left \subseteq rb[b].left)
    BY <1>0, <1>8, DisturbLeaves DEF TombLine
  <2>6. stamp' = stamp /\ pc = "tombs" /\ keep' = keep /\ pc' \in {"tombs", "mark"}
    BY <1>8, <2>2 DEF TombLine
  <2>7. TombsFor' = TombsFor \cup {k} /\ PutsFor' = {}
    BY <2>1, <2>2, <2>6 DEF TombsFor, PutsFor
  <2>8. TombsDone'
    BY <1>0, <2>4, <2>6, <2>7 DEF CoverInv, TombsDone, FilesGrow
  <2> QED
    BY <2>4, <2>5, <2>7, <2>8, DuckStays, EventsStay DEF PutsDone
<1>9. CASE MarkRows
  <2>1. pc = "mark" /\ files' = files /\ duck' = SoftDelete(duck, keep, stamp) /\ Succeed(keep, FALSE)
    BY <1>9 DEF MarkRows
  <2>2. \A k \in keep : Recorded(files, stamp, Tomb(k))
    BY <2>1 DEF CoverInv, TombsDone, TombsFor
  <2>3. FilesCoverDuck'
    BY <1>0, <2>1, <2>2, MarkCovered
  <2>4. FilesGrow /\ \A b \in Rebuilds : rb'[b].left \subseteq rb[b].left
    BY <1>0, <1>9, <2>1, DisturbLeaves DEF MarkRows, FilesGrow
  <2>5. pc' \notin {"puts", "commit", "tombs", "mark"}
    BY <2>1 DEF Succeed, Advance
  <2> QED
    BY <2>3, <2>4, <2>5, EventsStay, RequestOver
<1> QED
  BY <1>2, <1>3, <1>4, <1>5, <1>6, <1>7, <1>8, <1>9 DEF Worker

(* Every step of a rebuild keeps the files covering the table.             *)
LEMMA RebuildCovers ==
  ASSUME CoverInv, NEW b \in Rebuilds, RbStart(b) \/ RbStep(b) \/ RbAbort(b)
  PROVE  PutsDone' /\ TombsDone' /\ EventsKept' /\ FilesCoverDuck'
<1>1. files' = files /\ UNCHANGED worker
  BY DEF RbStart, RbStep, RbAbort, RbRead, RbClear, RbRow, RbMark, RbIndex, durable
<1>2. FilesGrow
  BY <1>1 DEF FilesGrow
<1>3. PutsDone' /\ TombsDone'
  BY <1>1, <1>2, RequestStays
<1>4. /\ TypeInv /\ TypeOK /\ rb[b].left \in SUBSET Event /\ files \in Mirror
      /\ \A c \in Rebuilds : rb[c] \in [st : RbSts, left : SUBSET Event, quiet : BOOLEAN]
  BY DEF CoverInv, TypeInv, TypeOK
<1>5. ASSUME NEW to, RbGo(b, to) PROVE \A c \in Rebuilds : rb'[c].left = rb[c].left
  BY <1>4, <1>5 DEF RbGo, TypeOK
<1>6. ASSUME NEW e, RbApplied(b, e)
      PROVE  \A c \in Rebuilds : rb'[c].left \subseteq rb[c].left
  BY <1>4, <1>6 DEF RbApplied, Alone, TypeOK
<1>7. CASE RbStart(b) \/ RbAbort(b) \/ RbIndex(b)
  <2>1. duck' = duck /\ \E to : RbGo(b, to)
    BY <1>7 DEF RbStart, RbAbort, RbIndex, durable
  <2> QED
    BY <1>2, <1>3, <1>5, <2>1, DuckStays, EventsStay
<1>8. CASE RbRead(b)
  <2>1. FilesCoverDuck'
    BY <1>2, <1>8, DuckStays DEF RbRead, durable
  <2>2. EventsKept'
    <3>1. CASE RbGo(b, "failed")
      BY <1>2, <1>5, <3>1, EventsStay
    <3>2. CASE rb' = [rb EXCEPT ![b] = [st |-> "clear", left |-> Events(files), quiet |-> TRUE]]
      <4>1. \A e \in Events(files) : Recorded(files, e.day, e.rec)
        BY <1>4, EventsRecorded
      <4>2. rb'[b].left = Events(files) /\ \A c \in Rebuilds \ {b} : rb'[c] = rb[c]
        BY <1>4, <3>2 DEF TypeOK
      <4> QED
        BY <1>1, <4>1, <4>2 DEF CoverInv, EventsKept
    <3> QED
      BY <1>8, <3>1, <3>2 DEF RbRead
  <2> QED
    BY <1>3, <2>1, <2>2
<1>9. CASE RbClear(b)
  <2>1. DOMAIN duck' = {} /\ \A c \in Rebuilds : rb'[c].left = rb[c].left
    BY <1>4, <1>9, EmptyTableTable, RbClearTypes DEF RbClear
  <2>2. FilesCoverDuck'
    BY <2>1 DEF FilesCoverDuck
  <2> QED
    BY <1>2, <1>3, <2>1, <2>2, EventsStay
<1>10. CASE RbRow(b)
  <2>1. PICK e \in First(PutsOf(rb[b].left)) :
          \/ /\ duck' = InsertRow(duck, e.rec.key, e.rec.val, e.day)
             /\ RbApplied(b, e)
          \/ RbGo(b, "failed") /\ UNCHANGED duck
    BY <1>10 DEF RbRow
  <2>2. e \in rb[b].left /\ e \in PutsOf(rb[b].left)
    BY <2>1 DEF First, PutsOf
  <2>3. /\ e.day \in Days /\ e.rec.key \in Keys /\ e.rec.val \in Vals
        /\ e.rec = Put(e.rec.key, e.rec.val)
    BY <1>4, <2>2, EventTypes
  <2>4. Recorded(files, e.day, Put(e.rec.key, e.rec.val))
    BY <2>2, <2>3 DEF CoverInv, EventsKept
  <2>5. FilesCoverDuck'
    <3>1. CASE duck' = InsertRow(duck, e.rec.key, e.rec.val, e.day)
      BY <1>1, <2>3, <2>4, <3>1, RowCovered
    <3>2. CASE UNCHANGED duck
      BY <1>2, <3>2, DuckStays
    <3> QED
      BY <2>1, <3>1, <3>2
  <2>6. \A c \in Rebuilds : rb'[c].left \subseteq rb[c].left
    BY <1>5, <1>6, <2>1
  <2> QED
    BY <1>2, <1>3, <2>5, <2>6, EventsStay
<1>11. CASE RbMark(b)
  <2>1. PutsOf(rb[b].left) = {}
    BY <1>11 DEF RbMark
  <2>2. PICK e \in First(rb[b].left) :
          /\ duck' = SoftDelete(duck, {e.rec.key}, e.day)
          /\ RbApplied(b, e)
    BY <1>11 DEF RbMark
  <2>3. e \in rb[b].left /\ e \notin PutsOf(rb[b].left)
    BY <2>1 DEF First
  <2>4. e.day \in Days /\ e.rec = Tomb(e.rec.key)
    BY <1>4, <2>3, EventTypes
  <2>5. \A k \in {e.rec.key} : Recorded(files, e.day, Tomb(k))
    BY <2>3, <2>4 DEF CoverInv, EventsKept
  <2>6. FilesCoverDuck'
    BY <1>1, <2>2, <2>4, <2>5, MarkCovered
  <2>7. \A c \in Rebuilds : rb'[c].left \subseteq rb[c].left
    BY <1>6, <2>2
  <2> QED
    BY <1>2, <1>3, <2>6, <2>7, EventsStay
<1> QED
  BY <1>7, <1>8, <1>9, <1>10, <1>11 DEF RbStep

(* Calls, midnight, crashes and reopens keep the files covering the table. *)
LEMMA OthersCover ==
  ASSUME CoverInv,
         (\E r \in Requests : Submit(r)) \/ Midnight \/ Crash \/ Reopen \/ UNCHANGED vars
  PROVE  PutsDone' /\ TombsDone' /\ EventsKept' /\ FilesCoverDuck'
<1>1. duck' = duck
  BY DEF Submit, Midnight, Crash, Reopen, vars, durable
<1>2. TypeInv /\ TypeOK
  BY DEF CoverInv, TypeInv
<1>3. FilesGrow
  <2>1. CASE Crash
    BY <1>2, <2>1, CrashTypes DEF FilesGrow
  <2>2. CASE ~Crash
    BY <2>2 DEF Submit, Midnight, Reopen, vars, durable, FilesGrow
  <2> QED
    BY <2>1, <2>2
<1>4. \A b \in Rebuilds : rb'[b].left \subseteq rb[b].left
  <2>1. CASE Crash
    BY <1>2, <2>1 DEF Crash, TypeOK
  <2>2. CASE ~Crash
    BY <2>2 DEF Submit, Midnight, Reopen, vars
  <2> QED
    BY <2>1, <2>2
<1>5. PutsDone' /\ TombsDone'
  <2>1. CASE \E r \in Requests : Submit(r)
    <3>1. UNCHANGED <<batch, pc, keep, todo, stamp, files>>
      BY <2>1 DEF Submit, durable
    <3>2. op' = op /\ PutsFor' = PutsFor /\ TombsFor' = TombsFor
      BY <3>1 DEF op, PutsFor, TombsFor
    <3> QED
      BY <3>1, <3>2 DEF CoverInv, PutsDone, TombsDone
  <2>2. CASE Crash
    <3>1. pc' = "idle"
      BY <2>2 DEF Crash
    <3> QED
      BY <3>1, RequestOver
  <2>3. CASE Midnight \/ Reopen \/ UNCHANGED vars
    <3>1. UNCHANGED worker
      BY <2>3 DEF Midnight, Reopen, vars, worker
    <3> QED
      BY <1>3, <3>1, RequestStays
  <2> QED
    BY <2>1, <2>2, <2>3
<1> QED
  BY <1>1, <1>3, <1>4, <1>5, DuckStays, EventsStay

(* A new database has an empty table.                                      *)
LEMMA InitCovers == Init => CoverInv
<1> SUFFICES ASSUME Init PROVE CoverInv
  OBVIOUS
<1>1. DOMAIN duck = {}
  BY EmptyTableTable DEF Init
<1>2. FilesCoverDuck
  BY <1>1 DEF FilesCoverDuck
<1>3. PutsFor = {} /\ TombsFor = {}
  BY DEF Init, PutsFor, TombsFor
<1>4. EventsKept
  BY DEF Init, EventsKept, NoRebuild
<1> QED
  BY <1>2, <1>3, <1>4, InitTypes DEF CoverInv, PutsDone, TombsDone

(* CoverInv is inductive.                                                  *)
LEMMA CoverStep == CoverInv /\ [Next]_vars => CoverInv'
<1> SUFFICES ASSUME CoverInv, [Next]_vars PROVE CoverInv'
  OBVIOUS
<1>1. TypeInv'
  BY TypeStep DEF CoverInv
<1>2. PutsDone' /\ TombsDone' /\ EventsKept' /\ FilesCoverDuck'
  BY WorkerCovers, RebuildCovers, OthersCover DEF Next
<1> QED
  BY <1>1, <1>2 DEF CoverInv

(* file >= DuckDB: the files-first order of _execute_one and the replay of *)
(* rebuild() never let a row or a deletion into the table that the files   *)
(* do not hold, through every crash, torn line, failure and rebuild.       *)
THEOREM FilesFirst == Spec => []FilesCoverDuck
<1>1. Spec => []CoverInv
  BY InitCovers, CoverStep, PTL DEF Spec
<1> QED
  BY <1>1, PTL DEF CoverInv

-----------------------------------------------------------------------------
(* Without rebuilds the write path implements the time machine: a stamped  *)
(* request is an open change, the rows and marks it brings are its         *)
(* additions and removals, everything else stutters or settles it.         *)
LEMMA SameTable ==
  /\ TT!EmptyTable = EmptyTable
  /\ \A T, k, v : TT!Accepts(T, k, v) <=> Accepts(T, k, v)
  /\ \A T, k, v, d : TT!InsertRow(T, k, v, d) = InsertRow(T, k, v, d)
  /\ \A T, K, d : TT!SoftDelete(T, K, d) = SoftDelete(T, K, d)
BY DEF TT!EmptyTable, EmptyTable, TT!Accepts, Accepts, TT!InsertRow, InsertRow,
       TT!SoftDelete, SoftDelete, TT!NULL, NULL

(* Each step of the worker is a step of the time machine or a stutter.     *)
LEMMA WorkerRefines ==
  ASSUME TypeInv, Worker \/ EmbedFails \/ LogFails
  PROVE  [TT!Next]_(TT!vars)
<1> USE DEF TypeInv
<1>0. /\ stamp \in Days /\ today \in Days
      /\ (pc \notin {"idle", "index", "log"} => batch # <<>>)
  BY DayFacts DEF TypeOK
<1>1. ASSUME UNCHANGED <<duck, today>>, UnderStamp' = {}
      PROVE  [TT!Next]_(TT!vars)
  BY <1>1 DEF TT!Next, TT!Settle
<1>2. ASSUME UNCHANGED <<duck, today, UnderStamp>>
      PROVE  [TT!Next]_(TT!vars)
  BY <1>2 DEF TT!vars
<1>3. ASSUME UNCHANGED <<duck, today>>, UnderStamp = {}, UnderStamp' = {today}
      PROVE  [TT!Next]_(TT!vars)
  BY <1>3 DEF TT!Next, TT!Open
<1>4. ASSUME Succeed({}, FALSE) \/ Reject \/ Succeed(keep, TRUE) \/ Succeed(keep, FALSE)
      PROVE  UnderStamp' = {}
  BY <1>4 DEF Succeed, Reject, Advance, UnderStamp
<1>5. CASE TakeBatch \/ IndexBatch \/ LogTask \/ Resolve \/ LogFails
  <2>1. UnderStamp' = {}
    BY <1>5 DEF TakeBatch, IndexBatch, LogTask, Resolve, LogFails, Answer, worker, UnderStamp
  <2> QED
    BY <1>1, <1>5, <2>1 DEF TakeBatch, IndexBatch, LogTask, Resolve, LogFails, durable
<1>6. CASE Validate \/ EmbedFails
  <2>1. UnderStamp' = {}
    BY <1>6 DEF Validate, EmbedFails, Succeed, Reject, Advance, UnderStamp
  <2> QED
    BY <1>1, <1>6, <2>1 DEF Validate, EmbedFails, durable
<1>7. CASE EmbedAndStamp
  BY <1>3, <1>7 DEF EmbedAndStamp, durable, UnderStamp
<1>8. CASE PutLine \/ TombLine
  <2>1. UnderStamp' = UnderStamp
    BY <1>8 DEF PutLine, TombLine, UnderStamp
  <2> QED
    BY <1>2, <1>8, <2>1 DEF PutLine, TombLine
<1>9. CASE CommitRow
  <2>1. op \in Insert /\ UnderStamp = {stamp}
    BY <1>9 DEF CommitRow, Phase, UnderStamp
  <2>2. PICK i \in NextRow(op.rows, todo) :
          \/ /\ Accepts(duck, op.rows[i].key, op.rows[i].val)
             /\ duck' = InsertRow(duck, op.rows[i].key, op.rows[i].val, stamp)
             /\ \/ Succeed(keep, TRUE)
                \/ UNCHANGED <<queue, batch, executed, touched, pc, keep, stamp, callers>>
          \/ Reject /\ UNCHANGED duck
    BY <1>9 DEF CommitRow
  <2>3. CASE Reject /\ UNCHANGED duck
    BY <1>1, <1>4, <1>9, <2>3 DEF CommitRow
  <2>4. CASE /\ Accepts(duck, op.rows[i].key, op.rows[i].val)
             /\ duck' = InsertRow(duck, op.rows[i].key, op.rows[i].val, stamp)
             /\ \/ Succeed(keep, TRUE)
                \/ UNCHANGED <<queue, batch, executed, touched, pc, keep, stamp, callers>>
    <3>1. op.rows[i].key \in Keys /\ op.rows[i].val \in Vals
      BY <2>1, RowTypes
    <3>2. UnderStamp' \in {UnderStamp, {}}
      BY <1>4, <2>4 DEF UnderStamp
    <3>3. TT!Add(op.rows[i].key, op.rows[i].val)
      BY <1>9, <2>1, <2>4, <3>2, SameTable DEF TT!Add, CommitRow
    <3> QED
      BY <3>1, <3>3 DEF TT!Next
  <2> QED
    BY <2>2, <2>3, <2>4
<1>10. CASE MatchLive
  <2>1. CASE Succeed({}, FALSE)
    BY <1>1, <1>4, <1>10, <2>1 DEF MatchLive, durable
  <2>2. CASE stamp' = today /\ pc' = "tombs"
    BY <1>3, <1>10, <2>2 DEF MatchLive, durable, UnderStamp
  <2> QED
    BY <1>10, <2>1, <2>2 DEF MatchLive
<1>11. CASE MarkRows
  <2>1. keep \in SUBSET Keys /\ UnderStamp = {stamp} /\ UnderStamp' = {}
    BY <1>4, <1>11 DEF MarkRows, TypeOK, UnderStamp
  <2>2. TT!Remove(keep)
    BY <1>11, <2>1, SameTable DEF MarkRows, TT!Remove
  <2> QED
    BY <2>1, <2>2 DEF TT!Next
<1> QED
  BY <1>5, <1>6, <1>7, <1>8, <1>9, <1>10, <1>11 DEF Worker

(* Calls, midnight, crashes and reopens are steps of the time machine or   *)
(* stutters.                                                               *)
LEMMA OthersRefine ==
  ASSUME (\E r \in Requests : Submit(r)) \/ Midnight \/ Crash \/ Reopen \/ UNCHANGED vars
  PROVE  [TT!Next]_(TT!vars)
<1>1. CASE \E r \in Requests : Submit(r)
  BY <1>1 DEF Submit, durable, UnderStamp, TT!vars
<1>2. CASE Midnight
  BY <1>2 DEF Midnight, durable, worker, UnderStamp, TT!Next, TT!Midnight
<1>3. CASE Crash
  BY <1>3 DEF Crash, UnderStamp, TT!Next, TT!Settle
<1>4. CASE Reopen \/ UNCHANGED vars
  BY <1>4 DEF Reopen, vars, durable, worker, UnderStamp, TT!vars
<1> QED
  BY <1>1, <1>2, <1>3, <1>4

(* The worker of write_service.py keeps the promises of the time machine   *)
(* whatever requests, crashes and failures it meets, as long as nobody     *)
(* rebuilds.                                                               *)
THEOREM Refinement ==
  ASSUME Rebuilds = {}
  PROVE  Spec => IsTimeTable
<1>1. Init => TT!Init
  BY SameTable DEF Init, TT!Init, UnderStamp
<1>2. TypeInv /\ [Next]_vars => [TT!Next]_(TT!vars)
  BY WorkerRefines, OthersRefine DEF Next
<1> QED
  BY <1>1, <1>2, InitTypes, TypeStep, PTL DEF Spec, IsTimeTable, TT!Spec

(* No request, crash or failure alters what a query as of a past day       *)
(* returns once the changes stamped on or before that day are over.        *)
THEOREM WritePathSettles ==
  ASSUME Rebuilds = {}
  PROVE  Spec => TT!PastIsSettled
<1> DEFINE Past == \A d \in TT!Days : d < today /\ (\A e \in UnderStamp : d < e)
                     => TT!SnapshotAt(duck', d) = TT!SnapshotAt(duck, d)
<1>1. TypeInv /\ [Next]_vars => [Past]_(TT!vars)
  <2> SUFFICES ASSUME TypeInv, [Next]_vars, NEW d \in Days,
                      \A e \in UnderStamp : d < e
               PROVE  SnapshotAt(duck', d) = SnapshotAt(duck, d)
    BY DEF TT!Days, Days, TT!SnapshotAt, SnapshotAt, TT!Visible, Visible, TT!AsOfEnd,
           AsOfEnd, TT!NULL, NULL
  <2>1. [TT!Next]_(TT!vars)
    BY WorkerRefines, OthersRefine DEF Next
  <2>2. duck \in Table /\ \A e \in UnderStamp : e \in Days
    BY DayFacts DEF TypeInv, TypeOK, UnderStamp
  <2>3. CASE UNCHANGED duck
    BY <2>3
  <2>4. ASSUME NEW k \in Keys, NEW v \in Vals, TT!Add(k, v)
        PROVE  SnapshotAt(duck', d) = SnapshotAt(duck, d)
    <3>1. PICK e \in UnderStamp : Accepts(duck, k, v) /\ duck' = InsertRow(duck, k, v, e)
      BY <2>4, SameTable DEF TT!Add
    <3>2. SnapshotAt(InsertRow(duck, k, v, e), d) = SnapshotAt(duck, d)
      BY <2>2, <3>1, InsertKeepsPast
    <3> QED
      BY <3>1, <3>2
  <2>5. ASSUME NEW K \in SUBSET Keys, TT!Remove(K)
        PROVE  SnapshotAt(duck', d) = SnapshotAt(duck, d)
    <3>1. PICK e \in UnderStamp : duck' = SoftDelete(duck, K, e)
      BY <2>5, SameTable DEF TT!Remove
    <3>2. SnapshotAt(SoftDelete(duck, K, e), d) = SnapshotAt(duck, d)
      BY <2>2, <3>1, DeleteKeepsPast
    <3> QED
      BY <3>1, <3>2
  <2> QED
    BY <2>1, <2>3, <2>4, <2>5 DEF TT!Next, TT!Open, TT!Settle, TT!Midnight, TT!vars
<1> QED
  BY <1>1, InitTypes, TypeStep, PTL DEF Spec, TT!PastIsSettled

-----------------------------------------------------------------------------
(* Without rebuilds a done task means the whole write: the inductive       *)
(* invariant.                                                              *)
Listed(s)    == {s[i] : i \in 1..Len(s)}
Injective(s) == \A i, j \in 1..Len(s) : s[i] = s[j] => i = j

(* A request is in one place at a time, and in none before it is sent.     *)
Places ==
  /\ Injective(queue) /\ Injective(batch)
  /\ \A r \in Listed(queue) : r \notin Listed(batch) \cup Listed(executed) \cup logged
  /\ \A r \in Listed(batch) : r \notin Listed(executed) \cup logged
  /\ \A r \in Listed(queue) \cup Listed(batch) \cup Listed(executed) \cup logged : st[r] # "new"
  /\ pc \in {"idle", "index", "log"} => batch = <<>>
  /\ pc = "idle" => executed = <<>>

(* The table has the row request r is to store under k, the deletion of k. *)
HasRow(r, k) == k \in DOMAIN duck /\ duck[k].val \in RowFor(r, k)
HasMark(k)   == k \in DOMAIN duck /\ duck[k].del # NULL

(* What the executing request has done so far.                             *)
Working ==
  /\ pc \in {"stamp", "puts", "commit"} /\ ~op.skip => keep = KeysOf(op.rows)
  /\ pc = "commit" => \A k \in keep \ todo : HasRow(Head(batch), k)
  /\ pc \in {"tombs", "mark"} => keep \subseteq DOMAIN duck

(* All that request r was to do to the table is done, its index aside.     *)
Ended(r) ==
  IF Op[r].kind = "insert"
  THEN /\ ~Op[r].skip => wrote[r] = KeysOf(Op[r].rows)
       /\ \A k \in wrote[r] : HasRow(r, k)
  ELSE \A k \in wrote[r] : HasMark(k)

Indexed(r) == Op[r].kind = "insert" => wrote[r] \subseteq fts

Ends ==
  /\ \A r \in Listed(executed) \cup logged : Ended(r)
  /\ \A r \in Listed(executed) : Op[r].kind = "insert" /\ wrote[r] # {} => touched
  /\ pc = "log" => \A r \in Listed(executed) : Indexed(r)
  /\ \A r \in logged : Indexed(r)
  /\ \A r \in Requests : st[r] = "ok" => r \in logged

DoneInv == TypeInv /\ Places /\ Working /\ Ends

(* What a queue says of its own ends.                                      *)
LEMMA ListFacts ==
  ASSUME NEW S, NEW s \in Seq(S)
  PROVE  /\ Listed(s) \subseteq S
         /\ s # <<>> => /\ Head(s) \in Listed(s) /\ Listed(Tail(s)) \subseteq Listed(s)
                        /\ Injective(s) => Injective(Tail(s)) /\ Head(s) \notin Listed(Tail(s))
         /\ \A x \in S : /\ Listed(Append(s, x)) = Listed(s) \cup {x}
                         /\ Injective(s) /\ x \notin Listed(s) => Injective(Append(s, x))
<1>1. Len(s) \in Nat /\ \A i \in 1..Len(s) : s[i] \in S
  BY ElementOfSeq
<1>2. ASSUME s # <<>>
      PROVE  /\ Head(s) \in Listed(s) /\ Listed(Tail(s)) \subseteq Listed(s)
             /\ Injective(s) => Injective(Tail(s)) /\ Head(s) \notin Listed(Tail(s))
  <2>1. /\ Len(s) # 0 /\ Head(s) = s[1] /\ Len(Tail(s)) = Len(s) - 1
        /\ \A i \in 1..Len(Tail(s)) : Tail(s)[i] = s[i + 1]
    BY <1>2, HeadTailProperties, EmptySeq
  <2>2. \A i \in 1..Len(Tail(s)) : i + 1 \in 2..Len(s) /\ 1 \in 1..Len(s) /\ i + 1 \in 1..Len(s)
    BY <1>1, <2>1
  <2>3. Head(s) \in Listed(s)
    BY <1>1, <2>1 DEF Listed
  <2>4. Listed(Tail(s)) \subseteq Listed(s)
    BY <2>1, <2>2 DEF Listed
  <2>5. ASSUME Injective(s) PROVE Injective(Tail(s))
    BY <1>1, <2>1, <2>2, <2>5 DEF Injective
  <2>6. ASSUME Injective(s), Head(s) \in Listed(Tail(s)) PROVE FALSE
    <3>1. PICK i \in 1..Len(Tail(s)) : s[1] = s[i + 1]
      BY <2>1, <2>6 DEF Listed
    <3>2. 1 = i + 1 /\ i \in Nat /\ i # 0
      BY <1>1, <2>1, <2>2, <2>6, <3>1 DEF Injective
    <3> QED
      BY <3>2
  <2> QED
    BY <2>3, <2>4, <2>5, <2>6
<1>3. ASSUME NEW x \in S
      PROVE  /\ Listed(Append(s, x)) = Listed(s) \cup {x}
             /\ Injective(s) /\ x \notin Listed(s) => Injective(Append(s, x))
  <2> DEFINE a == Append(s, x)
  <2>1. /\ Len(a) = Len(s) + 1 /\ a[Len(s) + 1] = x /\ \A i \in 1..Len(s) : a[i] = s[i]
    BY AppendProperties
  <2> HIDE DEF a
  <2>2. \A i : i \in 1..Len(a) <=> i \in 1..Len(s) \/ i = Len(s) + 1
    BY <1>1, <2>1
  <2>3. Listed(a) = Listed(s) \cup {x}
    BY <2>1, <2>2 DEF Listed
  <2>4. ASSUME Injective(s), x \notin Listed(s) PROVE Injective(a)
    <3> SUFFICES ASSUME NEW i \in 1..Len(a), NEW j \in 1..Len(a), a[i] = a[j] PROVE i = j
      BY DEF Injective
    <3>1. \A h \in 1..Len(s) : s[h] # x
      BY <2>4 DEF Listed
    <3> QED
      BY <2>1, <2>2, <2>4, <3>1 DEF Injective
  <2> QED
    BY <2>3, <2>4 DEF a
<1> QED
  BY <1>1, <1>2, <1>3 DEF Listed

LEMMA EmptyList == Listed(<<>>) = {} /\ Injective(<<>>)
BY DEF Listed, Injective

(* Rows and marks are there to stay. *)
DuckKept ==
  \A k \in DOMAIN duck :
    /\ k \in DOMAIN duck' /\ duck'[k].val = duck[k].val
    /\ duck[k].del # NULL => duck'[k].del # NULL

LEMMA RowsKept ==
  ASSUME duck \in Table
  PROVE  /\ duck' = duck => DuckKept
         /\ \A k \in Keys, v \in Vals, d \in Days :
              Accepts(duck, k, v) /\ duck' = InsertRow(duck, k, v, d)
                => DuckKept /\ k \in DOMAIN duck' /\ duck'[k].val = v
         /\ \A K \in SUBSET Keys, d \in Days :
              duck' = SoftDelete(duck, K, d)
                => DuckKept /\ DOMAIN duck' = DOMAIN duck /\ \A k \in K \cap DOMAIN duck : duck'[k].del # NULL
<1>1. ASSUME NEW k \in Keys, NEW v \in Vals, NEW d \in Days, Accepts(duck, k, v), duck' = InsertRow(duck, k, v, d)
      PROVE  DuckKept /\ k \in DOMAIN duck' /\ duck'[k].val = v
  <2> DEFINE T == InsertRow(duck, k, v, d)
  <2>1. /\ \A x : x \in DOMAIN T <=> x = k \/ x \in DOMAIN duck
        /\ T[k] = [val |-> v, ds |-> d, del |-> NULL]
        /\ \A x \in DOMAIN duck : x # k => T[x] = duck[x]
    BY InsertRowTable
  <2>2. duck' = T
    BY <1>1
  <2> HIDE DEF T
  <2>3. k \notin DOMAIN duck
    BY <1>1 DEF Accepts
  <2> QED
    BY <2>1, <2>2, <2>3 DEF DuckKept
<1>2. ASSUME NEW K, NEW d \in Days, duck' = SoftDelete(duck, K, d)
      PROVE  DuckKept /\ DOMAIN duck' = DOMAIN duck /\ \A k \in K \cap DOMAIN duck : duck'[k].del # NULL
  <2> DEFINE T == SoftDelete(duck, K, d)
  <2>1. /\ DOMAIN T = DOMAIN duck
        /\ \A x \in DOMAIN duck :
             /\ T[x].val = duck[x].val /\ T[x].ds = duck[x].ds
             /\ T[x].del = IF x \in K /\ duck[x].del = NULL THEN d ELSE duck[x].del
    BY SoftDeleteTable
  <2>2. duck' = T /\ d # NULL
    BY <1>2, MaxDayAssumption DEF Days, NULL
  <2> HIDE DEF T
  <2> QED
    BY <2>1, <2>2 DEF DuckKept
<1> QED
  BY <1>1, <1>2 DEF DuckKept

(* What a request has done to the table stays done.                        *)
LEMMA EndedStays ==
  ASSUME DuckKept, NEW r, Ended(r), wrote'[r] = wrote[r]
  PROVE  Ended(r)'
<1>1. \A k : RowFor(r, k)' = RowFor(r, k)
  BY DEF RowFor, NextRow
<1>2. \A k : HasRow(r, k) => HasRow(r, k)'
  BY <1>1 DEF HasRow, DuckKept
<1>3. \A k : HasMark(k) => HasMark(k)'
  BY DEF HasMark, DuckKept
<1>4. KeysOf(Op[r].rows)' = KeysOf(Op[r].rows)
  BY DEF KeysOf
<1> QED
  BY <1>2, <1>3, <1>4 DEF Ended

LEMMA DoneTypes ==
  ASSUME DoneInv
  PROVE  /\ TypeOK /\ TypeInv /\ queue \in Seq(Requests) /\ batch \in Seq(Requests) /\ executed \in Seq(Requests)
         /\ Listed(queue) \subseteq Requests /\ Listed(batch) \subseteq Requests /\ Listed(executed) \subseteq Requests
         /\ logged \subseteq Requests /\ duck \in Table /\ stamp \in Days /\ today \in Days
         /\ st \in [Requests -> {"new", "sent", "ok", "err", "lost"}] /\ wrote \in [Requests -> SUBSET Keys]
<1>1. TypeOK /\ TypeInv
  BY DEF DoneInv, TypeInv
<1>2. queue \in Seq(Requests) /\ batch \in Seq(Requests) /\ executed \in Seq(Requests)
  BY <1>1 DEF TypeOK
<1> QED
  BY <1>1, <1>2, DayFacts, ListFacts DEF TypeOK

(* The executing request goes on. *)
LEMMA GoesOn ==
  ASSUME DoneInv, UNCHANGED <<queue, batch, executed, touched, logged, st, wrote, fts>>,
         pc' \notin {"idle", "index", "log"}, DuckKept
  PROVE  Places' /\ Ends'
<1>1. Places'
  <2>1. /\ Listed(queue)' = Listed(queue) /\ Listed(batch)' = Listed(batch) /\ Listed(executed)' = Listed(executed)
        /\ (Injective(queue)' <=> Injective(queue)) /\ (Injective(batch)' <=> Injective(batch))
    BY DEF Listed, Injective
  <2> QED
    BY <2>1 DEF DoneInv, Places
<1>2. \A r : (Ended(r) => Ended(r)') /\ (Indexed(r) => Indexed(r)')
  BY EndedStays DEF Indexed
<1>3. Ends'
  BY <1>2 DEF DoneInv, Ends, Listed
<1> QED
  BY <1>1, <1>3

(* It is over, and the next one is at the head of the batch. *)
LEMMA NextHead ==
  ASSUME DoneInv, batch # <<>>, Advance, UNCHANGED logged,
         executed' \in {executed, Append(executed, Head(batch))},
         \A r \in Requests : st[r] # "new" => st'[r] # "new"
  PROVE  /\ Places' /\ Working'
         /\ Head(batch) \in Requests /\ Head(batch) \notin Listed(executed) \cup logged
         /\ Listed(executed') \subseteq Listed(executed) \cup {Head(batch)}
<1> DEFINE r == Head(batch)
<1>1. /\ r \in Requests /\ r \in Listed(batch) /\ Listed(Tail(batch)) \subseteq Listed(batch)
      /\ Injective(Tail(batch)) /\ r \notin Listed(Tail(batch))
      /\ Listed(Append(executed, r)) = Listed(executed) \cup {r}
  <2>1. r \in Requests
    BY DoneTypes, BatchHead
  <2>2. Injective(batch)
    BY DEF DoneInv, Places
  <2> QED
    BY <2>1, <2>2, DoneTypes, ListFacts
<1>2. /\ batch' = Tail(batch) /\ queue' = queue
      /\ pc' \in {"index", "begin"} /\ (pc' = "index" => batch' = <<>>)
  BY DEF Advance
<1>3. Working'
  BY <1>2 DEF Working
<1>4. Listed(executed') \subseteq Listed(executed) \cup {r}
  BY <1>1
<1> HIDE DEF r
<1>5. r \notin Listed(executed) \cup logged
  BY <1>1 DEF DoneInv, Places
<1>6. Places'
  <2>1. Injective(queue') /\ Injective(batch')
    BY <1>1, <1>2 DEF DoneInv, Places
  <2>2. \A x \in Listed(queue') : x \notin Listed(batch') \cup Listed(executed') \cup logged'
    BY <1>1, <1>2, <1>4 DEF DoneInv, Places
  <2>3. \A x \in Listed(batch') : x \notin Listed(executed') \cup logged'
    BY <1>1, <1>2, <1>4 DEF DoneInv, Places
  <2>4. \A x \in Listed(queue') \cup Listed(batch') \cup Listed(executed') \cup logged' : st'[x] # "new"
    <3>1. \A x \in Listed(queue') \cup Listed(batch') \cup Listed(executed') \cup logged' :
            x \in Requests /\ x \in Listed(queue) \cup Listed(batch) \cup Listed(executed) \cup logged
      BY <1>1, <1>2, <1>4, DoneTypes
    <3> QED
      BY <3>1 DEF DoneInv, Places
  <2>5. Listed(queue)' = Listed(queue') /\ Listed(batch)' = Listed(batch') /\ Listed(executed)' = Listed(executed')
        /\ (Injective(queue)' <=> Injective(queue')) /\ (Injective(batch)' <=> Injective(batch'))
    BY DEF Listed, Injective
  <2> QED
    BY <1>2, <2>1, <2>2, <2>3, <2>4, <2>5 DEF Places
<1> QED
  BY <1>1, <1>3, <1>4, <1>5, <1>6 DEF r

LEMMA SucceedDone ==
  ASSUME DoneInv, batch # <<>>, NEW r, r = Head(batch), NEW K \in SUBSET Keys, NEW indexed \in BOOLEAN, Succeed(K, indexed),
         DuckKept, UNCHANGED <<fts, logged>>,
         op.kind = "insert" => /\ ~op.skip => K = KeysOf(op.rows)
                               /\ K # {} => indexed
                               /\ \A k \in K : HasRow(r, k)',
         op.kind # "insert" => \A k \in K : k \in DOMAIN duck' /\ duck'[k].del # NULL
  PROVE  Places' /\ Working' /\ Ends'
<1>1. /\ Advance /\ executed' = Append(executed, r) /\ touched' = (touched \/ indexed)
      /\ wrote' = [wrote EXCEPT ![r] = K] /\ st' = st
  BY DEF Succeed
<1>2. /\ Places' /\ Working' /\ r \in Requests /\ r \notin Listed(executed) \cup logged
      /\ Listed(executed') \subseteq Listed(executed) \cup {r}
  BY <1>1, NextHead
<1>3. op = Op[r]
  BY DEF op
<1>4. wrote'[r] = K /\ \A x \in Requests \ {r} : wrote'[x] = wrote[x]
  BY <1>1, <1>2, DoneTypes
<1>5. Ended(r)'
  <2>1. CASE op.kind = "insert"
    <3>1. \A k \in K : HasRow(r, k)'
      BY <2>1
    <3>2. ~op.skip => K = KeysOf(op.rows)
      BY <2>1
    <3> QED
      BY <1>3, <1>4, <2>1, <3>1, <3>2 DEF Ended, KeysOf
  <2>2. CASE op.kind # "insert"
    BY <1>3, <1>4, <2>2 DEF Ended, HasMark
  <2> QED
    BY <2>1, <2>2
<1>6. \A x \in Requests \ {r} : (Ended(x) => Ended(x)') /\ (Indexed(x) => Indexed(x)')
  BY <1>4, EndedStays DEF Indexed
<1>7. \A x \in Listed(executed') \cup logged' : Ended(x)'
  BY <1>2, <1>5, <1>6, DoneTypes DEF DoneInv, Ends
<1>8. \A x \in Listed(executed') : Op[x].kind = "insert" /\ wrote'[x] # {} => touched'
  <2>1. Op[r].kind = "insert" /\ wrote'[r] # {} => touched'
    BY <1>1, <1>3, <1>4
  <2>2. ASSUME NEW x \in Listed(executed), x # r, Op[x].kind = "insert", wrote'[x] # {} PROVE touched'
    BY <1>1, <1>4, <2>2, DoneTypes DEF DoneInv, Ends
  <2> QED
    BY <1>2, <2>1, <2>2
<1>9. \A x \in logged' : Indexed(x)'
  BY <1>2, <1>6, DoneTypes DEF DoneInv, Ends
<1>10. \A x \in Requests : st'[x] = "ok" => x \in logged'
  BY <1>1 DEF DoneInv, Ends
<1>11. pc' # "log" /\ Listed(executed)' = Listed(executed')
  BY <1>1 DEF Advance, Listed
<1>12. Ends'
  BY <1>7, <1>8, <1>9, <1>10, <1>11 DEF Ends
<1> QED
  BY <1>2, <1>12

LEMMA RejectDone ==
  ASSUME DoneInv, batch # <<>>, Reject, UNCHANGED <<fts, logged>>, DuckKept
  PROVE  Places' /\ Working' /\ Ends'
<1>1. Advance /\ st' = [st EXCEPT ![Head(batch)] = "err"] /\ UNCHANGED <<executed, touched, wrote>>
  BY DEF Reject
<1>2. \A r \in Requests : (st[r] # "new" => st'[r] # "new") /\ (st'[r] = "ok" => st[r] = "ok")
  BY <1>1, DoneTypes
<1>3. Places' /\ Working'
  BY <1>1, <1>2, NextHead
<1>4. \A r : (Ended(r) => Ended(r)') /\ (Indexed(r) => Indexed(r)')
  BY <1>1, EndedStays DEF Indexed
<1>5. pc' # "log"
  BY <1>1 DEF Advance
<1>6. Ends'
  BY <1>1, <1>2, <1>4, <1>5 DEF DoneInv, Ends, Listed
<1> QED
  BY <1>3, <1>6

(* The batch's own steps. *)
LEMMA BatchDone ==
  ASSUME "fts" \notin Faults, DoneInv, TakeBatch \/ IndexBatch \/ LogTask \/ Resolve \/ LogFails
  PROVE  Places' /\ Working' /\ Ends'
<1>1. TypeOK
  BY DoneTypes
<1>2. UNCHANGED duck => DuckKept
  BY DoneTypes, RowsKept
<1>3. CASE TakeBatch
  <2>1. /\ pc = "idle" /\ batch' = queue /\ queue' = <<>> /\ executed' = <<>> /\ touched' = FALSE /\ pc' = "begin"
        /\ UNCHANGED <<duck, fts, logged, st, wrote>>
    BY <1>3 DEF TakeBatch, durable, callers
  <2>2. /\ Listed(queue)' = {} /\ Listed(executed)' = {} /\ Listed(batch)' = Listed(queue)
        /\ Injective(queue)' /\ (Injective(batch)' <=> Injective(queue))
    BY <2>1, EmptyList DEF Listed, Injective
  <2>3. Places'
    BY <2>1, <2>2 DEF DoneInv, Places
  <2>4. \A r : (Ended(r) => Ended(r)') /\ (Indexed(r) => Indexed(r)')
    BY <1>2, <2>1, EndedStays DEF Indexed
  <2>5. Working' /\ Ends'
    BY <2>1, <2>2, <2>4 DEF DoneInv, Working, Ends
  <2> QED
    BY <2>3, <2>5
<1>4. CASE IndexBatch
  <2>1. /\ pc = "index" /\ pc' = "log" /\ fts' = (IF touched THEN DOMAIN duck ELSE fts)
        /\ UNCHANGED <<queue, batch, executed, touched, duck, logged, st, wrote>>
    BY <1>4 DEF IndexBatch, Fault, callers
  <2>2. /\ Listed(queue)' = Listed(queue) /\ Listed(executed)' = Listed(executed) /\ Listed(batch)' = Listed(batch)
        /\ (Injective(queue)' <=> Injective(queue)) /\ (Injective(batch)' <=> Injective(batch))
    BY <2>1 DEF Listed, Injective
  <2>3. Places'
    BY <2>1, <2>2 DEF DoneInv, Places
  <2>4. \A r : Ended(r) => Ended(r)'
    BY <1>2, <2>1, EndedStays
  <2>5. \A r : Ended(r) /\ Indexed(r) => Indexed(r)'
    BY <2>1 DEF Indexed, Ended, HasRow
  <2>6. ASSUME NEW r \in Listed(executed) PROVE Indexed(r)'
    <3>1. Ended(r) /\ (Op[r].kind = "insert" /\ wrote[r] # {} => touched)
      BY DEF DoneInv, Ends
    <3> QED
      BY <2>1, <3>1 DEF Indexed, Ended, HasRow
  <2>7. Working' /\ Ends'
    BY <2>1, <2>2, <2>4, <2>5, <2>6 DEF DoneInv, Working, Ends
  <2> QED
    BY <2>3, <2>7
<1>5. CASE LogTask
  <2>1. PICK i \in Unlogged : logged' = logged \cup {executed[i]}
    BY <1>5 DEF LogTask
  <2>2. pc = "log" /\ UNCHANGED <<duck, fts, st, wrote, queue, batch, executed, touched, pc>>
    BY <1>5 DEF LogTask, worker, callers
  <2>3. executed[i] \in Listed(executed)
    BY DEF Unlogged, Listed
  <2>4. /\ Listed(queue)' = Listed(queue) /\ Listed(executed)' = Listed(executed) /\ Listed(batch)' = Listed(batch)
        /\ (Injective(queue)' <=> Injective(queue)) /\ (Injective(batch)' <=> Injective(batch))
    BY <2>2 DEF Listed, Injective
  <2>5. Places'
    BY <2>1, <2>2, <2>3, <2>4 DEF DoneInv, Places
  <2>6. \A r : (Ended(r) => Ended(r)') /\ (Indexed(r) => Indexed(r)')
    BY <1>2, <2>2, EndedStays DEF Indexed
  <2>7. Working' /\ Ends'
    BY <2>1, <2>2, <2>3, <2>4, <2>6 DEF DoneInv, Working, Ends
  <2> QED
    BY <2>5, <2>7
<1>6. ASSUME NEW how, pc = "log", Answer(how), UNCHANGED <<duck, fts, logged>>,
             how # "new", how = "ok" => Unlogged = {}
      PROVE  Places' /\ Working' /\ Ends'
  <2>1. /\ executed' = <<>> /\ pc' = "idle" /\ UNCHANGED <<queue, batch, touched, wrote>>
        /\ st' = [r \in Requests |-> IF \E i \in 1..Len(executed) : executed[i] = r THEN how ELSE st[r]]
    BY <1>6 DEF Answer
  <2>2. \A r \in Requests : (st[r] # "new" => st'[r] # "new") /\ (st'[r] = "ok" => r \in logged)
    <3> SUFFICES ASSUME NEW r \in Requests PROVE (st[r] # "new" => st'[r] # "new") /\ (st'[r] = "ok" => r \in logged)
      OBVIOUS
    <3>1. CASE \E i \in 1..Len(executed) : executed[i] = r
      BY <1>6, <2>1, <3>1 DEF Unlogged
    <3>2. CASE ~\E i \in 1..Len(executed) : executed[i] = r
      BY <2>1, <3>2 DEF DoneInv, Ends
    <3> QED
      BY <3>1, <3>2
  <2>3. batch = <<>>
    BY <1>6 DEF DoneInv, Places
  <2>4. /\ Listed(queue)' = Listed(queue) /\ Listed(executed)' = {} /\ Listed(batch)' = Listed(batch)
        /\ (Injective(queue)' <=> Injective(queue)) /\ (Injective(batch)' <=> Injective(batch))
    BY <2>1, EmptyList DEF Listed, Injective
  <2>5. Places'
    BY <1>6, <2>1, <2>2, <2>3, <2>4, DoneTypes DEF DoneInv, Places
  <2>6. \A r : (Ended(r) => Ended(r)') /\ (Indexed(r) => Indexed(r)')
    BY <1>2, <1>6, <2>1, EndedStays DEF Indexed
  <2>7. Working' /\ Ends'
    BY <1>6, <2>1, <2>2, <2>4, <2>6 DEF DoneInv, Working, Ends
  <2> QED
    BY <2>5, <2>7
<1>7. CASE Resolve
  BY <1>6, <1>7 DEF Resolve, durable
<1>8. CASE LogFails
  BY <1>6, <1>8 DEF LogFails, durable
<1> QED
  BY <1>3, <1>4, <1>5, <1>7, <1>8

(* The steps of the executing request. *)
LEMMA RequestDone ==
  ASSUME DoneInv,
         Validate \/ EmbedFails \/ EmbedAndStamp \/ PutLine \/ CommitRow \/ MatchLive \/ TombLine \/ MarkRows
  PROVE  Places' /\ Working' /\ Ends'
<1>0. /\ TypeOK /\ TypeInv /\ pc \notin {"idle", "index", "log"} /\ batch # <<>>
      /\ op \in Insert \cup Delete /\ (op.kind = "insert" => op \in Insert)
  <2>1. TypeOK /\ TypeInv
    BY DoneTypes
  <2>2. pc \notin {"idle", "index", "log"} /\ batch # <<>>
    BY <2>1 DEF TypeOK, Validate, EmbedFails, EmbedAndStamp, PutLine, CommitRow, MatchLive, TombLine, MarkRows
  <2> QED
    BY <2>1, <2>2, BatchHead
<1>1. PICK r \in Requests : r = Head(batch)
  BY <1>0, BatchHead
<1>2. UNCHANGED duck => DuckKept
  BY DoneTypes, RowsKept
<1>3. /\ op = Op[r] /\ keep \in SUBSET Keys /\ todo \in SUBSET keep
      /\ (pc \in {"stamp", "puts", "commit"} => op.kind = "insert")
      /\ (pc \in {"tombs", "mark"} => op.kind # "insert")
      /\ (op.kind = "insert" => op.rows \in Seq([key : Keys, val : Vals]) /\ op.skip \in BOOLEAN)
  <2>1. keep \in SUBSET Keys /\ todo \in SUBSET keep
    BY <1>0 DEF TypeOK
  <2>2. Phase
    BY <1>0 DEF TypeInv
  <2> QED
    BY <1>0, <1>1, <2>1, <2>2 DEF op, Phase, Insert, Delete
<1>4. batch' = batch => op' = op
  BY DEF op
<1>5. CASE Validate
  <2>1. /\ UNCHANGED <<files, unended, duck, fts, logged>> /\ op.kind = "insert" /\ op \in Insert
    BY <1>0, <1>5 DEF Validate, durable
  <2> DEFINE fresh == KeysOf(op.rows) \ DOMAIN duck
  <2>2. Valid(op) /\ ~op.skip => fresh = KeysOf(op.rows)
    BY DEF Valid
  <2>3. CASE Reject
    BY <1>0, <1>2, <2>1, <2>3, RejectDone
  <2>4. CASE Valid(op) /\ fresh = {} /\ Succeed({}, FALSE)
    BY <1>0, <1>1, <1>2, <2>1, <2>2, <2>4, SucceedDone
  <2>5. CASE /\ Valid(op) /\ keep' = fresh /\ todo' = fresh /\ pc' = "stamp"
             /\ UNCHANGED <<queue, batch, executed, touched, stamp, callers>>
    <3>1. Places' /\ Ends'
      BY <1>2, <2>1, <2>5, GoesOn DEF callers
    <3>2. Working'
      BY <1>4, <2>2, <2>5 DEF Working, KeysOf
    <3> QED
      BY <3>1, <3>2
  <2> QED
    BY <1>5, <2>3, <2>4, <2>5 DEF Validate
<1>6. CASE EmbedFails
  BY <1>0, <1>2, <1>6, RejectDone DEF EmbedFails, durable
<1>7. CASE EmbedAndStamp
  <2>1. /\ pc = "stamp" /\ pc' = "puts" /\ UNCHANGED <<files, unended, duck, fts, logged>>
        /\ UNCHANGED <<queue, batch, executed, touched, keep, todo, st, wrote>>
    BY <1>7 DEF EmbedAndStamp, durable, callers
  <2>2. Places' /\ Ends'
    BY <1>2, <2>1, GoesOn
  <2>3. Working'
    BY <1>4, <2>1 DEF DoneInv, Working, KeysOf
  <2> QED
    BY <2>2, <2>3
<1>8. CASE PutLine
  <2>1. /\ pc = "puts" /\ pc' \in {"puts", "commit"} /\ (pc' = "commit" => todo' = keep)
        /\ UNCHANGED <<duck, fts, logged, queue, batch, executed, touched, keep, st, wrote>>
    BY <1>8 DEF PutLine, callers
  <2>2. Places' /\ Ends'
    BY <1>2, <2>1, GoesOn
  <2>3. Working'
    BY <1>4, <2>1 DEF DoneInv, Working, KeysOf
  <2> QED
    BY <2>2, <2>3
<1>9. CASE TombLine
  <2>1. /\ pc = "tombs" /\ pc' \in {"tombs", "mark"}
        /\ UNCHANGED <<duck, fts, logged, queue, batch, executed, touched, keep, st, wrote>>
    BY <1>9 DEF TombLine, callers
  <2>2. Places' /\ Ends'
    BY <1>2, <2>1, GoesOn
  <2>3. Working'
    BY <2>1 DEF DoneInv, Working
  <2> QED
    BY <2>2, <2>3
<1>10. CASE MatchLive
  <2>1. UNCHANGED <<files, unended, duck, fts, logged>> /\ op.kind # "insert"
    BY <1>10 DEF MatchLive, durable
  <2>2. CASE Succeed({}, FALSE)
    BY <1>0, <1>1, <1>2, <2>1, <2>2, SucceedDone
  <2>3. CASE /\ keep' = op.keys \cap Live(duck) /\ pc' = "tombs"
             /\ UNCHANGED <<queue, batch, executed, touched, callers>>
    <3>1. Places' /\ Ends'
      BY <1>2, <2>1, <2>3, GoesOn DEF callers
    <3>2. Working'
      BY <2>1, <2>3 DEF Working, Live, Visible
    <3> QED
      BY <3>1, <3>2
  <2> QED
    BY <1>10, <2>2, <2>3 DEF MatchLive
<1>11. CASE MarkRows
  <2>1. /\ pc = "mark" /\ duck' = SoftDelete(duck, keep, stamp) /\ Succeed(keep, FALSE) /\ UNCHANGED <<fts, logged>>
    BY <1>11 DEF MarkRows
  <2>2. DuckKept /\ DOMAIN duck' = DOMAIN duck /\ \A k \in keep \cap DOMAIN duck : duck'[k].del # NULL
    BY <1>3, <2>1, DoneTypes, RowsKept
  <2>3. keep \subseteq DOMAIN duck
    BY <2>1 DEF DoneInv, Working
  <2> QED
    BY <1>0, <1>1, <1>3, <2>1, <2>2, <2>3, SucceedDone
<1>12. CASE CommitRow
  <2>1. pc = "commit" /\ UNCHANGED <<files, unended, fts, logged>> /\ op \in Insert
    BY <1>0, <1>3, <1>12 DEF CommitRow
  <2>2. PICK i \in NextRow(op.rows, todo) :
          \/ /\ Accepts(duck, op.rows[i].key, op.rows[i].val)
             /\ duck' = InsertRow(duck, op.rows[i].key, op.rows[i].val, stamp)
             /\ IF todo = {op.rows[i].key}
                  THEN Succeed(keep, TRUE)
                  ELSE /\ todo' = todo \ {op.rows[i].key}
                       /\ UNCHANGED <<queue, batch, executed, touched, pc, keep, stamp, callers>>
          \/ Reject /\ UNCHANGED duck
    BY <1>12 DEF CommitRow
  <2>3. PICK k \in Keys, v \in Vals : k = op.rows[i].key /\ v = op.rows[i].val /\ k \in todo
    BY <2>1, RowTypes
  <2>4. v \in RowFor(r, k)
    <3>1. NextRow(op.rows, {k}) = {i}
      BY <2>1, <2>3, NextRowFirst
    <3> QED
      BY <1>3, <2>3, <3>1 DEF RowFor
  <2>5. CASE Reject /\ UNCHANGED duck
    BY <1>0, <1>2, <2>1, <2>5, RejectDone
  <2>6. CASE /\ Accepts(duck, k, v) /\ duck' = InsertRow(duck, k, v, stamp)
             /\ IF todo = {k}
                  THEN Succeed(keep, TRUE)
                  ELSE /\ todo' = todo \ {k}
                       /\ UNCHANGED <<queue, batch, executed, touched, pc, keep, stamp, callers>>
    <3>1. DuckKept /\ k \in DOMAIN duck' /\ duck'[k].val = v
      BY <2>6, DoneTypes, RowsKept
    <3>2. \A x : RowFor(r, x)' = RowFor(r, x)
      BY DEF RowFor, NextRow
    <3>3. \A x \in keep \ todo : HasRow(r, x)
      BY <1>1, <2>1 DEF DoneInv, Working
    <3>4. \A x \in keep \ (todo \ {k}) : HasRow(r, x)'
      BY <2>4, <3>1, <3>2, <3>3 DEF HasRow, DuckKept
    <3>5. CASE todo = {k}
      <4>1. \A x \in keep : HasRow(r, x)'
        BY <3>4, <3>5
      <4>2. ~op.skip => keep = KeysOf(op.rows)
        BY <2>1 DEF DoneInv, Working
      <4>3. Succeed(keep, TRUE)
        BY <2>6, <3>5
      <4> QED
        BY <1>0, <1>1, <1>3, <2>1, <3>1, <4>1, <4>2, <4>3, SucceedDone
    <3>6. CASE todo # {k}
      <4>1. todo' = todo \ {k} /\ UNCHANGED <<queue, batch, executed, touched, pc, keep, st, wrote>>
        BY <2>6, <3>6 DEF callers
      <4>2. Places' /\ Ends'
        BY <2>1, <3>1, <4>1, GoesOn
      <4>3. \A x \in keep' \ todo' : HasRow(Head(batch), x)'
        BY <1>1, <3>4, <4>1 DEF HasRow
      <4>4. ~op'.skip => keep' = KeysOf(op'.rows)
        BY <1>4, <2>1, <4>1 DEF DoneInv, Working
      <4>5. Working'
        BY <2>1, <4>1, <4>3, <4>4 DEF Working, KeysOf
      <4> QED
        BY <4>2, <4>5
    <3> QED
      BY <3>5, <3>6
  <2> QED
    BY <2>2, <2>3, <2>5, <2>6
<1> QED
  BY <1>5, <1>6, <1>7, <1>8, <1>9, <1>10, <1>11, <1>12

(* Everybody else's steps. *)
LEMMA OthersDone ==
  ASSUME DoneInv,
         (\E r \in Requests : Submit(r)) \/ Midnight \/ Crash \/ Reopen \/ UNCHANGED vars
  PROVE  Places' /\ Working' /\ Ends'
<1>1. DuckKept
  <2>1. UNCHANGED duck
    BY DEF Submit, Midnight, Crash, Reopen, vars, durable
  <2> QED
    BY <2>1, DoneTypes, RowsKept
<1>2. ASSUME UNCHANGED <<duck, logged, worker, callers>>, fts' \in {fts, DOMAIN duck}
      PROVE  Places' /\ Working' /\ Ends'
  <2>1. UNCHANGED <<queue, batch, executed, touched, pc, keep, todo, stamp, st, wrote, duck, logged>>
    BY <1>2 DEF worker, callers
  <2>2. /\ Listed(queue)' = Listed(queue) /\ Listed(executed)' = Listed(executed) /\ Listed(batch)' = Listed(batch)
        /\ (Injective(queue)' <=> Injective(queue)) /\ (Injective(batch)' <=> Injective(batch))
    BY <2>1 DEF Listed, Injective
  <2>3. Places'
    BY <2>1, <2>2 DEF DoneInv, Places
  <2>4. \A r : Ended(r) => Ended(r)'
    BY <1>1, <2>1, EndedStays
  <2>5. \A r : Ended(r) /\ Indexed(r) => Indexed(r)'
    BY <1>2, <2>1 DEF Indexed, Ended, HasRow
  <2>6. Ends'
    BY <2>1, <2>2, <2>4, <2>5 DEF DoneInv, Ends
  <2>7. Working'
    <3>1. op' = op /\ KeysOf(op.rows)' = KeysOf(op.rows) /\ \A r, k : HasRow(r, k)' <=> HasRow(r, k)
      BY <2>1 DEF op, KeysOf, HasRow, RowFor, NextRow
    <3> QED
      BY <2>1, <3>1 DEF DoneInv, Working
  <2> QED
    BY <2>3, <2>6, <2>7
<1>3. CASE Midnight \/ Reopen \/ UNCHANGED vars
  BY <1>2, <1>3 DEF Midnight, Reopen, vars, durable
<1>4. ASSUME NEW r \in Requests, Submit(r) PROVE Places' /\ Working' /\ Ends'
  <2>1. /\ st[r] = "new" /\ queue' = Append(queue, r) /\ st' = [st EXCEPT ![r] = "sent"]
        /\ UNCHANGED <<batch, executed, touched, pc, keep, todo, stamp, wrote, duck, fts, logged>>
    BY <1>4 DEF Submit, durable
  <2>2. r \notin Listed(queue) \cup Listed(batch) \cup Listed(executed) \cup logged
    BY <2>1 DEF DoneInv, Places
  <2>3. /\ Listed(queue)' = Listed(queue) \cup {r} /\ Injective(queue)'
        /\ Listed(executed)' = Listed(executed) /\ Listed(batch)' = Listed(batch)
        /\ (Injective(batch)' <=> Injective(batch))
    <3>1. Injective(queue)
      BY DEF DoneInv, Places
    <3>2. Listed(Append(queue, r)) = Listed(queue) \cup {r} /\ Injective(Append(queue, r))
      BY <2>2, <3>1, DoneTypes, ListFacts
    <3> QED
      BY <2>1, <3>2 DEF Listed, Injective
  <2>4. st'[r] = "sent" /\ \A x \in Requests \ {r} : st'[x] = st[x]
    BY <2>1, DoneTypes
  <2>5. Places'
    <3>1. \A x \in Listed(queue)' \cup Listed(batch)' \cup Listed(executed)' \cup logged' : st'[x] # "new"
      BY <2>1, <2>3, <2>4, DoneTypes DEF DoneInv, Places
    <3> QED
      BY <2>1, <2>2, <2>3, <3>1 DEF DoneInv, Places
  <2>6. \A x : (Ended(x) => Ended(x)') /\ (Indexed(x) => Indexed(x)')
    BY <1>1, <2>1, EndedStays DEF Indexed
  <2>7. \A x \in Requests : st'[x] = "ok" => x \in logged'
    BY <2>1, <2>4 DEF DoneInv, Ends
  <2>8. Ends'
    BY <2>1, <2>3, <2>6, <2>7 DEF DoneInv, Ends
  <2>9. Working'
    <3>1. op' = op /\ KeysOf(op.rows)' = KeysOf(op.rows) /\ \A x, k : HasRow(x, k)' <=> HasRow(x, k)
      BY <2>1 DEF op, KeysOf, HasRow, RowFor, NextRow
    <3> QED
      BY <2>1, <3>1 DEF DoneInv, Working
  <2> QED
    BY <2>5, <2>8, <2>9
<1>5. CASE Crash
  <2>1. /\ queue' = <<>> /\ batch' = <<>> /\ executed' = <<>> /\ pc' = "idle"
        /\ st' = [r \in Requests |-> IF st[r] = "sent" THEN "lost" ELSE st[r]]
        /\ UNCHANGED <<duck, fts, logged, wrote>>
    BY <1>5 DEF Crash
  <2>2. /\ Listed(queue)' = {} /\ Listed(batch)' = {} /\ Listed(executed)' = {}
        /\ Injective(queue)' /\ Injective(batch)'
    BY <2>1, EmptyList DEF Listed, Injective
  <2>3. \A r \in Requests : (st[r] # "new" => st'[r] # "new") /\ (st'[r] = "ok" => st[r] = "ok")
    BY <2>1
  <2>4. Places'
    BY <2>1, <2>2, <2>3, DoneTypes DEF DoneInv, Places
  <2>5. \A r : (Ended(r) => Ended(r)') /\ (Indexed(r) => Indexed(r)')
    BY <1>1, <2>1, EndedStays DEF Indexed
  <2>6. Working' /\ Ends'
    BY <2>1, <2>2, <2>3, <2>5 DEF DoneInv, Working, Ends
  <2> QED
    BY <2>4, <2>6
<1> QED
  BY <1>3, <1>4, <1>5

LEMMA DoneInitially == ASSUME Init PROVE DoneInv
<1>1. /\ queue = <<>> /\ batch = <<>> /\ executed = <<>> /\ pc = "idle" /\ logged = {}
      /\ st = [r \in Requests |-> "new"] /\ TypeInv
  BY InitTypes DEF Init
<1>2. Places /\ Working /\ Ends
  BY <1>1, EmptyList DEF Places, Working, Ends
<1> QED
  BY <1>1, <1>2 DEF DoneInv

(* A done task means the whole write is there: its rows in the table and   *)
(* in the search index, its deletions marked, and only such a task is      *)
(* answered (write_service.py, task.md section 2).  This is what the       *)
(* worker gives through every batch, crash, torn line and failure but that *)
(* of the index itself, which it suppresses, and as long as nobody         *)
(* rebuilds.                                                               *)
THEOREM DoneMeansDone ==
  ASSUME Rebuilds = {}, "fts" \notin Faults
  PROVE  Spec => []DoneIsComplete
<1>1. DoneInv /\ [Next]_vars => DoneInv'
  <2> SUFFICES ASSUME DoneInv, [Next]_vars PROVE DoneInv'
    OBVIOUS
  <2>1. TypeInv'
    BY TypeStep DEF DoneInv
  <2>2. Places' /\ Working' /\ Ends'
    BY BatchDone, RequestDone, OthersDone DEF Next, Worker
  <2> QED
    BY <2>1, <2>2 DEF DoneInv
<1>2. DoneInv => DoneIsComplete
  <2>1. \A r : Ended(r) /\ Indexed(r) => Complete(r)
    BY DEF Ended, Indexed, Complete, HasRow, HasMark
  <2> QED
    BY <2>1 DEF DoneInv, Ends, DoneIsComplete
<1>3. Init => DoneInv
  BY DoneInitially
<1> QED
  BY <1>1, <1>2, <1>3, PTL DEF Spec

-----------------------------------------------------------------------------
(* What a rebuild makes of the table.  While it has files and table to     *)
(* itself, the table is what the events it has applied so far say.         *)

PutsFrom(G, k)  == {e \in PutsOf(G) : e.rec.key = k}
TombsFrom(G, k) == {e \in TombsOf(G) : e.rec.key = k}

(* The table says what the events of G say. *)
Says(tbl, G) ==
  /\ \A k : k \in DOMAIN tbl <=> \E e \in PutsOf(G) : e.rec.key = k
  /\ \A e \in PutsOf(G) : tbl[e.rec.key].val = e.rec.val /\ tbl[e.rec.key].ds = e.day
  /\ \A k \in DOMAIN tbl : /\ tbl[k].del = NULL <=> TombsFrom(G, k) = {}
                           /\ \A e \in First(TombsFrom(G, k)) : tbl[k].del = e.day

Applied(b) == Events(files) \ rb[b].left

Replaying(b) ==
  rb[b].quiet /\ rb[b].st \in {"clear", "rows"} =>
    /\ rb[b].left \subseteq Events(files)
    /\ rb[b].st = "clear" => Applied(b) = {}
    /\ rb[b].st = "rows" =>
         /\ Says(duck, Applied(b))
         /\ PutsOf(rb[b].left) # {} => TombsOf(Applied(b)) = {}
         /\ \A e \in TombsOf(Applied(b)) : \A f \in TombsOf(rb[b].left) : Before(e, f)

ReplayInv == TypeInv /\ \A b \in Rebuilds : Replaying(b)

LEMMA SaysReplay ==
  ASSUME NEW T, NEW E, Says(T, E)
  PROVE  IsReplay(T, E)
<1>1. DOMAIN T = {e.rec.key : e \in PutsOf(E)}
  BY DEF Says
<1>2. ASSUME NEW k \in DOMAIN T, NEW e \in First(PutsFrom(E, k)) PROVE T[k].val = e.rec.val /\ T[k].ds = e.day
  <2>1. e \in PutsOf(E) /\ e.rec.key = k
    BY DEF First, PutsFrom
  <2> QED
    BY <2>1 DEF Says
<1>3. ASSUME NEW k \in DOMAIN T
      PROVE  IF TombsFrom(E, k) = {} THEN T[k].del = NULL ELSE \A e \in First(TombsFrom(E, k)) : T[k].del = e.day
  BY DEF Says
<1> QED
  BY <1>1, <1>2, <1>3, Zenon DEF IsReplay, PutsFrom, TombsFrom

LEMMA SaysNothing ==
  ASSUME NEW T, DOMAIN T = {}
  PROVE  Says(T, {})
BY DEF Says, PutsOf

(* A put is a put, a tombstone a tombstone, and not both. *)
LEMMA EventKinds ==
  ASSUME NEW E \in SUBSET Event, NEW e \in E
  PROVE  e \in PutsOf(E) <=> ~(e \in TombsOf(E))
<1>1. e.rec \in Puts \/ e.rec \in Tombs
  BY DEF Event, Records
<1>2. ~(e.rec \in Puts /\ e.rec \in Tombs)
  BY DEF Puts, Tombs, Put, Tomb
<1> QED
  BY <1>1, <1>2 DEF PutsOf, TombsOf

LEMMA SaysPut ==
  ASSUME NEW T \in Table, NEW G \in SUBSET Event, Says(T, G), TombsOf(G) = {},
         NEW e \in Event, e.rec \in Puts, Accepts(T, e.rec.key, e.rec.val)
  PROVE  Says(InsertRow(T, e.rec.key, e.rec.val, e.day), G \cup {e}) /\ TombsOf(G \cup {e}) = {}
<1> DEFINE k == e.rec.key
           U == InsertRow(T, k, e.rec.val, e.day)
           H == G \cup {e}
<1>1. e \in PutsOf(H) /\ ~(e \in TombsOf(H))
  <2>1. H \in SUBSET Event /\ e \in H
    OBVIOUS
  <2>2. e \in PutsOf(H)
    BY DEF PutsOf
  <2> HIDE DEF H
  <2> QED
    BY <2>1, <2>2, EventKinds
<1>2. e.day \in Days /\ k \in Keys /\ e.rec.val \in Vals
  <2>1. H \in SUBSET Event /\ e \in H
    OBVIOUS
  <2> HIDE DEF H
  <2> QED
    BY <1>1, <2>1, EventTypes
<1>3. PutsOf(H) = PutsOf(G) \cup {e} /\ TombsOf(H) = {}
  BY <1>1 DEF PutsOf, TombsOf
<1>4. k \notin DOMAIN T
  BY DEF Accepts
<1>5. /\ \A x : x \in DOMAIN U <=> x = k \/ x \in DOMAIN T
      /\ U[k] = [val |-> e.rec.val, ds |-> e.day, del |-> NULL]
      /\ \A x \in DOMAIN T : U[x] = T[x]
  <2>1. \A x \in DOMAIN T : x # k
    BY <1>4
  <2> HIDE DEF k
  <2> QED
    BY <1>2, <2>1, InsertRowTable
<1>6. U[k].val = e.rec.val /\ U[k].ds = e.day /\ U[k].del = NULL
  BY <1>5
<1> HIDE DEF U, H
<1>7. \A x : x \in DOMAIN U <=> \E f \in PutsOf(H) : f.rec.key = x
  BY <1>3, <1>5 DEF Says
<1>8. ASSUME NEW f \in PutsOf(H) PROVE U[f.rec.key].val = f.rec.val /\ U[f.rec.key].ds = f.day
  <2>1. CASE f = e
    BY <1>6, <2>1
  <2>2. CASE f \in PutsOf(G)
    <3>1. f.rec.key \in DOMAIN T
      BY <2>2 DEF Says
    <3> QED
      BY <1>5, <2>2, <3>1 DEF Says
  <2> QED
    BY <1>3, <2>1, <2>2
<1>9. ASSUME NEW x \in DOMAIN U
      PROVE  /\ U[x].del = NULL <=> TombsFrom(H, x) = {}
             /\ \A f \in First(TombsFrom(H, x)) : U[x].del = f.day
  <2>1. TombsFrom(H, x) = {} /\ TombsFrom(G, x) = {}
    BY <1>3 DEF TombsFrom
  <2>2. First({}) = {}
    BY DEF First
  <2>3. U[x].del = NULL
    <3>1. CASE x = k
      BY <1>6, <3>1
    <3>2. CASE x \in DOMAIN T
      BY <1>5, <2>1, <3>2 DEF Says
    <3> QED
      BY <1>5, <3>1, <3>2
  <2> QED
    BY <2>1, <2>2, <2>3
<1>10. Says(U, H)
  BY <1>7, <1>8, <1>9 DEF Says
<1> QED
  BY <1>3, <1>10 DEF U, H

LEMMA SaysTomb ==
  ASSUME NEW T \in Table, NEW G \in SUBSET Event, Says(T, G),
         NEW e \in Event, e \notin G, e.rec \in Tombs, \A g \in TombsOf(G) : Before(g, e)
  PROVE  Says(SoftDelete(T, {e.rec.key}, e.day), G \cup {e})
<1> DEFINE k == e.rec.key
           U == SoftDelete(T, {k}, e.day)
           H == G \cup {e}
<1>1. e \in TombsOf(H) /\ ~(e \in PutsOf(H))
  <2>1. H \in SUBSET Event /\ e \in H
    OBVIOUS
  <2>2. e \in TombsOf(H)
    BY DEF TombsOf
  <2> HIDE DEF H
  <2> QED
    BY <2>1, <2>2, EventKinds
<1>2. e.day \in Days /\ e.day # NULL /\ e.pos \in Nat
  BY DEF Event, Days, NULL
<1>3. PutsOf(H) = PutsOf(G) /\ TombsOf(H) = TombsOf(G) \cup {e}
  BY <1>1 DEF PutsOf, TombsOf
<1>4. /\ DOMAIN U = DOMAIN T
      /\ \A x \in DOMAIN T : /\ U[x].val = T[x].val /\ U[x].ds = T[x].ds
                             /\ U[x].del = IF x \in {k} /\ T[x].del = NULL THEN e.day ELSE T[x].del
  <2> HIDE DEF k
  <2> QED
    BY <1>2, SoftDeleteTable
<1> HIDE DEF U, H
<1>5. \A x : x \in DOMAIN U <=> \E f \in PutsOf(H) : f.rec.key = x
  BY <1>3, <1>4 DEF Says
<1>6. ASSUME NEW f \in PutsOf(H) PROVE U[f.rec.key].val = f.rec.val /\ U[f.rec.key].ds = f.day
  <2>1. f \in PutsOf(G)
    BY <1>3
  <2>2. f.rec.key \in DOMAIN T
    BY <2>1 DEF Says
  <2> QED
    BY <1>4, <2>1, <2>2 DEF Says
<1>7. ASSUME NEW x \in DOMAIN U
      PROVE  /\ U[x].del = NULL <=> TombsFrom(H, x) = {}
             /\ \A f \in First(TombsFrom(H, x)) : U[x].del = f.day
  <2>1. x \in DOMAIN T
    BY <1>4
  <2>2. CASE x # k
    <3>1. TombsFrom(H, x) = TombsFrom(G, x)
      BY <1>3, <2>2 DEF TombsFrom
    <3>2. U[x].del = T[x].del
      BY <1>4, <2>1, <2>2
    <3> QED
      BY <2>1, <3>1, <3>2 DEF Says
  <2>3. CASE x = k /\ TombsFrom(G, k) = {}
    <3>1. TombsFrom(H, x) = {e}
      BY <1>3, <2>3 DEF TombsFrom
    <3>2. U[x].del = e.day
      BY <1>4, <2>1, <2>3 DEF Says
    <3>3. \A f \in First({e}) : f = e
      BY DEF First
    <3> QED
      BY <1>2, <3>1, <3>2, <3>3
  <2>4. CASE x = k /\ TombsFrom(G, k) # {}
    <3>1. TombsFrom(H, x) = TombsFrom(G, x) \cup {e} /\ TombsFrom(H, x) # {}
      BY <1>3, <2>4 DEF TombsFrom
    <3>2. T[x].del # NULL
      BY <2>1, <2>4 DEF Says
    <3>3. U[x].del = T[x].del
      BY <1>4, <2>1, <3>2
    <3>4. PICK g : g \in TombsFrom(G, x)
      BY <2>4
    <3>5. g \in TombsOf(G) /\ g \in G /\ g # e
      BY <3>4 DEF TombsFrom, TombsOf
    <3>6. Before(g, e) /\ g \in Event
      BY <3>5
    <3>7. ~Before(e, g)
      BY <1>2, <3>6 DEF Before, Event, Days
    <3>8. \A f \in First(TombsFrom(H, x)) : f \in First(TombsFrom(G, x))
      BY <3>1, <3>4, <3>5, <3>7 DEF First
    <3> QED
      BY <2>1, <3>1, <3>2, <3>3, <3>8 DEF Says
  <2> QED
    BY <2>2, <2>3, <2>4
<1>8. Says(U, H)
  BY <1>5, <1>6, <1>7 DEF Says
<1> QED
  BY <1>8 DEF U, H

(* What a step may leave of a rebuild's replay: it is untouched, it has    *)
(* lost files or table to another, or it is not under way.                 *)
LEMMA ReplayStays ==
  ASSUME NEW b, Replaying(b), files' = files, duck' = duck, rb'[b] = rb[b]
  PROVE  Replaying(b)'
BY DEF Replaying, Applied

LEMMA ReplayOver ==
  ASSUME NEW b, rb'[b].quiet = FALSE \/ rb'[b].st \notin {"clear", "rows"}
  PROVE  Replaying(b)'
BY DEF Replaying

(* A step of the worker leaves files, table and rebuilds alone, or ends    *)
(* every rebuild's quiet.                                                  *)
LEMMA WorkerDisturbs ==
  ASSUME TypeInv, Worker \/ EmbedFails \/ LogFails
  PROVE  UNCHANGED <<files, duck, rb>> \/ \A b \in Rebuilds : rb'[b].quiet = FALSE
<1>1. ASSUME Disturb PROVE \A b \in Rebuilds : rb'[b].quiet = FALSE
  BY <1>1 DEF Disturb, TypeInv, TypeOK
<1>2. CASE PutLine \/ CommitRow \/ TombLine \/ MarkRows
  <2>1. Disturb
    BY <1>2 DEF PutLine, CommitRow, TombLine, MarkRows
  <2> QED
    BY <1>1, <2>1
<1>3. CASE TakeBatch \/ Validate \/ EmbedAndStamp \/ MatchLive \/ IndexBatch \/ LogTask \/ Resolve
  BY <1>3 DEF TakeBatch, Validate, EmbedAndStamp, MatchLive, IndexBatch, LogTask, Resolve, durable
<1>4. CASE EmbedFails \/ LogFails
  BY <1>4 DEF EmbedFails, LogFails, durable
<1> QED
  BY <1>2, <1>3, <1>4 DEF Worker

(* A rebuild that writes to the table ends the quiet of every other one.   *)
LEMMA OthersDisturbed ==
  ASSUME TypeInv, NEW b \in Rebuilds, NEW e,
         RbApplied(b, e) \/ rb' = [Alone(b) EXCEPT ![b].st = "rows"]
  PROVE  \A c \in Rebuilds \ {b} : rb'[c].quiet = FALSE
BY DEF RbApplied, Alone, TypeInv, TypeOK

(* An applied event has moved from the ones left to the ones in the table. *)
LEMMA EventApplied ==
  ASSUME TypeInv, NEW b \in Rebuilds, NEW e \in rb[b].left, RbApplied(b, e),
         files' = files, rb[b].left \subseteq Events(files)
  PROVE  /\ rb'[b].left = rb[b].left \ {e} /\ rb'[b].st = rb[b].st /\ rb'[b].quiet = rb[b].quiet
         /\ Applied(b)' = Applied(b) \cup {e} /\ e \notin Applied(b)
<1>1. Alone(b) \in [Rebuilds -> [st : RbSts, left : SUBSET Event, quiet : BOOLEAN]] /\ Alone(b)[b] = rb[b]
  BY DEF Alone, TypeInv, TypeOK
<1>2. rb'[b].left = rb[b].left \ {e} /\ rb'[b].st = rb[b].st /\ rb'[b].quiet = rb[b].quiet
  BY <1>1 DEF RbApplied
<1>3. Events(files)' = Events(files)
  OBVIOUS
<1>4. Applied(b)' = Events(files) \ (rb[b].left \ {e})
  BY <1>2 DEF Applied
<1> QED
  BY <1>2, <1>4 DEF Applied

(* A put moved into the table keeps the replay on course. *)
LEMMA RowReplays ==
  ASSUME ReplayInv, NEW b \in Rebuilds, NEW e \in First(PutsOf(rb[b].left)),
         rb[b].st = "rows", Accepts(duck, e.rec.key, e.rec.val),
         duck' = InsertRow(duck, e.rec.key, e.rec.val, e.day),
         RbApplied(b, e), files' = files
  PROVE  Replaying(b)'
<1> DEFINE G == Applied(b)
<1>1. TypeInv /\ Replaying(b) /\ duck \in Table /\ files \in Mirror
  BY DEF ReplayInv, TypeInv, TypeOK
<1>2. e \in rb[b].left /\ e.rec \in Puts /\ e \in PutsOf(rb[b].left)
  BY DEF First, PutsOf
<1>3. SUFFICES ASSUME rb[b].quiet
               PROVE  Replaying(b)'
  <2>1. rb'[b].quiet = rb[b].quiet
    BY <1>1 DEF RbApplied, Alone, TypeInv, TypeOK
  <2>2. rb[b].quiet \in BOOLEAN
    BY <1>1 DEF TypeInv, TypeOK
  <2> QED
    BY <2>1, <2>2 DEF Replaying
<1>4. /\ rb[b].left \subseteq Events(files) /\ Says(duck, G) /\ TombsOf(G) = {}
  BY <1>1, <1>2, <1>3 DEF Replaying
<1>5. /\ rb'[b].left = rb[b].left \ {e} /\ rb'[b].st = "rows"
      /\ Applied(b)' = G \cup {e}
  BY <1>1, <1>2, <1>4, EventApplied
<1>6. Events(files) \in SUBSET Event
  BY <1>1, EventsRecorded
<1>7. G \in SUBSET Event /\ e \in Event
  BY <1>2, <1>4, <1>6 DEF Applied
<1> HIDE DEF G
<1>8. Says(duck', G \cup {e}) /\ TombsOf(G \cup {e}) = {}
  BY <1>1, <1>2, <1>4, <1>7, SaysPut
<1>9. rb'[b].left \subseteq Events(files')
  BY <1>4, <1>5
<1> QED
  BY <1>5, <1>8, <1>9 DEF Replaying

(* So does a deletion, once every put is in: it comes before the ones left *)
(* and after the ones applied.                                             *)
LEMMA MarkReplays ==
  ASSUME ReplayInv, NEW b \in Rebuilds, NEW e \in First(rb[b].left),
         rb[b].st = "rows", PutsOf(rb[b].left) = {},
         duck' = SoftDelete(duck, {e.rec.key}, e.day),
         RbApplied(b, e), files' = files
  PROVE  Replaying(b)'
<1> DEFINE G == Applied(b)
<1>1. TypeInv /\ Replaying(b) /\ duck \in Table /\ files \in Mirror /\ rb[b].left \in SUBSET Event
  BY DEF ReplayInv, TypeInv, TypeOK
<1>2. e \in rb[b].left /\ \A f \in rb[b].left : e = f \/ Before(e, f)
  BY DEF First
<1>3. e \in TombsOf(rb[b].left) /\ e.rec \in Tombs
  <2>1. e \in TombsOf(rb[b].left)
    BY <1>1, <1>2, EventKinds
  <2> QED
    BY <2>1 DEF TombsOf
<1>4. SUFFICES ASSUME rb[b].quiet
               PROVE  Replaying(b)'
  <2>1. rb'[b].quiet = rb[b].quiet
    BY <1>1 DEF RbApplied, Alone, TypeInv, TypeOK
  <2>2. rb[b].quiet \in BOOLEAN
    BY <1>1 DEF TypeInv, TypeOK
  <2> QED
    BY <2>1, <2>2 DEF Replaying
<1>5. /\ rb[b].left \subseteq Events(files) /\ Says(duck, G)
      /\ \A g \in TombsOf(G) : \A f \in TombsOf(rb[b].left) : Before(g, f)
  BY <1>1, <1>4 DEF Replaying
<1>6. /\ rb'[b].left = rb[b].left \ {e} /\ rb'[b].st = "rows"
      /\ Applied(b)' = G \cup {e} /\ e \notin G
  BY <1>1, <1>2, <1>5, EventApplied
<1>7. Events(files) \in SUBSET Event
  BY <1>1, EventsRecorded
<1>8. G \in SUBSET Event /\ e \in Event
  BY <1>2, <1>5, <1>7 DEF Applied
<1>9. PutsOf(rb'[b].left) = {}
  BY <1>6 DEF PutsOf
<1> HIDE DEF G
<1>10. Says(duck', G \cup {e})
  BY <1>1, <1>3, <1>5, <1>6, <1>8, SaysTomb
<1>11. ASSUME NEW g \in TombsOf(G \cup {e}), NEW f \in TombsOf(rb'[b].left)
       PROVE  Before(g, f)
  <2>1. f \in TombsOf(rb[b].left) /\ f \in rb[b].left /\ f # e
    BY <1>6 DEF TombsOf
  <2>2. CASE g = e
    BY <1>2, <2>1, <2>2
  <2>3. CASE g \in TombsOf(G)
    BY <1>5, <2>1, <2>3
  <2> QED
    BY <2>2, <2>3 DEF TombsOf
<1>12. rb'[b].left \subseteq Events(files')
  BY <1>5, <1>6
<1> QED
  BY <1>6, <1>9, <1>10, <1>11, <1>12 DEF Replaying

(* Every step of a rebuild keeps every replay on course.                   *)
LEMMA RebuildReplays ==
  ASSUME ReplayInv, NEW b \in Rebuilds, RbStart(b) \/ RbStep(b) \/ RbAbort(b)
  PROVE  \A c \in Rebuilds : Replaying(c)'
<1> TAKE c \in Rebuilds
<1>1. TypeInv /\ Replaying(c) /\ rb \in [Rebuilds -> [st : RbSts, left : SUBSET Event, quiet : BOOLEAN]]
  BY DEF ReplayInv, TypeInv, TypeOK
<1>2. ASSUME NEW to \in RbSts \ {"clear", "rows"}, RbGo(b, to), files' = files, duck' = duck
      PROVE  Replaying(c)'
  <2>1. CASE c = b
    <3>1. rb'[c].st = to
      BY <1>1, <1>2, <2>1 DEF RbGo
    <3> QED
      BY <3>1, ReplayOver
  <2>2. CASE c # b
    <3>1. rb'[c] = rb[c]
      BY <1>1, <1>2, <2>2 DEF RbGo
    <3> QED
      BY <1>1, <1>2, <3>1, ReplayStays
  <2> QED
    BY <2>1, <2>2
<1>3. CASE RbStart(b) \/ RbAbort(b) \/ RbIndex(b)
  <2>1. files' = files /\ duck' = duck
    BY <1>3 DEF RbStart, RbAbort, RbIndex, durable
  <2>2. RbGo(b, "read") \/ RbGo(b, "aborted") \/ RbGo(b, "done")
    BY <1>3 DEF RbStart, RbAbort, RbIndex
  <2>3. \A to \in {"read", "aborted", "done"} : to \in RbSts \ {"clear", "rows"}
    BY DEF RbSts
  <2> QED
    BY <1>2, <2>1, <2>2, <2>3
<1>4. CASE RbRead(b)
  <2>1. files' = files /\ duck' = duck
    BY <1>4 DEF RbRead, durable
  <2>2. CASE RbGo(b, "failed")
    BY <1>2, <2>1, <2>2 DEF RbSts
  <2>3. CASE rb' = [rb EXCEPT ![b] = [st |-> "clear", left |-> Events(files), quiet |-> TRUE]]
    <3>1. CASE c = b
      <4>1. rb'[c].st = "clear" /\ rb'[c].left = Events(files)
        BY <1>1, <2>3, <3>1
      <4>2. Applied(c)' = {}
        BY <2>1, <4>1 DEF Applied
      <4> QED
        BY <2>1, <4>1, <4>2 DEF Replaying
    <3>2. CASE c # b
      <4>1. rb'[c] = rb[c]
        BY <1>1, <2>3, <3>2
      <4> QED
        BY <1>1, <2>1, <4>1, ReplayStays
    <3> QED
      BY <3>1, <3>2
  <2> QED
    BY <1>4, <2>2, <2>3 DEF RbRead
<1>5. CASE RbClear(b)
  <2>1. /\ rb' = [Alone(b) EXCEPT ![b].st = "rows"] /\ files' = files
        /\ duck' = EmptyTable /\ rb[b].st = "clear"
    BY <1>5 DEF RbClear
  <2>2. CASE c = b
    <3>1. Alone(b) \in [Rebuilds -> [st : RbSts, left : SUBSET Event, quiet : BOOLEAN]] /\ Alone(b)[b] = rb[b]
      BY <1>1 DEF Alone
    <3>2. rb'[c].st = "rows" /\ rb'[c].left = rb[c].left /\ rb'[c].quiet = rb[c].quiet
      BY <2>1, <2>2, <3>1
    <3>3. SUFFICES ASSUME rb[c].quiet PROVE Replaying(c)'
      BY <3>2 DEF Replaying
    <3>4. rb[c].left \subseteq Events(files) /\ Applied(c) = {}
      BY <1>1, <2>1, <2>2, <3>3 DEF Replaying
    <3>5. Applied(c)' = {}
      BY <2>1, <3>2, <3>4 DEF Applied
    <3>6. Says(duck', {})
      BY <2>1, SaysNothing, EmptyTableTable
    <3>7. TombsOf({}) = {}
      BY DEF TombsOf
    <3> QED
      BY <2>1, <3>2, <3>4, <3>5, <3>6, <3>7 DEF Replaying
  <2>3. CASE c # b
    BY <1>1, <2>1, <2>3, OthersDisturbed, ReplayOver
  <2> QED
    BY <2>2, <2>3
<1>6. CASE RbRow(b)
  <2>1. /\ rb[b].st = "rows" /\ files' = files
        /\ \E e \in First(PutsOf(rb[b].left)) :
             \/ /\ Accepts(duck, e.rec.key, e.rec.val)
                /\ duck' = InsertRow(duck, e.rec.key, e.rec.val, e.day)
                /\ RbApplied(b, e)
             \/ /\ RbGo(b, "failed") /\ UNCHANGED duck
    BY <1>6 DEF RbRow
  <2>2. PICK e \in First(PutsOf(rb[b].left)) :
             \/ /\ Accepts(duck, e.rec.key, e.rec.val)
                /\ duck' = InsertRow(duck, e.rec.key, e.rec.val, e.day)
                /\ RbApplied(b, e)
             \/ /\ RbGo(b, "failed") /\ UNCHANGED duck
    BY <2>1
  <2>3. CASE RbGo(b, "failed") /\ UNCHANGED duck
    BY <1>2, <2>1, <2>3 DEF RbSts
  <2>4. CASE /\ Accepts(duck, e.rec.key, e.rec.val)
             /\ duck' = InsertRow(duck, e.rec.key, e.rec.val, e.day)
             /\ RbApplied(b, e)
    <3>1. CASE c = b
      BY <2>1, <2>4, <3>1, RowReplays
    <3>2. CASE c # b
      BY <1>1, <2>4, <3>2, OthersDisturbed, ReplayOver
    <3> QED
      BY <3>1, <3>2
  <2> QED
    BY <2>2, <2>3, <2>4
<1>7. CASE RbMark(b)
  <2>1. PICK e \in First(rb[b].left) :
          /\ duck' = SoftDelete(duck, {e.rec.key}, e.day)
          /\ RbApplied(b, e)
    BY <1>7 DEF RbMark
  <2>2. rb[b].st = "rows" /\ files' = files /\ PutsOf(rb[b].left) = {}
    BY <1>7 DEF RbMark
  <2>3. CASE c = b
    BY <2>1, <2>2, <2>3, MarkReplays
  <2>4. CASE c # b
    BY <1>1, <2>1, <2>4, OthersDisturbed, ReplayOver
  <2> QED
    BY <2>3, <2>4
<1> QED
  BY <1>3, <1>4, <1>5, <1>6, <1>7 DEF RbStep

(* A crash ends every rebuild under way; the rest leaves files, table and  *)
(* rebuilds alone.                                                         *)
LEMMA ReplayStep == ReplayInv /\ [Next]_vars => ReplayInv'
<1> SUFFICES ASSUME ReplayInv, [Next]_vars PROVE ReplayInv'
  OBVIOUS
<1>1. TypeInv /\ TypeInv'
  BY TypeStep DEF ReplayInv
<1>2. ASSUME UNCHANGED <<files, duck, rb>> PROVE \A b \in Rebuilds : Replaying(b)'
  BY <1>2, ReplayStays DEF ReplayInv
<1>3. CASE Worker \/ EmbedFails \/ LogFails
  BY <1>1, <1>2, <1>3, WorkerDisturbs, ReplayOver DEF ReplayInv
<1>4. CASE \E b \in Rebuilds : RbStart(b) \/ RbStep(b) \/ RbAbort(b)
  BY <1>1, <1>4, RebuildReplays DEF ReplayInv
<1>5. CASE Crash
  <2>1. \A b \in Rebuilds : rb'[b].st \notin {"clear", "rows"}
    <3> TAKE b \in Rebuilds
    <3>1. rb'[b] = IF rb[b].st \in {"read", "clear", "rows"} THEN [rb[b] EXCEPT !.st = "lost"] ELSE rb[b]
      BY <1>5 DEF Crash
    <3>2. rb[b] \in [st : RbSts, left : SUBSET Event, quiet : BOOLEAN]
      BY <1>1 DEF TypeInv, TypeOK
    <3> QED
      BY <3>1, <3>2
  <2> QED
    BY <1>1, <2>1, ReplayOver DEF ReplayInv
<1>6. CASE \E r \in Requests : Submit(r)
  BY <1>1, <1>2, <1>6 DEF Submit, durable, ReplayInv
<1>7. CASE Midnight \/ Reopen
  BY <1>1, <1>2, <1>7 DEF Midnight, Reopen, durable, ReplayInv
<1>8. CASE UNCHANGED vars
  BY <1>1, <1>2, <1>8 DEF vars, durable, ReplayInv
<1> QED
  BY <1>3, <1>4, <1>5, <1>6, <1>7, <1>8 DEF Next

LEMMA ReplayInitially == Init => ReplayInv
<1> SUFFICES ASSUME Init PROVE ReplayInv
  OBVIOUS
<1>1. \A b \in Rebuilds : rb[b].quiet = FALSE
  BY DEF Init, NoRebuild
<1> QED
  BY <1>1, InitTypes DEF ReplayInv, Replaying

(* A rebuild ends well in one way: with every event applied, the index     *)
(* made. Nothing else makes one of its rebuilds done.                      *)
LEMMA OnlyIndexEnds ==
  ASSUME TypeInv, [Next]_vars, NEW b \in Rebuilds, rb[b].st # "done", rb'[b].st = "done"
  PROVE  RbIndex(b)
<1>0. rb \in [Rebuilds -> [st : RbSts, left : SUBSET Event, quiet : BOOLEAN]]
  BY DEF TypeInv, TypeOK
<1>1. rb'[b].st # rb[b].st
  OBVIOUS
<1>2. ASSUME Disturb PROVE FALSE
  BY <1>0, <1>1, <1>2 DEF Disturb
<1>3. CASE Worker \/ EmbedFails \/ LogFails
  <2>1. CASE PutLine \/ CommitRow \/ TombLine \/ MarkRows
    BY <1>2, <2>1 DEF PutLine, CommitRow, TombLine, MarkRows
  <2>2. CASE TakeBatch \/ Validate \/ EmbedAndStamp \/ MatchLive \/ IndexBatch \/ LogTask \/ Resolve
    BY <1>1, <2>2 DEF TakeBatch, Validate, EmbedAndStamp, MatchLive, IndexBatch, LogTask, Resolve
  <2>3. CASE EmbedFails \/ LogFails
    BY <1>1, <2>3 DEF EmbedFails, LogFails
  <2> QED
    BY <1>3, <2>1, <2>2, <2>3 DEF Worker
<1>4. ASSUME NEW c \in Rebuilds, RbStart(c) \/ RbStep(c) \/ RbAbort(c)
      PROVE  RbIndex(b)
  <2>1. ASSUME NEW to \in RbSts \ {"done"}, RbGo(c, to) PROVE FALSE
    BY <1>0, <1>1, <2>1 DEF RbGo
  <2>2. ASSUME NEW e, RbApplied(c, e) PROVE FALSE
    <3>1. Alone(c) \in [Rebuilds -> [st : RbSts, left : SUBSET Event, quiet : BOOLEAN]] /\ Alone(c)[b].st = rb[b].st
      BY <1>0 DEF Alone
    <3>2. rb'[b].st = rb[b].st
      BY <2>2, <3>1 DEF RbApplied
    <3> QED
      BY <1>1, <3>2
  <2>3. CASE RbStart(c) \/ RbAbort(c)
    BY <2>1, <2>3 DEF RbStart, RbAbort, RbSts
  <2>4. CASE RbRead(c)
    <3>1. CASE RbGo(c, "failed")
      BY <2>1, <3>1 DEF RbSts
    <3>2. CASE rb' = [rb EXCEPT ![c] = [st |-> "clear", left |-> Events(files), quiet |-> TRUE]]
      BY <1>0, <1>1, <3>2
    <3> QED
      BY <2>4, <3>1, <3>2 DEF RbRead
  <2>5. CASE RbClear(c)
    <3>1. rb' = [Alone(c) EXCEPT ![c].st = "rows"]
      BY <2>5 DEF RbClear
    <3>2. Alone(c) \in [Rebuilds -> [st : RbSts, left : SUBSET Event, quiet : BOOLEAN]] /\ Alone(c)[b].st = rb[b].st
      BY <1>0 DEF Alone
    <3>3. rb'[b].st = rb[b].st \/ rb'[b].st = "rows"
      BY <3>1, <3>2
    <3> QED
      BY <1>1, <3>3
  <2>6. CASE RbRow(c)
    <3>1. PICK e : RbApplied(c, e) \/ RbGo(c, "failed")
      BY <2>6 DEF RbRow
    <3> QED
      BY <2>1, <2>2, <3>1 DEF RbSts
  <2>7. CASE RbMark(c)
    BY <2>2, <2>7 DEF RbMark
  <2>8. CASE RbIndex(c)
    <3>1. c = b
      BY <1>0, <1>1, <2>8 DEF RbIndex, RbGo
    <3> QED
      BY <2>8, <3>1
  <2> QED
    BY <1>4, <2>3, <2>4, <2>5, <2>6, <2>7, <2>8 DEF RbStep
<1>5. CASE Crash
  <2>1. rb'[b] = IF rb[b].st \in {"read", "clear", "rows"} THEN [rb[b] EXCEPT !.st = "lost"] ELSE rb[b]
    BY <1>5 DEF Crash
  <2>2. rb[b] \in [st : RbSts, left : SUBSET Event, quiet : BOOLEAN]
    BY <1>0
  <2> QED
    BY <1>1, <2>1, <2>2
<1>6. CASE (\E r \in Requests : Submit(r)) \/ Midnight \/ Reopen \/ UNCHANGED vars
  BY <1>1, <1>6 DEF Submit, Midnight, Reopen, vars
<1> QED
  BY <1>3, <1>4, <1>5, <1>6 DEF Next

LEMMA RestoreStep ==
  ASSUME ReplayInv, [Next]_vars
  PROVE  [\A b \in Rebuilds :
            rb[b].st # "done" /\ rb'[b].st = "done" /\ rb[b].quiet
              => IsReplay(duck', Events(files)) /\ fts' = DOMAIN duck']_vars
<1> SUFFICES ASSUME NEW b \in Rebuilds, rb[b].st # "done", rb'[b].st = "done", rb[b].quiet
             PROVE  IsReplay(duck', Events(files)) /\ fts' = DOMAIN duck'
  OBVIOUS
<1>1. RbIndex(b)
  BY OnlyIndexEnds DEF ReplayInv
<1>2. /\ rb[b].st = "rows" /\ rb[b].left = {} /\ duck' = duck /\ fts' = DOMAIN duck
  BY <1>1 DEF RbIndex
<1>3. Applied(b) = Events(files)
  BY <1>2 DEF Applied
<1>4. Says(duck, Events(files))
  BY <1>2, <1>3 DEF ReplayInv, Replaying
<1> QED
  BY <1>2, <1>4, SaysReplay

(* A rebuild that reports done, with files and table to itself since it    *)
(* read the files, has made the table and its index what the files say:    *)
(* AdminService's clear and replay restore the derived tier, whatever the  *)
(* crashes and tears before it left, for any rows, days and rebuilds.      *)
THEOREM RebuildsRestore == Spec => RebuildRestores
<1>1. Spec => []ReplayInv
  BY ReplayInitially, ReplayStep, PTL DEF Spec
<1> QED
  BY <1>1, RestoreStep, PTL DEF Spec, RebuildRestores
=============================================================================
