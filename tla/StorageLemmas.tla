---------------------------- MODULE StorageLemmas ---------------------------
(***************************************************************************)
(* What the operators of the file mirror and of the table preserve, for    *)
(* the proofs about the modules built from them.                           *)
(***************************************************************************)
EXTENDS FileMirror, DuckTable, TLAPS, SequenceTheorems

(* Adding a row or marking rows deleted turns a table into a table: the    *)
(* INSERT and UPDATE of store_service.py keep one well-formed row a key.   *)
LEMMA InsertRowTable ==
  ASSUME NEW T \in Table, NEW k \in Keys, NEW v \in Vals, NEW d \in Days
  PROVE  /\ InsertRow(T, k, v, d) \in Table
         /\ \A x : x \in DOMAIN InsertRow(T, k, v, d) <=> x = k \/ x \in DOMAIN T
         /\ InsertRow(T, k, v, d)[k] = [val |-> v, ds |-> d, del |-> NULL]
         /\ \A x \in DOMAIN T : x # k => InsertRow(T, k, v, d)[x] = T[x]
<1>1. PICK K \in SUBSET Keys : T \in [K -> Row]
  BY DEF Table
<1>2. NULL \in 0..MaxDay
  BY MaxDayAssumption DEF NULL
<1>3. [val |-> v, ds |-> d, del |-> NULL] \in Row
  BY <1>2 DEF Row
<1>4. InsertRow(T, k, v, d) \in [K \cup {k} -> Row]
  BY <1>1, <1>3 DEF InsertRow
<1>5. K \cup {k} \in SUBSET Keys
  OBVIOUS
<1> QED
  BY <1>1, <1>4, <1>5 DEF Table, InsertRow

(* soft_delete gives a table with the same keys, bodies and days of        *)
(* insert, and marks only live rows among the keys it is given.            *)
LEMMA SoftDeleteTable ==
  ASSUME NEW T \in Table, NEW K, NEW d \in Days
  PROVE  /\ SoftDelete(T, K, d) \in Table
         /\ DOMAIN SoftDelete(T, K, d) = DOMAIN T
         /\ \A x \in DOMAIN T :
              /\ T[x] \in Row
              /\ SoftDelete(T, K, d)[x].val = T[x].val
              /\ SoftDelete(T, K, d)[x].ds = T[x].ds
              /\ SoftDelete(T, K, d)[x].del
                   = IF x \in K /\ T[x].del = NULL THEN d ELSE T[x].del
<1>1. PICK D \in SUBSET Keys : T \in [D -> Row]
  BY DEF Table
<1>2. \A x \in D : [T[x] EXCEPT !.del = d] \in Row
  BY <1>1 DEF Row, Days
<1>3. SoftDelete(T, K, d) \in [D -> Row]
  BY <1>1, <1>2 DEF SoftDelete
<1>4. \A x \in D : /\ [T[x] EXCEPT !.del = d].val = T[x].val
                   /\ [T[x] EXCEPT !.del = d].ds = T[x].ds
                   /\ [T[x] EXCEPT !.del = d].del = d
  BY <1>1 DEF Row
<1> QED
  BY <1>1, <1>3, <1>4 DEF Table, SoftDelete

(* The empty table is a table. *)
LEMMA EmptyTableTable == EmptyTable \in Table /\ DOMAIN EmptyTable = {}
<1>1. EmptyTable \in [{} -> Row]
  BY DEF EmptyTable
<1> QED
  BY <1>1 DEF Table, EmptyTable

(* Two tables a query as of d cannot tell apart give it the same rows.     *)
LEMMA SameSnapshot ==
  ASSUME NEW T \in Table, NEW U \in Table, NEW d \in Days,
         \A k \in Keys :
           /\ (k \in DOMAIN T /\ AsOfEnd(T[k], d)) <=> (k \in DOMAIN U /\ AsOfEnd(U[k], d))
           /\ k \in DOMAIN T /\ AsOfEnd(T[k], d) => T[k].val = U[k].val
  PROVE  SnapshotAt(U, d) = SnapshotAt(T, d)
<1>1. DOMAIN T \subseteq Keys /\ DOMAIN U \subseteq Keys
  BY DEF Table
<1>2. Visible(U, NULL, d) = Visible(T, NULL, d)
  BY <1>1 DEF Visible
<1>3. \A k \in Visible(T, NULL, d) : T[k].val = U[k].val
  BY <1>1 DEF Visible
<1> QED
  BY <1>2, <1>3 DEF SnapshotAt

(* A change stamped after day d does not show in the snapshot of d.        *)
LEMMA InsertKeepsPast ==
  ASSUME NEW T \in Table, NEW k \in Keys, NEW v \in Vals, NEW e \in Days, NEW d \in Days,
         d < e, Accepts(T, k, v)
  PROVE  SnapshotAt(InsertRow(T, k, v, e), d) = SnapshotAt(T, d)
<1> DEFINE U == InsertRow(T, k, v, e)
<1>1. /\ U \in Table
      /\ \A x : x \in DOMAIN U <=> x = k \/ x \in DOMAIN T
      /\ U[k] = [val |-> v, ds |-> e, del |-> NULL]
      /\ \A x \in DOMAIN T : x # k => U[x] = T[x]
  BY InsertRowTable
<1>2. k \notin DOMAIN T
  BY DEF Accepts
<1> HIDE DEF U
<1>3. ~AsOfEnd(U[k], d)
  BY <1>1, MaxDayAssumption DEF AsOfEnd, NULL, Days
<1> QED
  BY <1>1, <1>2, <1>3, SameSnapshot DEF U

(* A deletion stamped after day d leaves what a query as of d returns.     *)
LEMMA DeleteKeepsPast ==
  ASSUME NEW T \in Table, NEW K, NEW e \in Days, NEW d \in Days, d < e
  PROVE  SnapshotAt(SoftDelete(T, K, e), d) = SnapshotAt(T, d)
<1> DEFINE U == SoftDelete(T, K, e)
<1>1. /\ U \in Table /\ DOMAIN U = DOMAIN T
      /\ \A x \in DOMAIN T :
           /\ T[x] \in Row /\ U[x].val = T[x].val /\ U[x].ds = T[x].ds
           /\ U[x].del = IF x \in K /\ T[x].del = NULL THEN e ELSE T[x].del
  BY SoftDeleteTable
<1> HIDE DEF U
<1>2. \A x \in DOMAIN T : AsOfEnd(U[x], d) <=> AsOfEnd(T[x], d)
  BY <1>1, MaxDayAssumption DEF AsOfEnd, NULL, Days, Row
<1> QED
  BY <1>1, <1>2, SameSnapshot DEF U

-----------------------------------------------------------------------------
(* Appending a piece to one day's file (FileService._append), on a line of *)
(* its own or at the end of the last line: what was there stays, the piece *)
(* is there, and the file has a line.                                      *)
LEMMA NewLineRecords ==
  ASSUME NEW file \in Seq(Seq(Pieces)), NEW piece \in Pieces
  PROVE  /\ NewLine(file, piece) \in Seq(Seq(Pieces))
         /\ Len(NewLine(file, piece)) > 0
         /\ Written(NewLine(file, piece), piece)
         /\ \A rec : Written(file, rec) => Written(NewLine(file, piece), rec)
<1> DEFINE n == Len(file)
           new == NewLine(file, piece)
<1>0. n \in Nat
  OBVIOUS
<1>1. <<piece>> \in Seq(Pieces) /\ Len(<<piece>>) = 1 /\ <<piece>>[1] = piece
  OBVIOUS
<1>2. /\ new \in Seq(Seq(Pieces))
      /\ Len(new) = n + 1
      /\ \A i \in 1..n : new[i] = file[i]
      /\ new[n + 1] = <<piece>>
  BY <1>1, AppendProperties DEF NewLine
<1> HIDE DEF new
<1>3. Written(new, piece)
  <2>1. n + 1 \in 1..Len(new) /\ 1 \in 1..Len(new[n + 1]) /\ new[n + 1][1] = piece
    BY <1>0, <1>1, <1>2
  <2> QED
    BY <2>1 DEF Written
<1>4. ASSUME NEW rec, Written(file, rec) PROVE Written(new, rec)
  <2>1. PICK i \in 1..n : \E j \in 1..Len(file[i]) : file[i][j] = rec
    BY <1>4 DEF Written
  <2>2. i \in 1..Len(new) /\ new[i] = file[i]
    BY <1>0, <1>2
  <2> QED
    BY <2>1, <2>2 DEF Written
<1> QED
  BY <1>0, <1>2, <1>3, <1>4 DEF new

(* Lengthening the last line of a file keeps every record written in it.   *)
LEMMA LengthenRecords ==
  ASSUME NEW file \in Seq(Seq(Pieces)), NEW piece \in Pieces, Len(file) > 0
  PROVE  /\ Lengthen(file, piece) \in Seq(Seq(Pieces))
         /\ Len(Lengthen(file, piece)) > 0
         /\ Written(Lengthen(file, piece), piece)
         /\ \A rec : Written(file, rec) => Written(Lengthen(file, piece), rec)
<1> DEFINE n == Len(file)
           new == Lengthen(file, piece)
           line == Append(file[n], piece)
<1>1. n \in Nat /\ n > 0 /\ n \in 1..n /\ file[n] \in Seq(Pieces)
  OBVIOUS
<1>2. /\ line \in Seq(Pieces)
      /\ Len(line) = Len(file[n]) + 1
      /\ \A j \in 1..Len(file[n]) : line[j] = file[n][j]
      /\ line[Len(file[n]) + 1] = piece
  BY <1>1, AppendProperties
<1>3. /\ new \in Seq(Seq(Pieces))
      /\ Len(new) = n
      /\ \A i \in 1..n : new[i] = IF i = n THEN line ELSE file[i]
  BY <1>1, <1>2, ExceptSeq DEF Lengthen
<1>4. Len(file[n]) \in Nat
  BY <1>1
<1> HIDE DEF n, line, new
<1>5. Written(new, piece)
  <2>1. new[n] = line /\ n \in 1..Len(new)
    BY <1>1, <1>3
  <2>2. Len(file[n]) + 1 \in 1..Len(new[n]) /\ new[n][Len(file[n]) + 1] = piece
    BY <1>2, <1>4, <2>1
  <2> QED
    BY <2>1, <2>2 DEF Written
<1>6. ASSUME NEW rec, Written(file, rec) PROVE Written(new, rec)
  <2>1. PICK i \in 1..n : \E j \in 1..Len(file[i]) : file[i][j] = rec
    BY <1>6 DEF Written, n
  <2>2. i \in 1..Len(new)
    BY <1>3
  <2>3. \E j \in 1..Len(new[i]) : new[i][j] = rec
    <3>1. CASE i # n
      BY <1>3, <2>1, <3>1
    <3>2. CASE i = n
      <4>1. new[i] = line
        BY <1>3, <3>2
      <4>2. PICK j \in 1..Len(file[n]) : file[n][j] = rec
        BY <2>1, <3>2
      <4>3. j \in 1..Len(line) /\ line[j] = rec
        BY <1>2, <1>4, <4>2
      <4> QED
        BY <4>1, <4>3
    <3> QED
      BY <3>1, <3>2
  <2> QED
    BY <2>2, <2>3 DEF Written
<1> QED
  BY <1>1, <1>3, <1>5, <1>6 DEF new

(* An append records its piece and forgets nothing that was recorded.      *)
LEMMA AppendRecords ==
  ASSUME NEW F \in Mirror, NEW U \in SUBSET Days, NEW d \in Days, NEW piece \in Pieces,
         \A e \in U : Len(F[e]) > 0
  PROVE  /\ AppendPiece(F, U, d, piece) \in Mirror
         /\ \A e \in U \cup {d} : Len(AppendPiece(F, U, d, piece)[e]) > 0
         /\ Recorded(AppendPiece(F, U, d, piece), d, piece)
         /\ \A e \in Days : \A rec :
              Recorded(F, e, rec) => Recorded(AppendPiece(F, U, d, piece), e, rec)
<1> DEFINE G == AppendPiece(F, U, d, piece)
           file == IF d \in U THEN Lengthen(F[d], piece) ELSE NewLine(F[d], piece)
<1>1. F[d] \in Seq(Seq(Pieces))
  BY DEF Mirror
<1>2. /\ file \in Seq(Seq(Pieces))
      /\ Len(file) > 0
      /\ Written(file, piece)
      /\ \A rec : Written(F[d], rec) => Written(file, rec)
  BY <1>1, NewLineRecords, LengthenRecords
<1>3. G = [F EXCEPT ![d] = file]
  BY DEF AppendPiece
<1> HIDE DEF G, file
<1>4. G \in Mirror /\ G[d] = file /\ \A e \in Days \ {d} : G[e] = F[e]
  BY <1>2, <1>3 DEF Mirror
<1>5. Recorded(G, d, piece)
  BY <1>2, <1>4 DEF Recorded
<1>6. \A e \in Days : \A rec : Recorded(F, e, rec) => Recorded(G, e, rec)
  BY <1>2, <1>4 DEF Recorded
<1>7. \A e \in U \cup {d} : Len(G[e]) > 0
  BY <1>2, <1>4
<1> QED
  BY <1>4, <1>5, <1>6, <1>7 DEF G

(* Every event iter_events yields is a record that is in the files, under  *)
(* the day it carries.                                                     *)
LEMMA EventsRecorded ==
  ASSUME NEW F \in Mirror
  PROVE  /\ Events(F) \subseteq Event
         /\ \A e \in Events(F) : Recorded(F, e.day, e.rec)
<1> SUFFICES ASSUME NEW e \in Events(F) PROVE e \in Event /\ Recorded(F, e.day, e.rec)
  OBVIOUS
<1>1. PICK d \in Days : e \in EventsOfDay(F, d)
  BY DEF Events
<1>2. PICK i \in 1..Len(F[d]) :
        Readable(F[d][i]) /\ e = [day |-> d, pos |-> i, rec |-> F[d][i][1]]
  BY <1>1 DEF EventsOfDay
<1>3. 1 \in 1..Len(F[d][i]) /\ F[d][i][1] \in Records
  BY <1>2 DEF Readable
<1>4. i \in Nat \ {0}
  OBVIOUS
<1> QED
  BY <1>2, <1>3, <1>4 DEF Event, Recorded, Written
=============================================================================
