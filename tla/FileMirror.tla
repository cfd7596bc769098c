----------------------------- MODULE FileMirror -----------------------------
(***************************************************************************)
(* The canonical file tier of one table (service/file_service.py): one     *)
(* append-only JSONL file per day, one line per event.  A put line holds   *)
(* a whole row, a tombstone line holds a deleted key.  The module is the   *)
(* data of that tier and the two things the program does with it: append   *)
(* a line, and read every event back in replay order.                      *)
(*                                                                         *)
(* A line is the sequence of pieces that ended up between two newlines.    *)
(* A line written in full is one record.  A process that dies inside an    *)
(* append leaves a last line with no newline, holding a prefix of the      *)
(* record or the record without its newline; _append opens the file in     *)
(* mode "a" and never looks at that tail, so the next append of that day   *)
(* lengthens the same line.                                                *)
(***************************************************************************)
EXTENDS SeekData, Sequences

-----------------------------------------------------------------------------
(* Records and lines *)

Put(k, v) == [t |-> "put", key |-> k, val |-> v]
Tomb(k)   == [t |-> "tomb", key |-> k]

(* What a dying append can leave of a record that is not the record:       *)
(* "cut" is a prefix that decodes as text, "cutchar" one that ends inside  *)
(* a multi-byte character (lines are written with ensure_ascii=False).     *)
Stumps == {[t |-> "cut"], [t |-> "cutchar"]}

Puts    == {Put(k, v) : k \in Keys, v \in Vals}
Tombs   == {Tomb(k) : k \in Keys}
Records == Puts \cup Tombs
Pieces  == Records \cup Stumps

Mirror == [Days -> Seq(Seq(Pieces))]

NoFiles == [d \in Days |-> <<>>]

-----------------------------------------------------------------------------
(* Appending.  "unended" is the set of days whose file ends without a      *)
(* newline.                                                                *)

NewLine(file, piece)  == Append(file, <<piece>>)
Lengthen(file, piece) == [file EXCEPT ![Len(file)] = Append(@, piece)]

AppendPiece(files, unended, d, piece) ==
  [files EXCEPT ![d] = IF d \in unended THEN Lengthen(@, piece) ELSE NewLine(@, piece)]

-----------------------------------------------------------------------------
(* Reading back.  iter_events parses each line on its own: a line that is  *)
(* exactly one record is an event, anything else is skipped.  A line that  *)
(* ends inside a character cannot even be decoded, and the read raises.    *)

Readable(line) == Len(line) = 1 /\ line[1] \in Records

EventsOfDay(files, d) ==
  {[day |-> d, pos |-> i, rec |-> files[d][i][1]] :
     i \in {j \in 1..Len(files[d]) : Readable(files[d][j])}}

Events(files) == UNION {EventsOfDay(files, d) : d \in Days}

Event == [day : Days, pos : Nat \ {0}, rec : Records]

Undecodable(files) ==
  \E d \in Days : \E i \in 1..Len(files[d]) : \E j \in 1..Len(files[d][i]) :
     files[d][i][j] = [t |-> "cutchar"]

(* Replay order: by day, then by line. *)
Before(e, f) == e.day < f.day \/ (e.day = f.day /\ e.pos < f.pos)

First(E) == {e \in E : \A f \in E : e = f \/ Before(e, f)}

PutsOf(E)  == {e \in E : e.rec \in Puts}
TombsOf(E) == {e \in E : e.rec \in Tombs}

(* The bytes of rec are in a file, whether or not the line they are in can *)
(* be parsed; in the file of day d.                                        *)
Written(file, rec) ==
  \E i \in 1..Len(file) : \E j \in 1..Len(file[i]) : file[i][j] = rec

Recorded(files, d, rec) == Written(files[d], rec)
=============================================================================
