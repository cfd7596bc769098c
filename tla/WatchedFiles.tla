---------------------------- MODULE WatchedFiles ----------------------------
(***************************************************************************)
(* The files a stream follows: what their writers put into them, line by   *)
(* line.  Files only grow.  A line counts once its newline is there; a     *)
(* half-written one is a line still to come.  Files are numbered in the    *)
(* order the sorted glob gives them, and an offset counts whole lines:     *)
(* the byte offsets of the code only ever stand at the end of one.         *)
(***************************************************************************)
EXTENDS Naturals, Sequences

CONSTANTS NFiles,  \* how many files there are
          Texts,   \* the lines they may come to have
          Keys     \* primary keys of the table they are ingested into

VARIABLES text,    \* the lines they will have had in the end
          written  \* how many of them are there

files == <<text, written>>

Files == 1..NFiles

(* What becomes of a line: "row" a row of the table, "blank" nothing,      *)
(* "void" nothing either, the bash middles drop it, "bad" an error before  *)
(* any row of its batch is stored (no JSON object, an unknown column),     *)
(* "refused" a row DuckDB does not take, "bare" a line with a carriage     *)
(* return that is not followed by the newline.                             *)
Kinds == {"row", "blank", "void", "bad", "refused", "bare"}

ASSUME TextAssumption ==
  /\ NFiles \in Nat
  /\ Texts \subseteq [Files -> Seq([kind : Kinds, key : Keys])]

Lines == UNION {{f} \X (1..Len(text[f])) : f \in Files}

Kind(l) == text[l[1]][l[2]].kind
Key(l)  == text[l[1]][l[2]].key

Keyed(l) == Kind(l) \in {"row", "refused"}

InitFiles == text \in Texts /\ written = [f \in Files |-> 0]

(* A file's writer completes a line. *)
Grow(f) ==
  /\ written[f] < Len(text[f])
  /\ written' = [written EXCEPT ![f] = @ + 1]
  /\ UNCHANGED text

(* The order in which lines are read. *)
Before(l, m) == l[1] < m[1] \/ (l[1] = m[1] /\ l[2] < m[2])

Earlier(l, m) == l[1] = m[1] /\ l[2] < m[2]

(* The table: which line each key's row is from. *)
NoRows == [k \in {} |-> <<1, 1>>]

KeysOf(L) == {Key(l) : l \in L}

AddRows(table, L) ==
  [k \in DOMAIN table \cup KeysOf(L) |->
     IF k \in DOMAIN table THEN table[k] ELSE CHOOSE l \in L : Key(l) = k]
=============================================================================
