---------------------------- MODULE PipelineText ----------------------------
(***************************************************************************)
(* How the text of a pipeline is read: cut at its bars, its placeholders   *)
(* counted, an operator's arguments split.  A text is a sequence of        *)
(* blanks, quotes, bars, question marks, semicolons and words.             *)
(***************************************************************************)
EXTENDS Naturals, Sequences, FiniteSets, SequencesExt

Quotes == {"'", "\""}
Marks  == Quotes \cup {"|", "?", " ", ";"}

IsWord(c) == c \notin Marks

Twice(t, i) == i < Len(t) /\ t[i + 1] = t[i]

(* A bug to rule out: a doubled quote ends the literal, and the second one *)
(* is passed over.                                                         *)
CutRowHalf(t, i, x, y) ==
  [q \in Quotes \cup {""} |->
     IF i > Len(t) THEN {}
     ELSE IF q # "" THEN IF t[i] # q THEN x[q] ELSE IF Twice(t, i) THEN y[""] ELSE x[""]
     ELSE IF t[i] \in Quotes THEN x[t[i]]
     ELSE IF t[i] # "|" THEN x[""]
     ELSE IF Twice(t, i) THEN y[""] ELSE {i} \cup x[""]]

(* The bars from position i on, by the literal it is in, when x are those  *)
(* from the next position on and y those from the one after.  A doubled    *)
(* quote does not end a literal, and two bars are SQL's concatenation.     *)
CutRow(t, i, x, y) ==
  [q \in Quotes \cup {""} |->
     IF i > Len(t) THEN {}
     ELSE IF q # "" THEN IF t[i] # q THEN x[q] ELSE IF Twice(t, i) THEN y[q] ELSE x[""]
     ELSE IF t[i] \in Quotes THEN x[t[i]]
     ELSE IF t[i] # "|" THEN x[""]
     ELSE IF Twice(t, i) THEN y[""] ELSE {i} \cup x[""]]

(* split_pipeline: the bars the text is cut at. *)
Cuts(t) ==
  LET from[i \in 1..(Len(t) + 2)] == CutRow(t, i, from[i + 1], from[i + 2])
  IN  from[1][""]

(* A text without the blanks around it. *)
Strip(t) ==
  LET solid == {i \in 1..Len(t) : t[i] # " "}
  IN  IF solid = {} THEN <<>>
      ELSE SubSeq(t, CHOOSE i \in solid : \A j \in solid : i <= j,
                     CHOOSE i \in solid : \A j \in solid : i >= j)

(* Its segments.  One that is empty makes the text no pipeline. *)
Split(t) ==
  LET cuts == Cuts(t)
      n == Cardinality(cuts)
      bar(k) == CHOOSE i \in cuts : Cardinality({j \in cuts : j <= i}) = k
      lo(k) == IF k = 1 THEN 1 ELSE bar(k - 1) + 1
      hi(k) == IF k > n THEN Len(t) ELSE bar(k) - 1
  IN  [k \in 1..(n + 1) |-> Strip(SubSeq(t, lo(k), hi(k)))]

(* _count_placeholders: a scanner of its own, with the same idea of what a *)
(* literal is.                                                             *)
MarkRow(t, i, x, y) ==
  [q \in Quotes \cup {""} |->
     IF i > Len(t) THEN {}
     ELSE IF q # "" THEN IF t[i] # q THEN x[q] ELSE IF Twice(t, i) THEN y[q] ELSE x[""]
     ELSE IF t[i] \in Quotes THEN x[t[i]]
     ELSE (IF t[i] = "?" THEN {i} ELSE {}) \cup x[""]]

Placeholders(t) ==
  LET from[i \in 1..(Len(t) + 2)] == MarkRow(t, i, from[i + 1], from[i + 2])
  IN  from[1][""]

NeedOf(t) == Cardinality(Placeholders(t))

(* _LEAD: the word a segment starts with, if it does. *)
Lead(seg) == IF seg # <<>> /\ IsWord(seg[1]) THEN seg[1] ELSE ""

(* split_args (shlex): arguments are separated by blanks, quotes group,    *)
(* and what stands next to each other is one argument.                     *)
Shell(t) ==
  LET after[i \in 0..Len(t)] ==
        IF i = 0 THEN [words |-> <<>>, cur |-> <<>>, on |-> FALSE, q |-> ""]
        ELSE LET s == after[i - 1]
                 c == t[i]
             IN  CASE s.q # "" /\ c = s.q -> [s EXCEPT !.q = ""]
                   [] s.q = "" /\ c \in Quotes -> [s EXCEPT !.q = c, !.on = TRUE]
                   [] s.q = "" /\ c = " " ->
                        IF s.on THEN [s EXCEPT !.words = Append(@, s.cur), !.cur = <<>>, !.on = FALSE]
                        ELSE s
                   [] OTHER -> [s EXCEPT !.cur = Append(@, c), !.on = TRUE]
  IN  after[Len(t)]

ShellOK(t) == Shell(t).q = ""

ShellWords(t) == LET s == Shell(t) IN IF s.on THEN Append(s.words, s.cur) ELSE s.words

-----------------------------------------------------------------------------
(* What the scanners are to find, by the position alone. *)

(* The literal each position is in.  Two quotes that close one literal and *)
(* open the next come to the same as a doubled quote inside one.           *)
InLiteral(t) ==
  LET before[i \in 1..(Len(t) + 1)] ==
        IF i = 1 THEN ""
        ELSE LET q == before[i - 1]
             IN  IF q = "" /\ t[i - 1] \in Quotes THEN t[i - 1]
                 ELSE IF t[i - 1] = q THEN "" ELSE q
  IN  before

(* The last bar of an odd number of bars in a row, outside a literal. *)
TrueCuts(t) ==
  {i \in 1..Len(t) :
     /\ t[i] = "|" /\ ~Twice(t, i) /\ InLiteral(t)[i] = ""
     /\ Cardinality({j \in 1..i : \A k \in j..i : t[k] = "|"}) % 2 = 1}

TruePlaceholders(t) == {i \in 1..Len(t) : t[i] = "?" /\ InLiteral(t)[i] = ""}
=============================================================================
