------------------------------ MODULE MCStream ------------------------------
(***************************************************************************)
(* Two streams into one table: one follows two files, the other a third.   *)
(* Each text has the lines some case needs, in as few files as it needs.   *)
(***************************************************************************)
EXTENDS Stream

CONSTANTS k1, k2, k3, one, other

Row(k)  == [kind |-> "row", key |-> k]
Odd(kd) == [kind |-> kd, key |-> k3]

MCTexts == {
  \* more than a batch holds, a blank line, a key in two files
  <<<<Row(k1), Odd("blank"), Row(k2)>>, <<Row(k1)>>, <<>>>>,
  \* both streams at work: whether one of them is refused its row depends on
  \* whether the other has brought that key first
  <<<<Row(k1)>>, <<>>, <<[kind |-> "refused", key |-> k1]>>>>,
  \* a batch DuckDB refuses half-way
  <<<<Row(k1), Odd("refused"), Row(k2)>>, <<>>, <<>>>>,
  \* a line that holds up both files; one the chain drops, and one that holds
  \* up its own file
  <<<<Row(k1)>>, <<Odd("bad"), Row(k2)>>, <<>>>>,
  <<<<Odd("void"), Odd("bare"), Row(k2)>>, <<Row(k3)>>, <<>>>> }

MCWatched == [s \in {one, other} |-> IF s = one THEN {1, 2} ELSE {3}]
=============================================================================
