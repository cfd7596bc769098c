------------------------------ MODULE SeekData ------------------------------
(***************************************************************************)
(* The data every module of the storage side talks about: the primary keys *)
(* and row bodies of one table, and the days (ds) events are stamped with. *)
(* Tables do not share state, so one table stands for each of them.        *)
(***************************************************************************)
EXTENDS Naturals

CONSTANTS Keys,      \* primary keys (the code compares them as text)
          Vals,      \* row bodies: every business column but the key
          MaxDay     \* last day of the run

ASSUME MaxDayAssumption == MaxDay \in Nat \ {0}

Days == 1..MaxDay
=============================================================================
