------------------------------ MODULE Delivery ------------------------------
(***************************************************************************)
(* What ingestion promises (docs/works/pipeline-streaming.md section 7):   *)
(* effectively once.  Rows of the files arrive in the table, each key once *)
(* and from the first line of a file that has it, no line of a file before *)
(* the ones above it, and nothing from below a line that cannot be read or *)
(* stored.  Offsets, batches, checkpoints, replays and crashes are not     *)
(* seen here, but lines that are lost to a middle are.                     *)
(***************************************************************************)
EXTENDS WatchedFiles

VARIABLES table,    \* key -> the line its row is from
          lost,     \* lines a failing middle has swallowed
          promised  \* files whose every other row is to arrive

vars == <<files, table, lost, promised>>

Init == InitFiles /\ table = NoRows /\ lost = {} /\ promised \subseteq Files

Ripe(l, K) ==
  \A m \in Lines \ lost : Earlier(m, l) =>
    /\ Kind(m) \notin {"bad", "bare"}
    /\ Keyed(m) => Key(m) \in K

(* Rows the table can still take. *)
Due ==
  {l \in Lines :
     /\ Kind(l) = "row" /\ l[2] <= written[l[1]] /\ Key(l) \notin DOMAIN table
     /\ \A m \in Lines \ lost : Earlier(m, l) /\ Keyed(m) => Key(m) # Key(l)}

(* Some of them arrive together. *)
Deliver(L) ==
  /\ \A l \in L : Ripe(l, DOMAIN table \cup KeysOf(L)) /\ \A m \in L : Key(m) = Key(l) => m = l
  /\ table' = AddRows(table, L)
  /\ UNCHANGED <<files, lost, promised>>

DeliverFrom(f) == \E L \in SUBSET Due : (\E l \in L \ lost : l[1] = f) /\ Deliver(L)

Lose == lost \subseteq lost' /\ UNCHANGED <<files, table, promised>>

Next == Lose \/ (\E f \in Files : Grow(f) /\ UNCHANGED <<table, lost, promised>>) \/ (\E L \in SUBSET Due : Deliver(L))

Spec == Init /\ [][Next]_vars /\ \A f \in Files : f \in promised => WF_vars(DeliverFrom(f))
=============================================================================
