----------------------------- MODULE TimeTable ------------------------------
(***************************************************************************)
(* What one table promises its users, without files, workers or crashes    *)
(* (docs/works/time_machine.md): a key is written once, its row may later  *)
(* be marked deleted once, and every change carries the day stamped on it. *)
(* Changes are made under a stamp: Open takes the present day as a stamp,  *)
(* and the stamp stays open until Settle, possibly past midnight.          *)
(***************************************************************************)
EXTENDS DuckTable

VARIABLES tbl,      \* the rows
          day,      \* the calendar day
          open      \* the stamp of the change under way: {} or {day}

vars == <<tbl, day, open>>

Init == tbl = EmptyTable /\ day = 1 /\ open = {}

Open == open = {} /\ open' = {day} /\ UNCHANGED <<tbl, day>>

Add(k, v) ==
  \E d \in open :
    /\ Accepts(tbl, k, v)
    /\ tbl' = InsertRow(tbl, k, v, d)
    /\ open' \in {open, {}}
    /\ UNCHANGED day

Remove(K) ==
  \E d \in open :
    /\ tbl' = SoftDelete(tbl, K, d)
    /\ open' \in {open, {}}
    /\ UNCHANGED day

Settle == open' = {} /\ UNCHANGED <<tbl, day>>

Midnight == day < MaxDay /\ day' = day + 1 /\ UNCHANGED <<tbl, open>>

Next == \/ Open
        \/ \E k \in Keys, v \in Vals : Add(k, v)
        \/ \E K \in SUBSET Keys : Remove(K)
        \/ Settle
        \/ Midnight

Spec == Init /\ [][Next]_vars

-----------------------------------------------------------------------------
(* One well-formed row a key, at most one change under way.                *)
TypeOK == tbl \in Table /\ day \in Days /\ open \in {{}} \cup {{d} : d \in 1..day}

(* Every row is created no later than any stamp still open or yet to come, *)
(* and never deleted before it was created.                                *)
Lifetimes ==
  \A k \in DOMAIN tbl :
    /\ tbl[k].ds <= day
    /\ \A d \in open : tbl[k].ds <= d
    /\ tbl[k].del # NULL => tbl[k].ds <= tbl[k].del /\ tbl[k].del <= day

(* A past day's snapshot is settled: once no change stamped on or before   *)
(* day d is under way, nothing alters what a query as of d returns.        *)
PastIsSettled ==
  [][\A d \in Days : d < day /\ (\A e \in open : d < e)
        => SnapshotAt(tbl', d) = SnapshotAt(tbl, d)]_vars
=============================================================================
