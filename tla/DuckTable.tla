----------------------------- MODULE DuckTable ------------------------------
(***************************************************************************)
(* The derived tier of one table (service/store_service.py): the physical  *)
(* DuckDB table, one row per primary key, with its time-machine columns.   *)
(* The operators are the store's write primitives and its one visibility   *)
(* predicate; the modules that extend this one call them where the         *)
(* services call the primitives.                                           *)
(***************************************************************************)
EXTENDS SeekData

CONSTANT Refused     \* bodies DuckDB's INSERT rejects (a value that does not
                     \* convert to the column type, a NULL key)

ASSUME RefusedAssumption == Refused \subseteq Vals

-----------------------------------------------------------------------------
(* ds is the day of the insert, del the day of the soft delete and NULL    *)
(* (here 0) while the row is live.                                         *)

NULL == 0
Row  == [val : Vals, ds : Days, del : 0..MaxDay]

(* A table maps the keys it holds to their rows: PRIMARY KEY in the DDL.   *)
Table == UNION {[K -> Row] : K \in SUBSET Keys}

EmptyTable == [k \in {} |-> NULL]

(* INSERT: refused for a key the table holds, soft-deleted or not, and for *)
(* a body that does not convert.                                           *)
Accepts(tbl, k, v) == k \notin DOMAIN tbl /\ v \notin Refused

(* Bugs to rule out: the day is not stamped; it is stamped a day ahead (a  *)
(* local clock for a UTC one).                                             *)
InsertUnstamped(tbl, k, v, d) ==
  [x \in DOMAIN tbl \cup {k} |->
     IF x = k THEN [val |-> v, ds |-> NULL, del |-> NULL] ELSE tbl[x]]
InsertAhead(tbl, k, v, d) ==
  [x \in DOMAIN tbl \cup {k} |->
     IF x = k THEN [val |-> v, ds |-> d + 1, del |-> NULL] ELSE tbl[x]]

InsertRow(tbl, k, v, d) ==
  [x \in DOMAIN tbl \cup {k} |->
     IF x = k THEN [val |-> v, ds |-> d, del |-> NULL] ELSE tbl[x]]

(* A bug to rule out: a row deleted before is marked deleted again.        *)
SoftDeleteAgain(tbl, K, d) ==
  [x \in DOMAIN tbl |-> IF x \in K THEN [tbl[x] EXCEPT !.del = d] ELSE tbl[x]]

(* UPDATE ... SET deleted_ds = d WHERE pk IN K AND deleted_ds IS NULL      *)
SoftDelete(tbl, K, d) ==
  [x \in DOMAIN tbl |->
     IF x \in K /\ tbl[x].del = NULL THEN [tbl[x] EXCEPT !.del = d] ELSE tbl[x]]

-----------------------------------------------------------------------------
(* Visibility: _asof_conds(ds_start, ds_end), NULL for a bound not given.  *)

AsOfEnd(row, end) ==
  IF end = NULL THEN row.del = NULL
                ELSE row.ds <= end /\ (row.del = NULL \/ row.del > end)

Visible(tbl, start, end) ==
  {k \in DOMAIN tbl : AsOfEnd(tbl[k], end) /\ (start # NULL => tbl[k].ds >= start)}

Live(tbl) == Visible(tbl, NULL, NULL)

(* What a query as of day d sees of the business columns.                  *)
SnapshotAt(tbl, d) == [k \in Visible(tbl, NULL, d) |-> tbl[k].val]
=============================================================================
