----------------------------- MODULE MCWritePath ----------------------------
(***************************************************************************)
(* The write path without rebuilds: batches of inserts, idempotent inserts *)
(* and deletes that meet each other on two keys, across a midnight, a      *)
(* crash that may tear a line, a failing embedder and a failing task log.  *)
(***************************************************************************)
EXTENDS WritePath

CONSTANTS k1, k2, v1, v2, bad

Row1(k, v) == [key |-> k, val |-> v]

Ins(rows, s) == [kind |-> "insert", rows |-> rows, skip |-> s]
Del(K)       == [kind |-> "delete", keys |-> K]

MCOp == [pair  |-> Ins(<<Row1(k1, v1), Row1(k2, v1)>>, FALSE),
         again |-> Ins(<<Row1(k2, v2), Row1(k2, v1), Row1(k1, v2)>>, TRUE),
         drop  |-> Del({k1, k2}),
         mixed |-> Ins(<<Row1(k1, v2), Row1(k2, bad)>>, FALSE)]
MCRequests == DOMAIN MCOp
=============================================================================
