------------------------------ MODULE MCRebuild -----------------------------
(***************************************************************************)
(* The write path with rebuilds beside the worker.                         *)
(***************************************************************************)
EXTENDS WritePath

CONSTANTS k1, k2, v1, v2, bad, b1

Row1(k, v) == [key |-> k, val |-> v]

Ins(rows, s) == [kind |-> "insert", rows |-> rows, skip |-> s]
Del(K)       == [kind |-> "delete", keys |-> K]

(* An insert, its idempotent retry with a second row, and a delete.        *)
MCOp == [one   |-> Ins(<<Row1(k1, v1)>>, FALSE),
         retry |-> Ins(<<Row1(k1, v2), Row1(k2, v2)>>, TRUE),
         drop  |-> Del({k1})]
MCRequests == DOMAIN MCOp

(* An insert with a value that does not convert, for the run that shows    *)
(* what it does to a later rebuild.                                        *)
BadOp == [one |-> Ins(<<Row1(k1, v1)>>, FALSE), wrong |-> Ins(<<Row1(k2, bad)>>, FALSE)]
BadRequests == DOMAIN BadOp
=============================================================================
