--------------------------- MODULE TimeTableProofs --------------------------
(***************************************************************************)
(* The time machine's promises, for every set of keys, bodies and days.    *)
(***************************************************************************)
EXTENDS TimeTable, StorageLemmas

(* What an Add step does to the table. *)
LEMMA AddStep ==
  ASSUME TypeOK, NEW k \in Keys, NEW v \in Vals, Add(k, v)
  PROVE  \E d \in open :
           /\ d \in Days /\ d <= day
           /\ tbl' \in Table
           /\ k \notin DOMAIN tbl
           /\ \A x : x \in DOMAIN tbl' <=> x = k \/ x \in DOMAIN tbl
           /\ tbl'[k].ds = d /\ tbl'[k].del = NULL
           /\ \A x \in DOMAIN tbl : tbl'[x] = tbl[x]
           /\ open' \in {open, {}} /\ day' = day
<1>1. PICK d \in open : /\ Accepts(tbl, k, v) /\ tbl' = InsertRow(tbl, k, v, d)
                        /\ open' \in {open, {}} /\ day' = day
  BY DEF Add
<1>2. tbl \in Table /\ d \in Days /\ d <= day
  BY MaxDayAssumption DEF TypeOK, Days
<1>3. k \notin DOMAIN tbl
  BY <1>1 DEF Accepts
<1>4. /\ tbl' \in Table
      /\ \A x : x \in DOMAIN tbl' <=> x = k \/ x \in DOMAIN tbl
      /\ tbl'[k] = [val |-> v, ds |-> d, del |-> NULL]
      /\ \A x \in DOMAIN tbl : x # k => tbl'[x] = tbl[x]
  <2>1. tbl' = InsertRow(tbl, k, v, d)
    BY <1>1
  <2> QED
    BY <1>2, <2>1, InsertRowTable
<1>5. tbl'[k].ds = d /\ tbl'[k].del = NULL
  BY <1>4
<1> QED
  BY <1>1, <1>2, <1>3, <1>4, <1>5

-----------------------------------------------------------------------------
(* Every variable of the abstract table keeps its type. *)
THEOREM TypeCorrect == Spec => []TypeOK
<1>1. Init => TypeOK
  BY EmptyTableTable, MaxDayAssumption DEF Init, TypeOK, Days
<1>2. TypeOK /\ [Next]_vars => TypeOK'
  <2> SUFFICES ASSUME TypeOK, [Next]_vars PROVE TypeOK'
    OBVIOUS
  <2> USE MaxDayAssumption DEF TypeOK, Days
  <2>1. CASE Open
    BY <2>1 DEF Open
  <2>2. ASSUME NEW k \in Keys, NEW v \in Vals, Add(k, v) PROVE TypeOK'
    BY <2>2, AddStep
  <2>3. ASSUME NEW K \in SUBSET Keys, Remove(K) PROVE TypeOK'
    BY <2>3, SoftDeleteTable DEF Remove
  <2>4. CASE Settle
    BY <2>4 DEF Settle
  <2>5. CASE Midnight
    BY <2>5 DEF Midnight
  <2>6. CASE UNCHANGED vars
    BY <2>6 DEF vars
  <2> QED
    BY <2>1, <2>2, <2>3, <2>4, <2>5, <2>6 DEF Next
<1> QED
  BY <1>1, <1>2, PTL DEF Spec

(* Rows are created no later than the stamps still to be used and deleted  *)
(* no earlier than they were created (today() is read once per request and *)
(* the calendar does not run backwards).                                   *)
THEOREM LifetimesHold == Spec => []Lifetimes
<1>1. Init => Lifetimes
  BY EmptyTableTable DEF Init, Lifetimes
<1>2. TypeOK /\ Lifetimes /\ [Next]_vars => Lifetimes'
  <2> SUFFICES ASSUME TypeOK, Lifetimes, [Next]_vars PROVE Lifetimes'
    OBVIOUS
  <2> USE MaxDayAssumption DEF TypeOK, Days, Lifetimes
  <2>0. \A k \in DOMAIN tbl : tbl[k] \in Row
    BY DEF Table
  <2>1. CASE Open
    BY <2>0, <2>1 DEF Open, Row
  <2>2. ASSUME NEW k \in Keys, NEW v \in Vals, Add(k, v) PROVE Lifetimes'
    <3>1. PICK d \in open :
            /\ d \in Days /\ d <= day
            /\ \A x : x \in DOMAIN tbl' <=> x = k \/ x \in DOMAIN tbl
            /\ tbl'[k].ds = d /\ tbl'[k].del = NULL
            /\ \A x \in DOMAIN tbl : tbl'[x] = tbl[x]
            /\ open' \in {open, {}} /\ day' = day
      BY <2>2, AddStep
    <3>2. \A e \in open : e = d
      BY <3>1
    <3> QED
      BY <2>0, <3>1, <3>2 DEF Row
  <2>3. ASSUME NEW K \in SUBSET Keys, Remove(K) PROVE Lifetimes'
    <3>1. PICK d \in open : tbl' = SoftDelete(tbl, K, d)
                              /\ open' \in {open, {}} /\ day' = day
      BY <2>3 DEF Remove
    <3>2. d \in Days /\ d <= day
      BY <3>1
    <3>3. DOMAIN tbl' = DOMAIN tbl
            /\ \A x \in DOMAIN tbl : /\ tbl'[x].ds = tbl[x].ds
                                     /\ tbl'[x].del \in {d, tbl[x].del}
      BY <3>1, <3>2, SoftDeleteTable
    <3> QED
      BY <2>0, <3>1, <3>2, <3>3 DEF Row
  <2>4. CASE Settle
    BY <2>4 DEF Settle
  <2>5. CASE Midnight
    BY <2>0, <2>5 DEF Midnight, Row
  <2>6. CASE UNCHANGED vars
    BY <2>6 DEF vars
  <2> QED
    BY <2>1, <2>2, <2>3, <2>4, <2>5, <2>6 DEF Next
<1> QED
  BY <1>1, <1>2, TypeCorrect, PTL DEF Spec

(* A past day is settled: what a query as of d returns stays, once every   *)
(* change stamped on or before d is over.  Read with the refinement of     *)
(* WritePath, this is the guarantee as-of queries rest on.                 *)
THEOREM PastSettles == Spec => PastIsSettled
<1> DEFINE Past == \A d \in Days : d < day /\ (\A e \in open : d < e)
                     => SnapshotAt(tbl', d) = SnapshotAt(tbl, d)
<1>1. TypeOK /\ TypeOK' /\ [Next]_vars => [Past]_vars
  <2> SUFFICES ASSUME TypeOK, TypeOK', [Next]_vars,
                      NEW d \in Days, d < day, \A e \in open : d < e
               PROVE  SnapshotAt(tbl', d) = SnapshotAt(tbl, d)
    OBVIOUS
  <2> USE MaxDayAssumption DEF TypeOK, Days
  <2>1. ASSUME NEW k \in Keys, NEW v \in Vals, Add(k, v)
        PROVE  SnapshotAt(tbl', d) = SnapshotAt(tbl, d)
    <3>1. PICK e \in open : tbl' = InsertRow(tbl, k, v, e) /\ Accepts(tbl, k, v)
      BY <2>1 DEF Add
    <3>2. e \in Days /\ d < e
      BY <3>1
    <3>3. SnapshotAt(InsertRow(tbl, k, v, e), d) = SnapshotAt(tbl, d)
      BY <3>1, <3>2, InsertKeepsPast
    <3> QED
      BY <3>1, <3>3
  <2>2. ASSUME NEW K \in SUBSET Keys, Remove(K)
        PROVE  SnapshotAt(tbl', d) = SnapshotAt(tbl, d)
    <3>1. PICK e \in open : tbl' = SoftDelete(tbl, K, e)
      BY <2>2 DEF Remove
    <3>2. e \in Days /\ d < e
      BY <3>1
    <3>3. SnapshotAt(SoftDelete(tbl, K, e), d) = SnapshotAt(tbl, d)
      BY <3>2, DeleteKeepsPast
    <3> QED
      BY <3>1, <3>3
  <2>3. CASE UNCHANGED tbl
    BY <2>3
  <2> QED
    BY <2>1, <2>2, <2>3 DEF Next, Open, Settle, Midnight, vars
<1> QED
  BY <1>1, TypeCorrect, PTL DEF Spec, PastIsSettled
=============================================================================
