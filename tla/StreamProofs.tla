---------------------------- MODULE StreamProofs ----------------------------
(***************************************************************************)
(* Streaming ingestion, for any files, streams, batch size and failures:   *)
(* a checkpoint is never ahead of the table, only a crash takes it back, a *)
(* clean stop has swept up what there was, and what streams do to the      *)
(* table is what Delivery promises.                                        *)
(***************************************************************************)
EXTENDS Stream, NumberLemmas, SequenceTheorems, FiniteSetTheorems

-----------------------------------------------------------------------------
(* The inductive invariant *)

TypeInv ==
  /\ text \in Texts /\ written \in Offsets /\ \A f \in Files : written[f] <= Len(text[f])
  /\ DOMAIN table \subseteq Keys /\ \A k \in DOMAIN table : table[k] \in Lines
  /\ ckpt \in [Streams -> Offsets] /\ off \in [Streams -> Offsets]
  /\ next \in [Streams -> Offsets] /\ asked \in [Streams -> Offsets]
  /\ pc \in [Streams -> {"off", "dead", "poll", "land", "commit"}]
  /\ stop \subseteq Streams /\ last \subseteq stop /\ lost \subseteq Lines
  /\ mishaps \in Nat

Within(to) == \A f \in Files : to[f] <= written[f]

(* Every line before these offsets has been taken by the sink, or lost. *)
Done(s, to) ==
  \A l \in Lines : l[1] \in Watched[s] /\ l[2] <= to[l[1]] => Arrived(l) \/ l \in lost

(* A batch covers lines of the stream's own files, none of them bare. *)
Ahead(s, to) ==
  /\ \A f \in Files : off[s][f] <= to[f] /\ (f \notin Watched[s] => to[f] = off[s][f])
  /\ \A l \in Lines : off[s][l[1]] < l[2] /\ l[2] <= to[l[1]] => Kind(l) # "bare"

(* A last sweep was full, or it has come to the end of what there was when *)
(* stop() was called.                                                      *)
Swept(s, to, till) ==
  \/ Cardinality(LinesTo(s, to)) = Batch
  \/ \A l \in Lines :
       /\ l[1] \in Watched[s] /\ l[2] <= till[l[1]] /\ Kind(l) = "row"
       /\ \A m \in Lines : Earlier(m, l) => Kind(m) # "bare"
       => l[2] <= to[l[1]]

StreamInv(s) ==
  /\ Within(ckpt[s]) /\ Within(off[s]) /\ Within(next[s]) /\ Within(asked[s])
  /\ Done(s, ckpt[s])
  /\ Running(s) => off[s] = ckpt[s]
  /\ pc[s] \notin {"land", "commit"} => next[s] = Zero /\ s \notin last
  /\ pc[s] \in {"land", "commit"} => Ahead(s, next[s]) /\ (s \in last => Swept(s, next[s], asked[s]))
  /\ pc[s] = "commit" => Done(s, next[s])

Inv == TypeInv /\ \A s \in Streams : StreamInv(s)

-----------------------------------------------------------------------------
(* Lines *)

LEMMA LineFacts ==
  ASSUME TypeInv
  PROVE  /\ \A f \in Files : Len(text[f]) \in Nat /\ written[f] \in Nat /\ written[f] <= Len(text[f])
         /\ \A l \in Lines : /\ l[1] \in Files /\ l[2] \in 1..Len(text[l[1]]) /\ l = <<l[1], l[2]>>
                             /\ Kind(l) \in Kinds /\ Key(l) \in Keys
         /\ \A f \in Files : \A i \in 1..Len(text[f]) :
              <<f, i>> \in Lines /\ <<f, i>>[1] = f /\ <<f, i>>[2] = i
<1>1. text \in [Files -> Seq([kind : Kinds, key : Keys])]
  BY TextAssumption DEF TypeInv
<1>2. ASSUME NEW f \in Files
      PROVE  Len(text[f]) \in Nat /\ \A i \in 1..Len(text[f]) : text[f][i] \in [kind : Kinds, key : Keys]
  <2> DEFINE R == [kind : Kinds, key : Keys]
  <2>1. text[f] \in Seq(R)
    BY <1>1
  <2> HIDE DEF R
  <2>2. \A t \in Seq(R) : Len(t) \in Nat /\ \A i \in 1..Len(t) : t[i] \in R
    OBVIOUS
  <2>3. Len(text[f]) \in Nat /\ \A i \in 1..Len(text[f]) : text[f][i] \in R
    BY <2>1, <2>2, Zenon
  <2> QED
    BY <2>3 DEF R
<1>3. ASSUME NEW l \in Lines
      PROVE  l[1] \in Files /\ l[2] \in 1..Len(text[l[1]]) /\ l = <<l[1], l[2]>>
  <2>1. PICK f \in Files : l \in {f} \X (1..Len(text[f]))
    BY DEF Lines
  <2>2. PICK g \in {f}, i \in 1..Len(text[f]) : l = <<g, i>>
    BY <2>1
  <2>3. l[1] = f /\ l[2] = i
    BY <2>2
  <2> QED
    BY <2>2, <2>3
<1>4. ASSUME NEW l \in Lines PROVE Kind(l) \in Kinds /\ Key(l) \in Keys
  BY <1>2, <1>3 DEF Kind, Key
<1>5. \A f \in Files : \A i \in 1..Len(text[f]) : <<f, i>> \in Lines
  BY DEF Lines
<1> QED
  BY <1>2, <1>3, <1>4, <1>5 DEF TypeInv, Offsets

(* The lines of a stretch of a file. *)
LEMMA TakenFacts ==
  ASSUME TypeInv, NEW f \in Files, NEW a \in Nat, NEW b \in Nat, b <= Len(text[f])
  PROVE  /\ Taken(f, a, b) \subseteq Lines
         /\ \A l \in Lines : l \in Taken(f, a, b) <=> l[1] = f /\ a < l[2] /\ l[2] <= b /\ Kind(l) # "blank"
         /\ IsFiniteSet(Taken(f, a, b)) /\ Cardinality(Taken(f, a, b)) \in Nat
<1> DEFINE I == {j \in (a + 1)..b : Kind(<<f, j>>) # "blank"}
<1>1. Taken(f, a, b) = {<<f, i>> : i \in I}
  BY DEF Taken
<1>2. \A i \in I : i \in 1..Len(text[f]) /\ i \in Nat
  BY LineFacts
<1>3. ASSUME NEW l \in Taken(f, a, b)
      PROVE  l \in Lines /\ l[1] = f /\ a < l[2] /\ l[2] <= b /\ Kind(l) # "blank"
  <2>1. PICK i \in I : l = <<f, i>>
    BY <1>1
  <2>2. i \in 1..Len(text[f]) /\ a < i /\ i <= b /\ Kind(<<f, i>>) # "blank"
    BY <1>2
  <2> HIDE DEF I
  <2> QED
    BY <2>1, <2>2, LineFacts
<1>4. ASSUME NEW l \in Lines
      PROVE  l \in Taken(f, a, b) <=> l[1] = f /\ a < l[2] /\ l[2] <= b /\ Kind(l) # "blank"
  <2>1. l = <<l[1], l[2]>> /\ l[2] \in Nat
    BY LineFacts
  <2>2. l \in Taken(f, a, b) => l[1] = f /\ a < l[2] /\ l[2] <= b /\ Kind(l) # "blank"
    BY <1>3
  <2>3. ASSUME l[1] = f, a < l[2], l[2] <= b, Kind(l) # "blank" PROVE l \in Taken(f, a, b)
    <3>1. l = <<f, l[2]>> /\ l[2] \in I
      BY <2>1, <2>3
    <3> QED
      BY <1>1, <3>1
  <2> QED
    BY <2>2, <2>3
<1>5. IsFiniteSet(I)
  <2>1. IsFiniteSet((a + 1)..b)
    BY FS_Interval
  <2> QED
    BY <2>1, FS_Subset
<1>6. IsFiniteSet(Taken(f, a, b))
  <2> HIDE DEF I
  <2>1. [i \in I |-> <<f, i>>] \in Surjection(I, Taken(f, a, b))
    BY <1>1, Zenon DEF Surjection
  <2> QED
    BY <1>5, <2>1, FS_Surjection
<1> QED
  BY <1>3, <1>4, <1>6, FS_CardinalityType

-----------------------------------------------------------------------------
(* Reading *)

(* A reading of a file ends at the first offset behind which no line can   *)
(* be read.                                                                *)
LEMMA ReachFacts ==
  ASSUME TypeInv, NEW f \in Files, NEW a \in Nat, a <= written[f], NEW n
  PROVE  /\ Reach(f, a, n) \in Nat /\ a <= Reach(f, a, n) /\ Reach(f, a, n) <= written[f]
         /\ ~More(f, a, Reach(f, a, n), n)
         /\ \A c \in a..(Reach(f, a, n) - 1) : More(f, a, c, n)
<1> DEFINE k == Len(text[f])  w == written[f]
           S == {b \in a..k : ~More(f, a, b, n)}
           P(b) == ~More(f, a, b, n) /\ \A c \in a..(b - 1) : More(f, a, c, n)
<1>1. k \in Nat /\ w \in Nat /\ w <= k
  BY LineFacts
<1>2. w \in S
  BY <1>1 DEF More
<1>3. S \subseteq Nat /\ \A b \in S : b \in a..k /\ ~More(f, a, b, n)
  BY <1>1
<1>4. \A b \in a..k : b \in S \/ More(f, a, b, n)
  OBVIOUS
<1>5. Reach(f, a, n) = CHOOSE b \in a..k : P(b)
  BY <1>1 DEF Reach
<1> HIDE DEF k, w, S
<1>6. PICK m \in S : \A b \in S : m <= b
  BY <1>2, <1>3, SmallestIn
<1>7. m \in a..k /\ P(m) /\ m <= w
  <2>1. ASSUME NEW c \in a..(m - 1) PROVE More(f, a, c, n)
    <3>1. m \in a..k
      BY <1>3
    <3>2. c \in a..k /\ ~(m <= c)
      BY <1>1, <3>1
    <3>3. c \notin S
      BY <1>6, <3>2
    <3> QED
      BY <1>4, <3>2, <3>3
  <2> QED
    BY <1>2, <1>3, <1>6, <2>1
<1> HIDE DEF P
<1> DEFINE r == CHOOSE b \in a..k : P(b)
<1>8. r \in a..k /\ P(r)
  BY <1>7
<1> HIDE DEF r
<1>9. r <= w
  <2>1. CASE r = a
    BY <2>1 DEF w
  <2>2. CASE r # a
    <3>1. r - 1 \in a..(r - 1)
      BY <1>1, <1>8, <2>2
    <3>2. More(f, a, r - 1, n)
      BY <1>8, <3>1 DEF P
    <3> QED
      BY <1>1, <1>8, <3>2 DEF More, w
  <2> QED
    BY <2>1, <2>2
<1>10. Reach(f, a, n) = r
  BY <1>5 DEF r
<1> QED
  BY <1>1, <1>8, <1>9, <1>10 DEF P, w

LEMMA LinesToFacts ==
  ASSUME TypeInv, NEW s \in Streams, NEW to \in Offsets, Within(to)
  PROVE  /\ LinesTo(s, to) \subseteq Lines
         /\ \A l \in Lines : l \in LinesTo(s, to) <=> off[s][l[1]] < l[2] /\ l[2] <= to[l[1]] /\ Kind(l) # "blank"
<1>1. \A f \in Files : off[s][f] \in Nat /\ to[f] \in Nat /\ to[f] <= Len(text[f])
  <2>1. off[s] \in Offsets
    BY DEF TypeInv
  <2> QED
    BY <2>1, LineFacts DEF Within, Offsets
<1>2. \A f \in Files :
        /\ Taken(f, off[s][f], to[f]) \subseteq Lines
        /\ \A l \in Lines : l \in Taken(f, off[s][f], to[f])
                              <=> l[1] = f /\ off[s][f] < l[2] /\ l[2] <= to[f] /\ Kind(l) # "blank"
  BY <1>1, TakenFacts
<1>3. ASSUME NEW l \in LinesTo(s, to) PROVE l \in Lines
  BY <1>2 DEF LinesTo
<1>4. ASSUME NEW l \in Lines
      PROVE  l \in LinesTo(s, to) <=> off[s][l[1]] < l[2] /\ l[2] <= to[l[1]] /\ Kind(l) # "blank"
  <2>1. l \in LinesTo(s, to) <=> \E f \in Files : l \in Taken(f, off[s][f], to[f])
    BY DEF LinesTo
  <2>2. l[1] \in Files
    BY LineFacts
  <2> QED
    BY <1>2, <2>1, <2>2
<1> QED
  BY <1>3, <1>4

(* What a sweep leaves the offsets at. *)
LEMMA SweepFacts ==
  ASSUME TypeInv, NEW s \in Streams, Within(off[s]), NEW shut
  PROVE  /\ Sweep(s, shut) \in Offsets /\ Within(Sweep(s, shut)) /\ Ahead(s, Sweep(s, shut))
         /\ \A f \in Files : f \in shut => Sweep(s, shut)[f] = off[s][f]
<1> DEFINE to == Sweep(s, shut)  n(f) == Batch - Counts(s, shut)[f - 1]
<1>1. off[s] \in Offsets /\ Watched[s] \subseteq Files
  BY StreamAssumption DEF TypeInv
<1>2. \A f \in Files : off[s][f] \in Nat /\ off[s][f] <= written[f] /\ written[f] \in Nat
  BY <1>1, LineFacts DEF Within, Offsets
<1>3. /\ to = [f \in Files |-> to[f]]
      /\ \A f \in Files : to[f] = IF f \in Watched[s] \ shut THEN Reach(f, off[s][f], n(f)) ELSE off[s][f]
  BY DEF Sweep, To
<1> HIDE DEF to, n
<1>4. ASSUME NEW f \in Files
      PROVE  /\ to[f] \in Nat /\ off[s][f] <= to[f] /\ to[f] <= written[f]
             /\ f \in shut \/ f \notin Watched[s] => to[f] = off[s][f]
             /\ \A c \in off[s][f]..(to[f] - 1) : Kind(<<f, c + 1>>) # "bare"
  <2>1. CASE f \in Watched[s] \ shut
    <3>1. /\ to[f] \in Nat /\ off[s][f] <= to[f] /\ to[f] <= written[f]
          /\ \A c \in off[s][f]..(to[f] - 1) : More(f, off[s][f], c, n(f))
      BY <1>2, <1>3, <2>1, ReachFacts
    <3> QED
      BY <2>1, <3>1 DEF More
  <2>2. CASE f \notin Watched[s] \ shut
    BY <1>2, <1>3, <2>2
  <2> QED
    BY <2>1, <2>2
<1>5. to \in Offsets
  BY <1>3, <1>4 DEF Offsets
<1>6. ASSUME NEW l \in Lines, off[s][l[1]] < l[2], l[2] <= to[l[1]] PROVE Kind(l) # "bare"
  <2>1. l[1] \in Files /\ l[2] \in Nat /\ l = <<l[1], l[2]>>
    BY LineFacts
  <2>2. l[2] - 1 \in off[s][l[1]]..(to[l[1]] - 1) /\ (l[2] - 1) + 1 = l[2]
    BY <1>2, <1>4, <1>6, <2>1
  <2>3. Kind(<<l[1], (l[2] - 1) + 1>>) # "bare"
    BY <1>4, <2>1, <2>2
  <2> QED
    BY <2>1, <2>2, <2>3
<1> QED
  BY <1>4, <1>5, <1>6 DEF Within, Ahead, to

-----------------------------------------------------------------------------
(* The order of reading *)

LEMMA BeforeOrders ==
  ASSUME TypeInv
  PROVE  /\ \A l \in Lines : ~Before(l, l)
         /\ \A l, m \in Lines : l = m \/ Before(l, m) \/ Before(m, l)
         /\ \A l, m \in Lines : ~(Before(l, m) /\ Before(m, l))
         /\ \A l, m, n \in Lines : Before(l, m) /\ Before(m, n) => Before(l, n)
         /\ \A l, m \in Lines : Earlier(l, m) => Before(l, m)
<1>1. \A l \in Lines : l[1] \in Nat /\ l[2] \in Nat /\ l = <<l[1], l[2]>>
  BY LineFacts, TextAssumption DEF Files
<1>2. ASSUME NEW l \in Lines, NEW m \in Lines, ~Before(l, m), ~Before(m, l) PROVE l = m
  <2>1. l[1] = m[1] /\ l[2] = m[2]
    BY <1>1, <1>2 DEF Before
  <2> QED
    BY <1>1, <2>1
<1> QED
  BY <1>1, <1>2 DEF Before, Earlier

LEMMA FirstLine ==
  ASSUME TypeInv, NEW S, S \subseteq Lines, S # {}
  PROVE  \E m \in S : \A n \in S : m = n \/ Before(m, n)
<1>1. \A l \in S : l[1] \in Nat /\ l[2] \in Nat /\ l = <<l[1], l[2]>>
  BY LineFacts, TextAssumption DEF Files
<1> DEFINE F == {l[1] : l \in S}
<1>2. F \subseteq Nat /\ F # {}
  BY <1>1
<1>3. PICK f \in F : \A g \in F : f <= g
  <2> HIDE DEF F
  <2> QED
    BY <1>2, SmallestIn
<1> DEFINE I == {l[2] : l \in {x \in S : x[1] = f}}
<1>4. I \subseteq Nat /\ I # {}
  BY <1>1
<1>5. PICK i \in I : \A j \in I : i <= j
  <2> HIDE DEF I
  <2> QED
    BY <1>4, SmallestIn
<1>6. PICK m \in S : m[1] = f /\ m[2] = i
  OBVIOUS
<1>7. ASSUME NEW n \in S PROVE m = n \/ Before(m, n)
  <2>1. f <= n[1] /\ (n[1] = f => i <= n[2])
    BY <1>3, <1>5
  <2> HIDE DEF F, I
  <2>2. m[1] < n[1] \/ (m[1] = n[1] /\ (m[2] < n[2] \/ m[2] = n[2]))
    BY <1>1, <1>6, <2>1
  <2> QED
    BY <1>1, <2>2 DEF Before
<1> QED
  BY <1>7

-----------------------------------------------------------------------------
(* Landing *)

LEMMA RowsAdded ==
  ASSUME TypeInv, NEW L, L \subseteq Lines, table' = AddRows(table, L)
  PROVE  /\ DOMAIN table' = DOMAIN table \cup KeysOf(L) /\ DOMAIN table' \subseteq Keys
         /\ \A k \in DOMAIN table : table'[k] = table[k]
         /\ \A k \in DOMAIN table' : table'[k] \in Lines
<1>1. DOMAIN table' = DOMAIN table \cup KeysOf(L)
  BY DEF AddRows
<1>2. \A k \in DOMAIN table : table'[k] = table[k]
  BY <1>1 DEF AddRows
<1>3. KeysOf(L) \subseteq Keys
  BY LineFacts DEF KeysOf
<1>4. ASSUME NEW k \in DOMAIN table' PROVE table'[k] \in Lines
  <2>1. CASE k \in DOMAIN table
    BY <1>2, <2>1 DEF TypeInv
  <2>2. CASE k \notin DOMAIN table
    <3>1. table'[k] = CHOOSE l \in L : Key(l) = k
      BY <1>1, <1>4, <2>2 DEF AddRows
    <3>2. \E l \in L : Key(l) = k
      BY <1>1, <1>4, <2>2 DEF KeysOf
    <3>3. table'[k] \in L
      BY <3>1, <3>2
    <3> QED
      BY <3>3
  <2> QED
    BY <2>1, <2>2
<1> QED
  BY <1>1, <1>2, <1>3, <1>4 DEF TypeInv

(* Of the rows in hand with a key the table has not, the first is fresh. *)
LEMMA FreshFirst ==
  ASSUME TypeInv, NEW s \in Streams, Within(next[s]),
         NEW l \in InHand(s), Keyed(l), Key(l) \notin DOMAIN table
  PROVE  \E m \in Fresh(s) : Key(m) = Key(l) /\ (m = l \/ Before(m, l))
<1>1. InHand(s) \subseteq Lines
  <2>1. next[s] \in Offsets
    BY DEF TypeInv
  <2> QED
    BY <2>1, LinesToFacts DEF InHand
<1> DEFINE S == {m \in InHand(s) : Keyed(m) /\ Key(m) = Key(l)}
<1>2. S \subseteq Lines /\ l \in S
  BY <1>1
<1>3. PICK m \in S : \A n \in S : m = n \/ Before(m, n)
  <2> HIDE DEF S
  <2> QED
    BY <1>2, FirstLine
<1>4. m \in Fresh(s)
  <2>1. ASSUME NEW n \in InHand(s), Before(n, m), Keyed(n) PROVE Key(n) # Key(m)
    <3>1. n \in Lines /\ m \in Lines
      BY <1>1, <1>2
    <3>2. ~Before(m, n) /\ m # n
      BY <2>1, <3>1, BeforeOrders
    <3> QED
      BY <1>3, <2>1, <3>2
  <2> QED
    BY <1>3, <2>1 DEF Fresh
<1> QED
  BY <1>2, <1>3, <1>4

(* What one key has of a batch that lands without an error. *)
LEMMA BatchLands ==
  ASSUME TypeInv, NEW s \in Streams, Within(next[s]), ~Spoiled(s), Refused(s) = {},
         table' = AddRows(table, Stored(s))
  PROVE  \A l \in InHand(s) : Kind(l) # "bad" /\ (Keyed(l) => Key(l) \in DOMAIN table')
<1>1. Stored(s) = Fresh(s)
  BY DEF Stored
<1>2. Fresh(s) \subseteq Lines
  <2>1. next[s] \in Offsets
    BY DEF TypeInv
  <2> QED
    BY <2>1, LinesToFacts DEF InHand, Fresh
<1>3. DOMAIN table' = DOMAIN table \cup KeysOf(Fresh(s))
  BY <1>1, <1>2, RowsAdded
<1> SUFFICES ASSUME NEW l \in InHand(s) PROVE Kind(l) # "bad" /\ (Keyed(l) => Key(l) \in DOMAIN table')
  OBVIOUS
<1>4. Kind(l) # "bad"
  BY DEF Spoiled
<1>5. ASSUME Keyed(l), Key(l) \notin DOMAIN table PROVE Key(l) \in KeysOf(Fresh(s))
  BY <1>5, FreshFirst DEF KeysOf
<1> QED
  BY <1>3, <1>4, <1>5

(* Some first rows of a batch: the lines above each of them have their     *)
(* rows, and none of them is bad.                                          *)
LEMMA FirstRows ==
  ASSUME TypeInv, NEW s \in Streams, Within(next[s]), NEW L \in FirstOf(Stored(s)),
         NEW l \in L, NEW m \in InHand(s), Before(m, l)
  PROVE  Kind(m) # "bad" /\ (Keyed(m) => Key(m) \in DOMAIN table \cup KeysOf(L) /\ Key(m) # Key(l))
<1>1. InHand(s) \subseteq Lines
  <2>1. next[s] \in Offsets
    BY DEF TypeInv
  <2> QED
    BY <2>1, LinesToFacts DEF InHand
<1>2. /\ L \subseteq Stored(s) /\ \A x \in L, y \in Stored(s) : Before(y, x) => y \in L
      /\ ~Spoiled(s) /\ Stored(s) \subseteq Fresh(s) /\ Fresh(s) \subseteq InHand(s)
  BY DEF FirstOf, Stored, Fresh
<1>3. l \in Fresh(s) /\ l \in InHand(s) /\ \A r \in Refused(s) : Before(l, r)
  BY <1>2 DEF Stored
<1>4. Kind(m) # "bad"
  BY <1>2 DEF Spoiled
<1>5. Keyed(m) => Key(m) # Key(l)
  BY <1>3 DEF Fresh
<1>6. ASSUME Keyed(m), Key(m) \notin DOMAIN table PROVE Key(m) \in KeysOf(L)
  <2>1. PICK x \in Fresh(s) : Key(x) = Key(m) /\ (x = m \/ Before(x, m))
    BY <1>6, FreshFirst
  <2>2. x \in Lines /\ m \in Lines /\ l \in Lines /\ Refused(s) \subseteq Lines
    BY <1>1, <1>2, <1>3 DEF Refused
  <2>3. Before(x, l)
    BY <2>1, <2>2, BeforeOrders
  <2>4. \A r \in Refused(s) : Before(x, r)
    BY <1>3, <2>2, <2>3, BeforeOrders
  <2>5. x \in Stored(s)
    BY <1>2, <2>1, <2>4 DEF Stored
  <2> QED
    BY <1>2, <2>1, <2>3, <2>5 DEF KeysOf
<1> QED
  BY <1>4, <1>5, <1>6

-----------------------------------------------------------------------------
(* Steps of one stream, as the others see them *)

LEMMA SameLines ==
  ASSUME UNCHANGED text
  PROVE  /\ Lines' = Lines /\ \A l : Kind(l)' = Kind(l) /\ Key(l)' = Key(l) /\ (Keyed(l)' <=> Keyed(l))
         /\ \A f, a, b : Taken(f, a, b)' = Taken(f, a, b)
BY DEF Lines, Kind, Key, Keyed, Taken

Grows ==
  /\ UNCHANGED text /\ \A f \in Files : written[f] <= written'[f]
  /\ DOMAIN table \subseteq DOMAIN table' /\ lost \subseteq lost'

(* What has been taken stays taken. *)
LEMMA DoneStays ==
  ASSUME Grows, NEW s, NEW to, Done(s, to)
  PROVE  \A l \in Lines : l[1] \in Watched[s] /\ l[2] <= to[l[1]] => Arrived(l)' \/ l \in lost'
<1>1. \A l \in Lines : Arrived(l) => Arrived(l)'
  BY SameLines DEF Grows, Arrived
<1> QED
  BY <1>1 DEF Grows, Done

LEMMA WithinStays ==
  ASSUME TypeInv, TypeInv', Grows, NEW to \in Offsets, Within(to)
  PROVE  \A f \in Files : to[f] <= written'[f]
BY DEF Grows, Within, Offsets, TypeInv

Apart(u) ==
  /\ pc'[u] = pc[u] /\ off'[u] = off[u] /\ next'[u] = next[u] /\ asked'[u] = asked[u] /\ ckpt'[u] = ckpt[u]
  /\ u \in last' <=> u \in last

LEMMA ApartKeeps ==
  ASSUME TypeInv, TypeInv', Grows, NEW u \in Streams, StreamInv(u), Apart(u)
  PROVE  StreamInv(u)'
<1>1. ckpt[u] \in Offsets /\ off[u] \in Offsets /\ next[u] \in Offsets /\ asked[u] \in Offsets
  BY DEF TypeInv
<1>2. Within(ckpt[u])' /\ Within(off[u])' /\ Within(next[u])' /\ Within(asked[u])'
  BY <1>1, WithinStays DEF Within, StreamInv, Apart
<1>3. /\ Lines' = Lines /\ \A l : Kind(l)' = Kind(l)
      /\ \A f, a, b : Taken(f, a, b)' = Taken(f, a, b)
  BY SameLines DEF Grows
<1>4. Done(u, ckpt[u])'
  BY <1>3, DoneStays DEF StreamInv, Apart, Done
<1>5. pc'[u] = "commit" => Done(u, next[u])'
  BY <1>3, DoneStays DEF StreamInv, Apart, Done
<1>6. pc'[u] \in {"land", "commit"} => Ahead(u, next[u])'
  BY <1>3 DEF StreamInv, Apart, Ahead
<1>7. pc'[u] \in {"land", "commit"} /\ u \in last' => Swept(u, next[u], asked[u])'
  <2>1. LinesTo(u, next[u])' = LinesTo(u, next[u])
    BY <1>3 DEF LinesTo, Apart
  <2>2. Swept(u, next[u], asked[u])' <=> Swept(u, next[u], asked[u])
    BY <1>3, <2>1 DEF Swept, Apart
  <2> QED
    BY <2>2 DEF StreamInv, Apart
<1> QED
  BY <1>2, <1>4, <1>5, <1>6, <1>7 DEF StreamInv, Apart, Running

LEMMA StreamStep ==
  ASSUME Inv, TypeInv', Grows, NEW s \in Streams, StreamInv(s)', \A u \in Streams \ {s} : Apart(u)
  PROVE  Inv'
BY ApartKeeps DEF Inv

(* The coroutine is over. *)
LEMMA EndKeeps ==
  ASSUME Inv, Grows, written' = written, NEW s \in Streams, NEW how \in {"off", "dead"}, End(s, how),
         DOMAIN table' \subseteq Keys, \A k \in DOMAIN table' : table'[k] \in Lines,
         lost' \subseteq Lines, mishaps' \in Nat,
         ckpt' \in [Streams -> Offsets], \A u \in Streams \ {s} : ckpt'[u] = ckpt[u],
         Within(ckpt'[s]), \A l \in Lines : l[1] \in Watched[s] /\ l[2] <= ckpt'[s][l[1]] => Arrived(l)' \/ l \in lost'
  PROVE  Inv'
<1>1. TypeInv /\ StreamInv(s)
  BY DEF Inv
<1>2. Zero \in Offsets /\ Within(Zero)
  BY <1>1, LineFacts DEF Zero, Offsets, Within
<1>3. /\ pc'[s] = how /\ off'[s] = Zero /\ next'[s] = Zero /\ asked'[s] = Zero /\ s \notin last'
      /\ \A u \in Streams \ {s} :
           pc'[u] = pc[u] /\ off'[u] = off[u] /\ next'[u] = next[u] /\ asked'[u] = asked[u] /\ (u \in last' <=> u \in last)
  BY <1>1 DEF End, Go, TypeInv
<1>4. TypeInv'
  <2>1. /\ off' \in [Streams -> Offsets] /\ next' \in [Streams -> Offsets] /\ asked' \in [Streams -> Offsets]
        /\ pc' \in [Streams -> {"off", "dead", "poll", "land", "commit"}]
        /\ stop' \subseteq Streams /\ last' \subseteq stop'
    BY <1>1, <1>2 DEF End, Go, TypeInv
  <2>2. Lines' = Lines /\ text' = text
    BY SameLines DEF Grows
  <2> QED
    BY <1>1, <2>1, <2>2 DEF TypeInv
<1>5. StreamInv(s)'
  <2>1. Lines' = Lines
    BY SameLines DEF Grows
  <2>2. Done(s, ckpt[s])'
    BY <2>1 DEF Done
  <2>3. Within(ckpt[s])' /\ Within(off[s])' /\ Within(next[s])' /\ Within(asked[s])'
    BY <1>2, <1>3 DEF Within
  <2> QED
    BY <1>3, <2>2, <2>3 DEF StreamInv, Running
<1> QED
  BY <1>3, <1>4, <1>5, StreamStep DEF Apart

-----------------------------------------------------------------------------
(* The invariant, step by step *)

LEMMA Stutters == ASSUME Inv, UNCHANGED vars PROVE Inv'
<1>1. TypeInv /\ \A u \in Streams : StreamInv(u)
  BY DEF Inv
<1>2. UNCHANGED <<text, written, table, ckpt, lost, pc, off, next, stop, last, asked, mishaps>>
  BY DEF vars, disk, coro, files
<1>3. Grows /\ \A u \in Streams : Apart(u)
  BY <1>1, <1>2, LineFacts DEF Grows, Apart
<1>4. TypeInv'
  <2>1. Lines' = Lines
    BY <1>2, SameLines
  <2> QED
    BY <1>1, <1>2, <2>1 DEF TypeInv
<1> QED
  BY <1>1, <1>3, <1>4, ApartKeeps DEF Inv

(* The store is as it was. *)
LEMMA DiskStays ==
  ASSUME TypeInv, UNCHANGED disk
  PROVE  /\ Grows /\ written' = written /\ Lines' = Lines /\ (\A l : Kind(l)' = Kind(l))
         /\ table' = table /\ ckpt' = ckpt /\ lost' = lost /\ text' = text
         /\ text' \in Texts /\ written' \in Offsets /\ (\A f \in Files : written'[f] <= Len(text'[f]))
         /\ DOMAIN table' \subseteq Keys /\ (\A k \in DOMAIN table' : table'[k] \in Lines')
         /\ ckpt' \in [Streams -> Offsets] /\ lost' \subseteq Lines'
<1>1. UNCHANGED <<text, written, table, ckpt, lost>>
  BY DEF disk, files
<1>2. \A f \in Files : written[f] <= written[f]
  BY LineFacts
<1> QED
  BY <1>1, <1>2, SameLines DEF Grows, TypeInv

LEMMA StartKeeps ==
  ASSUME Inv, NEW s \in Streams, Start(s)
  PROVE  Inv'
<1>1. TypeInv /\ StreamInv(s)
  BY DEF Inv
<1>2. /\ pc' = [pc EXCEPT ![s] = "poll"] /\ off' = [off EXCEPT ![s] = ckpt[s]] /\ ~Running(s)
      /\ UNCHANGED <<disk, next, stop, last, asked, mishaps>>
  BY DEF Start, Go
<1>3. /\ Grows /\ written' = written /\ Lines' = Lines /\ table' = table /\ ckpt' = ckpt /\ lost' = lost
      /\ (\A l : Kind(l)' = Kind(l))
  BY <1>1, <1>2, DiskStays
<1>4. TypeInv'
  <2>1. pc' \in [Streams -> {"off", "dead", "poll", "land", "commit"}] /\ off' \in [Streams -> Offsets]
    BY <1>1, <1>2 DEF TypeInv
  <2> QED
    BY <1>1, <1>2, <2>1, DiskStays DEF TypeInv
<1>5. pc'[s] = "poll" /\ off'[s] = ckpt[s] /\ \A u \in Streams \ {s} : Apart(u)
  BY <1>1, <1>2, <1>3 DEF Apart, TypeInv
<1>6. StreamInv(s)'
  <2>1. Done(s, ckpt[s])'
    BY <1>1, <1>3, DoneStays DEF StreamInv, Done
  <2>2. next[s] = Zero /\ s \notin last
    BY <1>1, <1>2 DEF StreamInv, Running
  <2> QED
    BY <1>1, <1>2, <1>3, <1>5, <2>1, <2>2 DEF StreamInv, Within
<1> QED
  BY <1>3, <1>4, <1>5, <1>6, StreamStep

LEMMA StopKeeps ==
  ASSUME Inv, NEW s \in Streams, Stop(s)
  PROVE  Inv'
<1>1. TypeInv /\ StreamInv(s)
  BY DEF Inv
<1>2. /\ stop' = stop \cup {s} /\ asked' = [asked EXCEPT ![s] = written] /\ s \notin stop /\ Running(s)
      /\ UNCHANGED <<disk, pc, off, next, last, mishaps>>
  BY DEF Stop
<1>3. /\ Grows /\ written' = written /\ Lines' = Lines /\ table' = table /\ ckpt' = ckpt /\ lost' = lost
      /\ (\A l : Kind(l)' = Kind(l))
  BY <1>1, <1>2, DiskStays
<1>4. TypeInv'
  <2>1. asked' \in [Streams -> Offsets] /\ stop' \subseteq Streams /\ last' \subseteq stop'
    BY <1>1, <1>2 DEF TypeInv
  <2> QED
    BY <1>1, <1>2, <2>1, DiskStays DEF TypeInv
<1>5. asked'[s] = written /\ s \notin last /\ \A u \in Streams \ {s} : Apart(u)
  BY <1>1, <1>2, <1>3 DEF Apart, TypeInv
<1>6. StreamInv(s)'
  <2>1. Done(s, ckpt[s])' /\ (pc'[s] = "commit" => Done(s, next[s])')
    BY <1>1, <1>2, <1>3, DoneStays DEF StreamInv, Done
  <2>2. pc'[s] \in {"land", "commit"} => Ahead(s, next[s])'
    BY <1>1, <1>2, <1>3 DEF StreamInv, Ahead
  <2>3. Within(asked[s])'
    BY <1>1, <1>3, <1>5, LineFacts DEF Within
  <2> QED
    BY <1>1, <1>2, <1>3, <1>5, <2>1, <2>2, <2>3 DEF StreamInv, Within, Running
<1> QED
  BY <1>3, <1>4, <1>5, <1>6, StreamStep

LEMMA WriteKeeps ==
  ASSUME Inv, NEW f \in Files, Write(f)
  PROVE  Inv'
<1>1. TypeInv /\ \A u \in Streams : StreamInv(u)
  BY DEF Inv
<1>2. /\ written[f] < Len(text[f]) /\ written' = [written EXCEPT ![f] = @ + 1] /\ text' = text
      /\ UNCHANGED <<table, ckpt, lost, pc, off, next, stop, last, asked, mishaps>>
  BY DEF Write, Grow, coro
<1>3. \A g \in Files : written'[g] \in Nat /\ written[g] <= written'[g] /\ written'[g] <= Len(text[g])
  BY <1>1, <1>2, LineFacts DEF TypeInv, Offsets
<1>4. Lines' = Lines
  BY <1>2, SameLines
<1>5. TypeInv'
  <2>1. written' \in Offsets
    BY <1>1, <1>2, <1>3 DEF TypeInv, Offsets
  <2> QED
    BY <1>1, <1>2, <1>3, <1>4, <2>1 DEF TypeInv
<1>6. Grows /\ \A u \in Streams : Apart(u)
  BY <1>2, <1>3 DEF Grows, Apart
<1> QED
  BY <1>1, <1>5, <1>6, ApartKeeps DEF Inv

(* The sink has taken a batch, or has passed it on: its offsets are next.  *)
LEMMA TakenKeeps ==
  ASSUME Inv, NEW s \in Streams, pc[s] = "land", pc' = [pc EXCEPT ![s] = "commit"],
         UNCHANGED <<files, ckpt, off, next, stop, last, asked>>, Grows, mishaps' \in Nat, lost' \subseteq Lines,
         DOMAIN table' \subseteq Keys, \A k \in DOMAIN table' : table'[k] \in Lines,
         \A l \in InHand(s) : (Kind(l) # "bad" /\ (Keyed(l) => Key(l) \in DOMAIN table')) \/ l \in lost'
  PROVE  Inv'
<1>1. TypeInv /\ StreamInv(s)
  BY DEF Inv
<1>2. /\ Lines' = Lines /\ (\A l : Kind(l)' = Kind(l) /\ Key(l)' = Key(l) /\ (Keyed(l)' <=> Keyed(l)))
      /\ (\A g, a, b : Taken(g, a, b)' = Taken(g, a, b)) /\ written' = written /\ text' = text
  BY SameLines DEF files
<1>3. TypeInv'
  <2>1. pc' \in [Streams -> {"off", "dead", "poll", "land", "commit"}]
    BY <1>1 DEF TypeInv
  <2> QED
    BY <1>1, <1>2, <2>1 DEF TypeInv
<1>4. pc'[s] = "commit" /\ \A u \in Streams \ {s} : Apart(u)
  BY <1>1 DEF Apart, TypeInv
<1>5. Done(s, next[s])'
  <2>1. next[s] \in Offsets /\ off[s] \in Offsets /\ Within(next[s])
    BY <1>1 DEF TypeInv, StreamInv
  <2> SUFFICES ASSUME NEW l \in Lines, l[1] \in Watched[s], l[2] <= next[s][l[1]]
               PROVE  Arrived(l)' \/ l \in lost'
    BY <1>2 DEF Done
  <2>2. l[1] \in Files /\ l[2] \in Nat
    BY <1>1, LineFacts
  <2>3. CASE l[2] <= off[s][l[1]]
    <3>1. off[s] = ckpt[s] /\ Done(s, ckpt[s])
      BY <1>1 DEF StreamInv, Running
    <3> QED
      BY <2>3, <3>1, DoneStays
  <2>4. CASE ~(l[2] <= off[s][l[1]])
    <3>1. off[s][l[1]] < l[2]
      BY <2>1, <2>2, <2>4 DEF Offsets
    <3>2. Kind(l) # "bare"
      BY <1>1, <3>1 DEF StreamInv, Ahead
    <3>3. Kind(l) = "blank" \/ l \in InHand(s)
      BY <1>1, <2>1, <3>1, LinesToFacts DEF InHand
    <3>4. CASE Kind(l) = "blank"
      BY <1>2, <3>4 DEF Arrived, Keyed
    <3>5. CASE l \in InHand(s)
      BY <1>2, <3>2, <3>5 DEF Arrived
    <3> QED
      BY <3>3, <3>4, <3>5
  <2> QED
    BY <2>3, <2>4
<1>6. StreamInv(s)'
  <2>1. Done(s, ckpt[s])'
    BY <1>1, <1>2, DoneStays DEF StreamInv, Done
  <2>2. Ahead(s, next[s])'
    BY <1>1, <1>2 DEF StreamInv, Ahead
  <2>3. s \in last => Swept(s, next[s], asked[s])'
    <3>1. LinesTo(s, next[s])' = LinesTo(s, next[s])
      BY <1>2 DEF LinesTo
    <3>2. Swept(s, next[s], asked[s])' <=> Swept(s, next[s], asked[s])
      BY <1>2, <3>1 DEF Swept
    <3> QED
      BY <1>1, <3>2 DEF StreamInv
  <2> QED
    BY <1>1, <1>2, <1>4, <1>5, <2>1, <2>2, <2>3 DEF StreamInv, Within, Running
<1> QED
  BY <1>3, <1>4, <1>6, StreamStep

-----------------------------------------------------------------------------
(* How much a sweep reads *)

(* The lines it takes from file f, when the files before it gave n. *)
From(s, shut, f, n) == Taken(f, off[s][f], To(s, shut, f, n))

LEMMA FromFacts ==
  ASSUME TypeInv, NEW s \in Streams, Within(off[s]), NEW shut, NEW f \in Files, NEW n
  PROVE  /\ IsFiniteSet(From(s, shut, f, n)) /\ Cardinality(From(s, shut, f, n)) \in Nat
         /\ n \in 0..Batch => n + Cardinality(From(s, shut, f, n)) \in 0..Batch
<1> DEFINE a == off[s][f]  b == To(s, shut, f, n)  m == Batch - n
<1>1. a \in Nat /\ a <= written[f] /\ Len(text[f]) \in Nat /\ written[f] \in Nat /\ written[f] <= Len(text[f])
  <2>1. off[s] \in Offsets
    BY DEF TypeInv
  <2> QED
    BY <2>1, LineFacts DEF Within, Offsets
<1>2. b = a \/ b = Reach(f, a, m)
  BY DEF To
<1> HIDE DEF a, b
<1>3. b \in Nat /\ a <= b /\ b <= written[f] /\ \A c \in a..(b - 1) : More(f, a, c, m)
  <2> HIDE DEF m
  <2>1. CASE b = a
    BY <1>1, <2>1
  <2>2. CASE b = Reach(f, a, m)
    BY <1>1, <2>2, ReachFacts
  <2> QED
    BY <1>2, <2>1, <2>2
<1>4. b <= Len(text[f])
  BY <1>1, <1>3
<1>5. From(s, shut, f, n) = Taken(f, a, b)
  BY DEF From, a, b
<1>6. IsFiniteSet(Taken(f, a, b)) /\ Cardinality(Taken(f, a, b)) \in Nat /\ Taken(f, a, b) \subseteq Lines
  BY <1>1, <1>3, <1>4, TakenFacts
<1>7. ASSUME n \in 0..Batch PROVE n + Cardinality(Taken(f, a, b)) \in 0..Batch
  <2>1. n \in Nat /\ Batch \in Nat /\ m \in Nat /\ n + m = Batch
    BY <1>7, StreamAssumption
  <2> HIDE DEF m
  <2>2. CASE a = b
    <3>1. ASSUME NEW l \in Taken(f, a, b) PROVE FALSE
      <4>1. l \in Lines /\ a < l[2] /\ l[2] <= a /\ l[2] \in Nat
        BY <1>1, <1>3, <1>4, <1>6, <2>2, TakenFacts, LineFacts
      <4> QED
        BY <1>1, <4>1
    <3>2. Taken(f, a, b) = {}
      BY <3>1
    <3>3. Cardinality(Taken(f, a, b)) = 0
      BY <3>2, FS_EmptySet
    <3> QED
      BY <2>1, <3>3
  <2>3. CASE a # b
    <3>1. b - 1 \in a..(b - 1) /\ b - 1 \in Nat /\ b - 1 <= Len(text[f])
      BY <1>1, <1>3, <2>3
    <3>2. Cardinality(Taken(f, a, b - 1)) < m
      BY <1>3, <3>1 DEF More
    <3>3. IsFiniteSet(Taken(f, a, b - 1)) /\ Cardinality(Taken(f, a, b - 1)) \in Nat
      BY <1>1, <3>1, TakenFacts
    <3>4. ASSUME NEW l \in Taken(f, a, b) PROVE l \in Taken(f, a, b - 1) \cup {<<f, b>>}
      <4>1. l \in Lines /\ l[1] = f /\ a < l[2] /\ l[2] <= b /\ Kind(l) # "blank" /\ l[2] \in Nat /\ l = <<l[1], l[2]>>
        BY <1>1, <1>3, <1>4, <1>6, TakenFacts, LineFacts
      <4>2. l[2] = b \/ l[2] <= b - 1
        BY <1>3, <4>1
      <4> QED
        BY <1>1, <3>1, <4>1, <4>2, TakenFacts
    <3>5. /\ IsFiniteSet(Taken(f, a, b - 1) \cup {<<f, b>>})
          /\ Cardinality(Taken(f, a, b - 1) \cup {<<f, b>>}) \in Nat
          /\ Cardinality(Taken(f, a, b - 1) \cup {<<f, b>>}) <= Cardinality(Taken(f, a, b - 1)) + 1
      <4> DEFINE T == Taken(f, a, b - 1)  x == <<f, b>>
      <4>1. IsFiniteSet(T) /\ Cardinality(T) \in Nat
        BY <3>3
      <4> HIDE DEF T, x
      <4>2. IsFiniteSet(T \cup {x}) /\ Cardinality(T \cup {x}) = IF x \in T THEN Cardinality(T) ELSE Cardinality(T) + 1
        BY <4>1, FS_AddElement, Zenon
      <4>3. Cardinality(T \cup {x}) \in Nat /\ Cardinality(T \cup {x}) <= Cardinality(T) + 1
        BY <4>1, <4>2
      <4> QED
        BY <4>2, <4>3 DEF T, x
    <3>6. Cardinality(Taken(f, a, b)) <= Cardinality(Taken(f, a, b - 1) \cup {<<f, b>>})
      BY <3>4, <3>5, FS_Subset
    <3> DEFINE x == Cardinality(Taken(f, a, b))  y == Cardinality(Taken(f, a, b - 1))
               z == Cardinality(Taken(f, a, b - 1) \cup {<<f, b>>})
    <3>7. x \in Nat /\ y \in Nat /\ z \in Nat /\ x <= z /\ z <= y + 1 /\ y < m
      BY <1>6, <3>2, <3>3, <3>5, <3>6
    <3> HIDE DEF x, y, z
    <3>8. n + x \in 0..Batch
      BY <2>1, <3>7
    <3> QED
      BY <3>8 DEF x
  <2> QED
    BY <2>2, <2>3
<1> QED
  BY <1>5, <1>6, <1>7

LEMMA CountFacts ==
  ASSUME TypeInv, NEW s \in Streams, Within(off[s]), NEW shut
  PROVE  /\ Counts(s, shut)[0] = 0
         /\ \A f \in Files : Counts(s, shut)[f]
                               = Counts(s, shut)[f - 1] + Cardinality(From(s, shut, f, Counts(s, shut)[f - 1]))
         /\ \A f \in 0..NFiles : Counts(s, shut)[f] \in 0..Batch
<1> DEFINE P(g) == g = [f \in 0..NFiles |->
                          IF f = 0 THEN 0 ELSE g[f - 1] + Cardinality(From(s, shut, f, g[f - 1]))]
           c == [f \in 1..NFiles |-> [n \in Nat |-> Cardinality(From(s, shut, f, n))]]
<1>1. NFiles \in Nat /\ Batch \in Nat /\ Files = 1..NFiles
  BY TextAssumption, StreamAssumption DEF Files
<1>2. c \in [1..NFiles -> [Nat -> Nat]]
  BY <1>1, FromFacts
<1>3. PICK g \in [0..NFiles -> Nat] : g[0] = 0 /\ \A f \in 1..NFiles : g[f] = g[f - 1] + c[f][g[f - 1]]
  <2> HIDE DEF c
  <2> QED
    BY <1>1, <1>2, PartialSums
<1>4. ASSUME NEW f \in 1..NFiles PROVE g[f] = g[f - 1] + Cardinality(From(s, shut, f, g[f - 1]))
  <2>1. f - 1 \in 0..NFiles
    BY <1>1
  <2>2. g[f - 1] \in Nat
    BY <1>3, <2>1
  <2> QED
    BY <1>3, <2>2
<1>5. P(g)
  <2>1. \A f \in 0..NFiles : g[f] = IF f = 0 THEN 0 ELSE g[f - 1] + Cardinality(From(s, shut, f, g[f - 1]))
    <3>1. \A f \in 0..NFiles : f = 0 \/ f \in 1..NFiles
      BY <1>1
    <3> QED
      BY <1>3, <1>4, <3>1
  <2> QED
    BY <1>3, <2>1
<1>6. Counts(s, shut) = CHOOSE x : P(x)
  BY DEF Counts, From
<1> DEFINE count == Counts(s, shut)
<1>7. P(count)
  <2> HIDE DEF P, count
  <2>1. count = CHOOSE x : P(x)
    BY <1>6 DEF count
  <2> QED
    BY <1>5, <2>1
<1> HIDE DEF count, c
<1>8. count[0] = 0
  <2>1. 0 \in 0..NFiles
    BY <1>1
  <2> QED
    BY <1>7, <2>1
<1>9. ASSUME NEW f \in Files PROVE count[f] = count[f - 1] + Cardinality(From(s, shut, f, count[f - 1]))
  <2>1. f \in 0..NFiles /\ f # 0
    BY <1>1
  <2> QED
    BY <1>7, <2>1
<1> HIDE DEF P
<1>10. \A f \in 0..NFiles : count[f] \in 0..Batch
  <2> DEFINE S == {f \in 0..NFiles : count[f] \in 0..Batch}
  <2>1. 0 \in S
    BY <1>1, <1>8
  <2>2. ASSUME NEW f \in 0..NFiles, f \in S, f < NFiles PROVE f + 1 \in S
    <3>1. f + 1 \in Files /\ f + 1 \in 0..NFiles /\ (f + 1) - 1 = f
      BY <1>1, <2>2
    <3>2. count[f + 1] = count[f] + Cardinality(From(s, shut, f + 1, count[f]))
      BY <1>9, <3>1
    <3>3. count[f] \in 0..Batch
      BY <2>2
    <3>4. count[f] + Cardinality(From(s, shut, f + 1, count[f])) \in 0..Batch
      BY <3>1, <3>3, FromFacts
    <3> QED
      BY <3>1, <3>2, <3>4
  <2>3. 0..NFiles \subseteq S
    <3> HIDE DEF S
    <3> QED
      BY <1>1, <2>1, <2>2, UpTo
  <2> QED
    BY <2>3
<1> QED
  BY <1>8, <1>9, <1>10 DEF count

(* A batch has as many lines as were counted. *)
LEMMA BatchCount ==
  ASSUME TypeInv, NEW s \in Streams, Within(off[s]), NEW shut
  PROVE  /\ Cardinality(LinesTo(s, Sweep(s, shut))) = Counts(s, shut)[NFiles]
         /\ \A f \in 0..NFiles : Counts(s, shut)[f] <= Counts(s, shut)[NFiles]
<1> DEFINE count == Counts(s, shut)  to == Sweep(s, shut)
           T(f) == From(s, shut, f, count[f - 1])
           U(k) == UNION {T(f) : f \in 1..k}
<1>1. NFiles \in Nat /\ Batch \in Nat /\ Files = 1..NFiles
  BY TextAssumption, StreamAssumption DEF Files
<1>2. /\ count[0] = 0
      /\ \A f \in Files : count[f] = count[f - 1] + Cardinality(T(f))
      /\ \A f \in 0..NFiles : count[f] \in Nat
  BY <1>1, CountFacts
<1>3. \A f \in Files : IsFiniteSet(T(f)) /\ Cardinality(T(f)) \in Nat
  BY FromFacts
<1>4. LinesTo(s, to) = U(NFiles)
  <2>1. ASSUME NEW f \in Files PROVE Taken(f, off[s][f], to[f]) = T(f)
    BY DEF From, Sweep
  <2> QED
    BY <1>1, <2>1 DEF LinesTo
<1>5. \A f \in Files : \A l \in T(f) : l[1] = f
  <2> SUFFICES ASSUME NEW f \in Files, NEW l \in T(f) PROVE l[1] = f
    OBVIOUS
  <2>1. \E i : l = <<f, i>>
    BY Zenon DEF From, Taken
  <2> QED
    BY <2>1
<1> HIDE DEF count, to, T
<1>6. ASSUME NEW k \in 0..NFiles, IsFiniteSet(U(k)), Cardinality(U(k)) = count[k], k < NFiles
      PROVE  IsFiniteSet(U(k + 1)) /\ Cardinality(U(k + 1)) = count[k + 1]
  <2>1. k + 1 \in Files /\ (k + 1) - 1 = k /\ k \in Nat /\ k + 1 \in 1..(k + 1)
    BY <1>1, <1>6
  <2>2. U(k + 1) = U(k) \cup T(k + 1)
    <3>1. 1..(k + 1) = (1..k) \cup {k + 1}
      BY <2>1
    <3> QED
      BY <3>1
  <2>3. U(k) \cap T(k + 1) = {}
    <3>1. ASSUME NEW l \in U(k), l \in T(k + 1) PROVE FALSE
      <4>1. PICK f \in 1..k : l \in T(f)
        OBVIOUS
      <4>2. f \in Files /\ f # k + 1
        BY <1>1, <2>1
      <4> QED
        BY <1>5, <2>1, <3>1, <4>1, <4>2
    <3> QED
      BY <3>1
  <2>4. IsFiniteSet(T(k + 1)) /\ Cardinality(T(k + 1)) \in Nat /\ count[k] \in Nat
    BY <1>2, <1>3, <2>1
  <2> DEFINE A == U(k)  B == T(k + 1)
  <2>5. IsFiniteSet(A) /\ IsFiniteSet(B) /\ A \cap B = {} /\ Cardinality(A) = count[k] /\ Cardinality(B) \in Nat
    BY <1>6, <2>3, <2>4
  <2>6. U(k + 1) = A \cup B
    BY <2>2
  <2>7. count[k + 1] = count[k] + Cardinality(B)
    BY <1>2, <2>1
  <2> HIDE DEF A, B, U
  <2>8. IsFiniteSet(A \cup B) /\ Cardinality(A \cup B) = Cardinality(A) + Cardinality(B) - Cardinality(A \cap B)
    BY <2>5, FS_Union, Zenon
  <2>9. Cardinality(A \cap B) = 0
    BY <2>5, FS_EmptySet
  <2>10. Cardinality(A \cup B) = count[k + 1]
    BY <2>4, <2>5, <2>7, <2>8, <2>9
  <2> QED
    BY <2>6, <2>8, <2>10
<1>7. IsFiniteSet(U(0)) /\ Cardinality(U(0)) = count[0]
  <2>1. U(0) = {}
    OBVIOUS
  <2> QED
    BY <1>2, <2>1, FS_EmptySet
<1> HIDE DEF U
<1>8. Cardinality(U(NFiles)) = count[NFiles]
  <2> DEFINE S == {k \in 0..NFiles : IsFiniteSet(U(k)) /\ Cardinality(U(k)) = count[k]}
  <2>1. 0 \in S
    BY <1>1, <1>7
  <2>2. \A k \in 0..NFiles : k \in S /\ k < NFiles => k + 1 \in S
    BY <1>1, <1>6
  <2>3. 0..NFiles \subseteq S
    <3> HIDE DEF S
    <3> QED
      BY <1>1, <2>1, <2>2, UpTo
  <2> QED
    BY <1>1, <2>3
<1>9. \A f \in 0..NFiles : count[f] <= count[NFiles]
  <2> DEFINE S == {k \in 0..NFiles : \A f \in 0..k : count[f] <= count[k]}
  <2>1. 0 \in S
    BY <1>1, <1>2
  <2>2. ASSUME NEW k \in 0..NFiles, k \in S, k < NFiles PROVE k + 1 \in S
    <3>1. k + 1 \in Files /\ k + 1 \in 0..NFiles /\ (k + 1) - 1 = k /\ k \in 0..k
      BY <1>1, <2>2
    <3>2. count[k] <= count[k + 1] /\ count[k] \in Nat /\ count[k + 1] \in Nat
      BY <1>2, <1>3, <3>1
    <3>3. ASSUME NEW f \in 0..(k + 1) PROVE count[f] <= count[k + 1]
      <4>1. f \in 0..k \/ f = k + 1
        BY <3>1
      <4>2. CASE f \in 0..k
        <5>1. count[f] <= count[k]
          BY <2>2, <4>2
        <5>2. count[f] \in Nat
          BY <1>1, <1>2, <2>2, <4>2
        <5> QED
          BY <3>2, <5>1, <5>2
      <4> QED
        BY <3>2, <4>1, <4>2
    <3> QED
      BY <3>1, <3>3
  <2>3. 0..NFiles \subseteq S
    <3> HIDE DEF S
    <3> QED
      BY <1>1, <2>1, <2>2, UpTo
  <2>4. NFiles \in S
    <3>1. NFiles \in 0..NFiles
      BY <1>1
    <3> HIDE DEF S
    <3> QED
      BY <2>3, <3>1
  <2> QED
    BY <2>4
<1> QED
  BY <1>4, <1>8, <1>9 DEF count, to

(* A sweep that is not full has come to the end of every file it could     *)
(* open.                                                                   *)
LEMMA SweepEnds ==
  ASSUME TypeInv, NEW s \in Streams, Within(off[s]), NEW shut, NEW till \in Offsets, Within(till)
  PROVE  Swept(s, Sweep(s, shut), [f \in Files |-> IF f \in shut THEN 0 ELSE till[f]])
<1> DEFINE to == Sweep(s, shut)  count == Counts(s, shut)
           end == [f \in Files |-> IF f \in shut THEN 0 ELSE till[f]]
<1>1. NFiles \in Nat /\ Batch \in Nat /\ Files = 1..NFiles
  BY TextAssumption, StreamAssumption DEF Files
<1>2. SUFFICES ASSUME count[NFiles] # Batch, NEW l \in Lines, l[1] \in Watched[s], l[2] <= end[l[1]], Kind(l) = "row",
                      \A m \in Lines : Earlier(m, l) => Kind(m) # "bare",
                      ~(l[2] <= to[l[1]])
               PROVE  FALSE
  BY BatchCount DEF Swept
<1> DEFINE f == l[1]  b == to[f]  n == count[f - 1]  a == off[s][f]
<1>3. f \in Files /\ l = <<f, l[2]>> /\ l[2] \in 1..Len(text[f]) /\ l[2] \in Nat
  BY LineFacts
<1>4. f \notin shut /\ l[2] <= till[f] /\ till[f] \in Nat /\ till[f] <= written[f] /\ written[f] \in Nat /\ written[f] <= Len(text[f])
  <2>1. f \notin shut /\ l[2] <= till[f]
    BY <1>2, <1>3
  <2> QED
    BY <1>3, <2>1, LineFacts DEF Within, Offsets
<1>5. a \in Nat /\ a <= written[f]
  <2>1. off[s] \in Offsets
    BY DEF TypeInv
  <2> QED
    BY <1>3, <2>1 DEF Within, Offsets
<1>6. b = Reach(f, a, Batch - n)
  BY <1>2, <1>3, <1>4 DEF Sweep, To
<1>7. From(s, shut, f, n) = Taken(f, a, b)
  BY <1>3 DEF From, Sweep
<1>8. n \in Nat /\ n + Cardinality(From(s, shut, f, n)) < Batch /\ Cardinality(From(s, shut, f, n)) \in Nat
  <2>1. f - 1 \in 0..NFiles /\ f \in 0..NFiles /\ NFiles \in 0..NFiles
    BY <1>1, <1>3
  <2> HIDE DEF f
  <2>2. /\ n \in 0..Batch /\ count[NFiles] \in 0..Batch
        /\ count[f] = n + Cardinality(From(s, shut, f, n)) /\ count[f] \in 0..Batch
    BY <1>3, <2>1, CountFacts
  <2>3. count[f] <= count[NFiles]
    BY <2>1, BatchCount
  <2>4. Cardinality(From(s, shut, f, n)) \in Nat
    BY <1>3, FromFacts
  <2> HIDE DEF count, n
  <2> QED
    BY <1>1, <1>2, <2>2, <2>3, <2>4
<1> HIDE DEF f, b, n, a
<1>9. b \in Nat /\ a <= b /\ b <= written[f] /\ ~More(f, a, b, Batch - n)
  BY <1>3, <1>5, <1>6, ReachFacts
<1>10. b < l[2] /\ b < written[f]
  <2>1. ~(l[2] <= b)
    BY <1>2 DEF b, f
  <2> QED
    BY <1>3, <1>4, <1>9, <2>1
<1>11. Cardinality(Taken(f, a, b)) < Batch - n
  BY <1>1, <1>7, <1>8
<1>12. Kind(<<f, b + 1>>) # "bare"
  <2>1. b + 1 \in 1..Len(text[f]) /\ (b + 1 = l[2] \/ b + 1 < l[2])
    BY <1>3, <1>4, <1>9, <1>10
  <2>2. CASE b + 1 = l[2]
    BY <1>2, <1>3, <2>2
  <2>3. CASE b + 1 < l[2]
    <3>1. <<f, b + 1>> \in Lines /\ Earlier(<<f, b + 1>>, l)
      BY <1>3, <2>1, <2>3, LineFacts DEF Earlier, f
    <3> QED
      BY <1>2, <3>1
  <2> QED
    BY <2>1, <2>2, <2>3
<1> QED
  BY <1>9, <1>10, <1>11, <1>12 DEF More

-----------------------------------------------------------------------------
(* The other steps *)

LEMMA PollKeeps ==
  ASSUME Inv, NEW s \in Streams, NEW shut, Poll(s, shut), mishaps' \in Nat
  PROVE  Inv'
<1> DEFINE to == Sweep(s, shut)
           till == [f \in Files |-> IF f \in shut THEN 0 ELSE asked[s][f]]
<1>1. TypeInv /\ StreamInv(s) /\ pc[s] = "poll" /\ UNCHANGED disk
  BY DEF Inv, Poll
<1>2. /\ Grows /\ written' = written /\ Lines' = Lines /\ table' = table /\ ckpt' = ckpt /\ lost' = lost
      /\ text' = text /\ (\A l : Kind(l)' = Kind(l))
  BY <1>1, DiskStays
<1>3. Within(off[s]) /\ Within(asked[s]) /\ Within(ckpt[s]) /\ Done(s, ckpt[s]) /\ off[s] = ckpt[s] /\ asked[s] \in Offsets
  BY <1>1 DEF StreamInv, Running, TypeInv
<1>4. to \in Offsets /\ Within(to) /\ Ahead(s, to)
  BY <1>1, <1>3, SweepFacts
<1>5. Swept(s, to, till)
  BY <1>1, <1>3, SweepEnds
<1>6. till \in Offsets /\ Within(till)
  BY <1>1, <1>3, LineFacts DEF Offsets, Within
<1>7. \/ UNCHANGED coro
      \/ End(s, "off")
      \/ /\ pc' = [pc EXCEPT ![s] = "land"] /\ next' = [next EXCEPT ![s] = to]
         /\ last' = last \cup ({s} \cap stop) /\ asked' = [asked EXCEPT ![s] = till]
         /\ UNCHANGED <<off, stop>>
  BY DEF Poll, Go
<1> HIDE DEF to, till
<1>8. CASE UNCHANGED coro
  <2>1. UNCHANGED <<pc, off, next, stop, last, asked>>
    BY <1>8 DEF coro
  <2>2. TypeInv'
    BY <1>1, <1>2, <2>1 DEF TypeInv
  <2>3. \A u \in Streams : Apart(u)
    BY <1>2, <2>1 DEF Apart
  <2> QED
    BY <1>2, <2>2, <2>3, ApartKeeps DEF Inv
<1>9. CASE End(s, "off")
  <2>1. \A l \in Lines : l[1] \in Watched[s] /\ l[2] <= ckpt[s][l[1]] => Arrived(l)' \/ l \in lost'
    BY <1>2, <1>3, DoneStays
  <2>2. /\ DOMAIN table' \subseteq Keys /\ (\A k \in DOMAIN table' : table'[k] \in Lines)
        /\ lost' \subseteq Lines /\ ckpt' \in [Streams -> Offsets]
    BY <1>1, <1>2 DEF TypeInv
  <2> QED
    BY <1>2, <1>3, <1>9, <2>1, <2>2, EndKeeps
<1>10. CASE /\ pc' = [pc EXCEPT ![s] = "land"] /\ next' = [next EXCEPT ![s] = to]
            /\ last' = last \cup ({s} \cap stop) /\ asked' = [asked EXCEPT ![s] = till]
            /\ UNCHANGED <<off, stop>>
  <2>1. /\ pc'[s] = "land" /\ next'[s] = to /\ asked'[s] = till
        /\ \A u \in Streams \ {s} : Apart(u)
    BY <1>1, <1>2, <1>10 DEF Apart, TypeInv
  <2>2. TypeInv'
    <3>1. /\ pc' \in [Streams -> {"off", "dead", "poll", "land", "commit"}] /\ next' \in [Streams -> Offsets]
          /\ asked' \in [Streams -> Offsets] /\ last' \subseteq stop'
      BY <1>1, <1>4, <1>6, <1>10 DEF TypeInv
    <3> QED
      BY <1>1, <1>2, <1>10, <3>1 DEF TypeInv
  <2>3. StreamInv(s)'
    <3>1. Done(s, ckpt[s])'
      BY <1>2, <1>3, DoneStays DEF Done
    <3>2. Ahead(s, next[s])'
      BY <1>2, <1>4, <1>10, <2>1 DEF Ahead
    <3>3. Swept(s, next[s], asked[s])'
      <4>1. \A f, a, b : Taken(f, a, b)' = Taken(f, a, b)
        BY <1>2, SameLines
      <4>2. LinesTo(s, next[s])' = LinesTo(s, to)
        BY <1>10, <2>1, <4>1 DEF LinesTo
      <4>3. Swept(s, next[s], asked[s])' <=> Swept(s, to, till)
        BY <1>2, <2>1, <4>2 DEF Swept
      <4> QED
        BY <1>5, <4>3
    <3>4. Within(ckpt[s])' /\ Within(off[s])' /\ Within(next[s])' /\ Within(asked[s])'
      BY <1>2, <1>3, <1>4, <1>6, <1>10, <2>1 DEF Within
    <3>5. off'[s] = ckpt'[s]
      BY <1>2, <1>3, <1>10
    <3> QED
      BY <2>1, <3>1, <3>2, <3>3, <3>4, <3>5 DEF StreamInv
  <2> QED
    BY <1>2, <2>1, <2>2, <2>3, StreamStep
<1> QED
  BY <1>7, <1>8, <1>9, <1>10

LEMMA FailKeeps ==
  ASSUME Inv, NEW s \in Streams, End(s, "dead"), UNCHANGED disk, mishaps' \in Nat
  PROVE  Inv'
<1>1. TypeInv /\ StreamInv(s)
  BY DEF Inv
<1>2. /\ Grows /\ written' = written /\ Lines' = Lines /\ table' = table /\ ckpt' = ckpt /\ lost' = lost
  BY <1>1, DiskStays
<1>3. \A l \in Lines : l[1] \in Watched[s] /\ l[2] <= ckpt'[s][l[1]] => Arrived(l)' \/ l \in lost'
  BY <1>1, <1>2, DoneStays DEF StreamInv
<1>4. /\ DOMAIN table' \subseteq Keys /\ (\A k \in DOMAIN table' : table'[k] \in Lines)
      /\ lost' \subseteq Lines /\ ckpt' \in [Streams -> Offsets] /\ Within(ckpt'[s])
  BY <1>1, <1>2 DEF TypeInv, StreamInv
<1> QED
  BY <1>2, <1>3, <1>4, EndKeeps

(* Rows some stream in the middle of a batch has brought. *)
LEMMA StoredLines ==
  ASSUME TypeInv, NEW s \in Streams, Within(next[s])
  PROVE  InHand(s) \subseteq Lines /\ Stored(s) \subseteq Lines /\ \A L \in FirstOf(Stored(s)) : L \subseteq Lines
<1>1. InHand(s) \subseteq Lines
  <2>1. next[s] \in Offsets
    BY DEF TypeInv
  <2> QED
    BY <2>1, LinesToFacts DEF InHand
<1> QED
  BY <1>1 DEF Stored, Fresh, FirstOf

LEMMA LandKeeps ==
  ASSUME Inv, NEW s \in Streams, Land(s)
  PROVE  Inv'
<1>1. TypeInv /\ StreamInv(s) /\ Within(next[s])
  BY DEF Inv, StreamInv
<1>2. pc[s] = "land" /\ table' = AddRows(table, Stored(s)) /\ UNCHANGED <<files, ckpt, lost, mishaps>>
  BY DEF Land
<1>3. /\ DOMAIN table' = DOMAIN table \cup KeysOf(Stored(s)) /\ DOMAIN table' \subseteq Keys
      /\ \A k \in DOMAIN table' : table'[k] \in Lines
  BY <1>1, <1>2, StoredLines, RowsAdded
<1>4. Grows /\ written' = written
  BY <1>1, <1>2, <1>3, LineFacts DEF Grows, files
<1>5. lost' \subseteq Lines /\ mishaps' \in Nat /\ ckpt' \in [Streams -> Offsets]
  BY <1>1, <1>2 DEF TypeInv
<1>6. CASE Spoiled(s) \/ Refused(s) # {}
  <2>1. End(s, "dead")
    BY <1>6 DEF Land
  <2>2. \A l \in Lines : l[1] \in Watched[s] /\ l[2] <= ckpt'[s][l[1]] => Arrived(l)' \/ l \in lost'
    BY <1>1, <1>2, <1>4, DoneStays DEF StreamInv
  <2>3. Within(ckpt'[s])
    BY <1>1, <1>2 DEF StreamInv
  <2> QED
    BY <1>2, <1>3, <1>4, <1>5, <2>1, <2>2, <2>3, EndKeeps
<1>7. CASE ~Spoiled(s) /\ Refused(s) = {}
  <2>1. pc' = [pc EXCEPT ![s] = "commit"] /\ UNCHANGED <<off, next, stop, last, asked>>
    BY <1>7 DEF Land, Go
  <2>2. \A l \in InHand(s) : Kind(l) # "bad" /\ (Keyed(l) => Key(l) \in DOMAIN table')
    BY <1>1, <1>2, <1>7, BatchLands
  <2> QED
    BY <1>2, <1>3, <1>4, <1>5, <2>1, <2>2, TakenKeeps
<1> QED
  BY <1>6, <1>7

LEMMA MiddleFailsKeeps ==
  ASSUME Inv, NEW s \in Streams, MiddleFails(s)
  PROVE  Inv'
<1>1. TypeInv /\ StreamInv(s) /\ Within(next[s])
  BY DEF Inv, StreamInv
<1>2. /\ pc[s] = "land" /\ pc' = [pc EXCEPT ![s] = "commit"] /\ lost' = lost \cup InHand(s)
      /\ UNCHANGED <<files, table, ckpt, off, next, stop, last, asked>> /\ mishaps' = mishaps + 1
  BY DEF MiddleFails, Go, Mishap
<1>3. Grows
  BY <1>1, <1>2, LineFacts DEF Grows, files
<1>4. /\ lost' \subseteq Lines /\ mishaps' \in Nat
      /\ DOMAIN table' \subseteq Keys /\ \A k \in DOMAIN table' : table'[k] \in Lines
  BY <1>1, <1>2, StoredLines DEF TypeInv
<1> QED
  BY <1>2, <1>3, <1>4, TakenKeeps

LEMMA CommitKeeps ==
  ASSUME Inv, NEW s \in Streams, Commit(s)
  PROVE  Inv'
<1>1. TypeInv /\ StreamInv(s) /\ next[s] \in Offsets
  BY DEF Inv, TypeInv
<1>2. /\ pc[s] = "commit" /\ ckpt' = [ckpt EXCEPT ![s] = next[s]] /\ UNCHANGED <<files, table, lost, mishaps>>
  BY DEF Commit, NextOffsets
<1>3. Grows /\ written' = written /\ Lines' = Lines
  BY <1>1, <1>2, LineFacts, SameLines DEF Grows, files
<1>4. /\ lost' \subseteq Lines /\ mishaps' \in Nat /\ ckpt' \in [Streams -> Offsets]
      /\ DOMAIN table' \subseteq Keys /\ (\A k \in DOMAIN table' : table'[k] \in Lines)
      /\ ckpt'[s] = next[s] /\ \A u \in Streams \ {s} : ckpt'[u] = ckpt[u]
  BY <1>1, <1>2 DEF TypeInv
<1>5. Within(next[s]) /\ Done(s, next[s])
  BY <1>1, <1>2 DEF StreamInv
<1>6. \A l \in Lines : l[1] \in Watched[s] /\ l[2] <= next[s][l[1]] => Arrived(l)' \/ l \in lost'
  BY <1>3, <1>5, DoneStays
<1>7. CASE s \in last
  <2>1. End(s, "off")
    BY <1>7 DEF Commit
  <2> QED
    BY <1>3, <1>4, <1>5, <1>6, <2>1, EndKeeps
<1>8. CASE s \notin last
  <2>1. /\ pc' = [pc EXCEPT ![s] = "poll"] /\ off' = [off EXCEPT ![s] = next[s]]
        /\ next' = [next EXCEPT ![s] = Zero] /\ UNCHANGED <<stop, last, asked>>
    BY <1>8 DEF Commit, Go, NextOffsets
  <2>2. Zero \in Offsets /\ Within(Zero)
    BY <1>1, LineFacts DEF Zero, Offsets, Within
  <2>3. /\ pc'[s] = "poll" /\ off'[s] = next[s] /\ next'[s] = Zero
        /\ \A u \in Streams \ {s} : Apart(u)
    BY <1>1, <1>4, <2>1 DEF Apart, TypeInv
  <2>4. TypeInv'
    <3>1. /\ pc' \in [Streams -> {"off", "dead", "poll", "land", "commit"}] /\ off' \in [Streams -> Offsets]
          /\ next' \in [Streams -> Offsets]
      BY <1>1, <2>1, <2>2 DEF TypeInv
    <3> QED
      BY <1>1, <1>2, <1>3, <1>4, <2>1, <3>1 DEF TypeInv, files
  <2>5. StreamInv(s)'
    <3>1. Done(s, ckpt[s])'
      BY <1>3, <1>4, <1>6 DEF Done
    <3>2. Within(ckpt[s])' /\ Within(off[s])' /\ Within(next[s])' /\ Within(asked[s])'
      BY <1>1, <1>3, <1>4, <1>5, <2>1, <2>2, <2>3 DEF Within, StreamInv
    <3> QED
      BY <1>4, <1>8, <2>1, <2>3, <3>1, <3>2 DEF StreamInv
  <2> QED
    BY <1>3, <2>3, <2>4, <2>5, StreamStep
<1> QED
  BY <1>7, <1>8

(* The process dies: all that is left is on the disk, and a checkpoint may *)
(* be gone.                                                                *)
LEMMA CrashKeeps ==
  ASSUME Inv, Crash
  PROVE  Inv'
<1>1. TypeInv /\ \A u \in Streams : StreamInv(u)
  BY DEF Inv
<1>2. PICK s \in Streams :
        /\ \E L \in IF pc[s] = "land" THEN FirstOf(Stored(s)) ELSE {{}} : table' = AddRows(table, L)
        /\ ckpt' \in {ckpt, [ckpt EXCEPT ![s] = Zero]}
  BY DEF Crash
<1>3. /\ pc' = [u \in Streams |-> "off"] /\ off' = [u \in Streams |-> Zero] /\ next' = off' /\ asked' = off'
      /\ stop' = {} /\ last' = {} /\ UNCHANGED <<files, lost>> /\ mishaps' = mishaps + 1
  BY DEF Crash, Mishap
<1>4. PICK L \in IF pc[s] = "land" THEN FirstOf(Stored(s)) ELSE {{}} : table' = AddRows(table, L)
  BY <1>2
<1>5. L \subseteq Lines
  <2>1. Within(next[s])
    BY <1>1 DEF StreamInv
  <2> QED
    BY <1>1, <1>4, <2>1, StoredLines
<1>6. /\ DOMAIN table' = DOMAIN table \cup KeysOf(L) /\ DOMAIN table' \subseteq Keys
      /\ \A k \in DOMAIN table' : table'[k] \in Lines
  BY <1>1, <1>4, <1>5, RowsAdded
<1>7. Grows /\ written' = written /\ text' = text /\ Lines' = Lines
  BY <1>1, <1>3, <1>6, LineFacts, SameLines DEF Grows, files
<1>8. Zero \in Offsets /\ Within(Zero) /\ \A f \in Files : Zero[f] = 0
  BY <1>1, LineFacts DEF Zero, Offsets, Within
<1>9. TypeInv'
  <2>1. ckpt' \in [Streams -> Offsets]
    BY <1>1, <1>2, <1>8 DEF TypeInv
  <2>2. /\ pc' \in [Streams -> {"off", "dead", "poll", "land", "commit"}] /\ off' \in [Streams -> Offsets]
        /\ next' \in [Streams -> Offsets] /\ asked' \in [Streams -> Offsets] /\ mishaps' \in Nat
    BY <1>1, <1>3, <1>8 DEF TypeInv
  <2> QED
    BY <1>1, <1>3, <1>6, <1>7, <2>1, <2>2 DEF TypeInv, files
<1>10. ASSUME NEW u \in Streams PROVE StreamInv(u)'
  <2>1. ckpt'[u] = ckpt[u] \/ ckpt'[u] = Zero
    BY <1>1, <1>2 DEF TypeInv
  <2>2. Done(u, ckpt[u])'
    <3>1. CASE ckpt'[u] = ckpt[u]
      BY <1>1, <1>7, <3>1, DoneStays DEF StreamInv, Done
    <3>2. CASE ckpt'[u] = Zero
      <4>1. \A l \in Lines : ~(l[2] <= Zero[l[1]])
        BY <1>1, <1>8, LineFacts
      <4> QED
        BY <1>7, <3>2, <4>1 DEF Done
    <3> QED
      BY <2>1, <3>1, <3>2
  <2>3. /\ pc'[u] = "off" /\ off'[u] = Zero /\ next'[u] = Zero /\ asked'[u] = Zero /\ u \notin last'
    BY <1>3
  <2>4. Within(ckpt[u])' /\ Within(off[u])' /\ Within(next[u])' /\ Within(asked[u])'
    BY <1>1, <1>7, <1>8, <2>1, <2>3 DEF Within, StreamInv
  <2> QED
    BY <2>2, <2>3, <2>4 DEF StreamInv, Running
<1> QED
  BY <1>9, <1>10 DEF Inv

LEMMA Initially == ASSUME Init PROVE Inv
<1>1. /\ text \in Texts /\ written = [f \in Files |-> 0] /\ table = NoRows /\ ckpt = [s \in Streams |-> Zero]
      /\ pc = [s \in Streams |-> "off"] /\ off = [s \in Streams |-> Zero] /\ next = [s \in Streams |-> Zero]
      /\ stop = {} /\ last = {} /\ asked = [s \in Streams |-> Zero] /\ lost = {} /\ mishaps = 0
  BY DEF Init, InitFiles
<1>2. Zero \in Offsets /\ written \in Offsets /\ \A f \in Files : Zero[f] = 0 /\ written[f] = 0
  BY <1>1 DEF Zero, Offsets
<1>3. TypeInv
  <2>1. \A f \in Files : written[f] <= Len(text[f])
    <3>1. text \in [Files -> Seq([kind : Kinds, key : Keys])]
      BY <1>1, TextAssumption
    <3> DEFINE R == [kind : Kinds, key : Keys]
    <3>2. \A f \in Files : text[f] \in Seq(R)
      BY <3>1
    <3> HIDE DEF R
    <3>3. \A f \in Files : Len(text[f]) \in Nat
      BY <3>2
    <3> QED
      BY <1>2, <3>3
  <2>2. DOMAIN table = {}
    BY <1>1 DEF NoRows
  <2>3. /\ ckpt \in [Streams -> Offsets] /\ off \in [Streams -> Offsets] /\ next \in [Streams -> Offsets]
        /\ asked \in [Streams -> Offsets] /\ pc \in [Streams -> {"off", "dead", "poll", "land", "commit"}]
    BY <1>1, <1>2
  <2> QED
    BY <1>1, <1>2, <2>1, <2>2, <2>3 DEF TypeInv
<1>4. ASSUME NEW s \in Streams PROVE StreamInv(s)
  <2>1. /\ pc[s] = "off" /\ ckpt[s] = Zero /\ off[s] = Zero /\ next[s] = Zero /\ asked[s] = Zero /\ s \notin last
    BY <1>1
  <2>2. Within(Zero)
    BY <1>2 DEF Within
  <2>3. Done(s, Zero)
    <3>1. \A l \in Lines : ~(l[2] <= Zero[l[1]])
      BY <1>2, <1>3, LineFacts
    <3> QED
      BY <3>1 DEF Done
  <2> QED
    BY <2>1, <2>2, <2>3 DEF StreamInv, Running
<1> QED
  BY <1>3, <1>4 DEF Inv

LEMMA NextKeeps == ASSUME Inv, [Next]_vars PROVE Inv'
<1>1. mishaps \in Nat
  BY DEF Inv, TypeInv
<1>2. ASSUME NEW s \in Streams, PollAll(s) PROVE Inv'
  BY <1>1, <1>2, PollKeeps DEF PollAll
<1>3. ASSUME NEW s \in Streams, PollSome(s) PROVE Inv'
  BY <1>1, <1>3, PollKeeps DEF PollSome, Mishap
<1>4. ASSUME NEW s \in Streams, ChainFails(s) \/ SaveFails(s) PROVE Inv'
  BY <1>1, <1>4, FailKeeps DEF ChainFails, SaveFails, Mishap
<1> QED
  BY <1>2, <1>3, <1>4, Stutters, StartKeeps, StopKeeps, WriteKeeps, LandKeeps, MiddleFailsKeeps, CommitKeeps, CrashKeeps
  DEF Next, Step

(* The inductive invariant: a running stream's offsets are those of its    *)
(* checkpoint, what is before them is in the table, and what its batch     *)
(* covers is a stretch of its own files without a line it cannot pass.     *)
THEOREM Invariance == Spec => []Inv
BY Initially, NextKeeps, PTL DEF Spec

-----------------------------------------------------------------------------
(* What follows *)

(* Types, and no offset passes the complete lines of its file. *)
THEOREM TypeCorrect == Spec => []TypeOK
<1>1. ASSUME Inv PROVE TypeOK
  <2>1. TypeInv
    BY <1>1 DEF Inv
  <2>2. \A s \in Streams, f \in Files : ckpt[s][f] <= written[f] /\ next[s][f] <= written[f]
    BY <1>1 DEF Inv, StreamInv, Within
  <2>3. /\ text \in Texts /\ written \in [Files -> Nat] /\ \A f \in Files : written[f] <= Len(text[f])
        /\ DOMAIN table \subseteq Keys /\ \A k \in DOMAIN table : table[k] \in Lines
    BY <2>1 DEF TypeInv, Offsets
  <2>4. /\ ckpt \in [Streams -> Offsets] /\ off \in [Streams -> Offsets]
        /\ next \in [Streams -> Offsets] /\ asked \in [Streams -> Offsets]
        /\ pc \in [Streams -> {"off", "dead", "poll", "land", "commit"}]
        /\ stop \subseteq Streams /\ last \subseteq stop /\ lost \subseteq Lines
        /\ mishaps \in Nat
    BY <2>1 DEF TypeInv
  <2> QED
    BY <2>2, <2>3, <2>4 DEF TypeOK
<1> QED
  BY <1>1, Invariance, PTL

(* stream_service.py _loop: offsets are committed after the batch landed,  *)
(* so no checkpoint is ever ahead of the table, whatever crashed or        *)
(* failed.                                                                 *)
THEOREM NoLineSkipped == Spec => []NothingSkipped
<1>1. Inv => NothingSkipped
  BY DEF Inv, StreamInv, Done, NothingSkipped
<1> QED
  BY <1>1, Invariance, PTL

(* Only a commit moves a checkpoint while the process lives. *)
LEMMA CheckpointMoves ==
  ASSUME Inv, Next, mishaps' = mishaps
  PROVE  ckpt' = ckpt \/ \E s \in Streams : Commit(s)
<1>1. mishaps' # mishaps + 1
  BY DEF Inv, TypeInv
<1>2. ASSUME NEW s \in Streams, Start(s) \/ PollAll(s) \/ Land(s) \/ Stop(s) PROVE ckpt' = ckpt
  BY <1>2 DEF Start, PollAll, Poll, Land, Stop, disk
<1>3. ASSUME NEW s \in Streams PROVE ~PollSome(s) /\ ~ChainFails(s) /\ ~MiddleFails(s) /\ ~SaveFails(s)
  BY <1>1 DEF PollSome, ChainFails, MiddleFails, SaveFails, Mishap
<1>4. ~Crash
  BY <1>1 DEF Crash, Mishap
<1>5. ASSUME NEW f \in Files, Write(f) PROVE ckpt' = ckpt
  BY <1>5 DEF Write
<1> QED
  BY <1>2, <1>3, <1>4, <1>5 DEF Next, Step

(* stream_service.py: offsets.update keeps the offsets of the files the    *)
(* batch did not touch, and a batch never moves one back.                  *)
THEOREM CheckpointsStay == Spec => CheckpointStays
<1>1. ASSUME Inv, [Next]_vars, mishaps' = mishaps, NEW s \in Streams, NEW f \in Watched[s]
      PROVE  ckpt'[s][f] >= ckpt[s][f]
  <2>1. f \in Files /\ TypeInv /\ StreamInv(s) /\ ckpt[s] \in Offsets /\ next[s] \in Offsets
    BY <1>1, StreamAssumption DEF Inv, TypeInv
  <2>2. ckpt[s][f] \in Nat /\ next[s][f] \in Nat
    BY <2>1 DEF Offsets
  <2>3. CASE ckpt' = ckpt
    BY <2>2, <2>3
  <2>4. ASSUME NEW u \in Streams, Commit(u) PROVE ckpt'[s][f] >= ckpt[s][f]
    <3>1. ckpt' = [ckpt EXCEPT ![u] = next[u]] /\ pc[u] = "commit"
      BY <2>4 DEF Commit, NextOffsets
    <3>2. CASE u = s
      <4>1. ckpt'[s] = next[s]
        BY <2>1, <3>1, <3>2 DEF TypeInv
      <4>2. off[s] = ckpt[s] /\ off[s][f] <= next[s][f]
        BY <2>1, <3>1, <3>2 DEF StreamInv, Running, Ahead
      <4> QED
        BY <2>2, <4>1, <4>2
    <3>3. CASE u # s
      <4>1. ckpt'[s] = ckpt[s]
        BY <2>1, <3>1, <3>3 DEF TypeInv
      <4> QED
        BY <2>2, <4>1
    <3> QED
      BY <3>2, <3>3
  <2>5. UNCHANGED vars => ckpt' = ckpt
    BY DEF vars, disk
  <2> QED
    BY <1>1, <2>3, <2>4, <2>5, CheckpointMoves
<1>2. Inv /\ [Next]_vars
        => [mishaps' = mishaps =>
              \A s \in Streams : \A f \in Watched[s] : ckpt'[s][f] >= ckpt[s][f]]_vars
  BY <1>1
<1> QED
  BY <1>2, Invariance, PTL DEF Spec, CheckpointStays

(* A stream ends well when it is told to stop and finds nothing, or has    *)
(* committed its last sweep.                                               *)
LEMMA GoodEnds ==
  ASSUME Inv, Next, mishaps' = mishaps, NEW s \in Streams, Running(s), pc'[s] = "off"
  PROVE  /\ table' = table
         /\ \/ Commit(s) /\ s \in last
            \/ pc[s] = "poll" /\ LinesTo(s, Sweep(s, {})) = {}
<1>1. mishaps' # mishaps + 1 /\ TypeInv
  BY DEF Inv, TypeInv
<1>2. pc[s] # "off"
  BY DEF Running
<1>3. ASSUME NEW u \in Streams, NEW p, pc' = [pc EXCEPT ![u] = p] PROVE u = s /\ p = "off"
  BY <1>1, <1>2, <1>3 DEF TypeInv
<1>4. ASSUME NEW u \in Streams PROVE ~Start(u) /\ ~Stop(u) /\ ~Land(u)
  <2>1. Start(u) => pc' = [pc EXCEPT ![u] = "poll"]
    BY DEF Start, Go
  <2>2. Stop(u) => pc' = pc
    BY DEF Stop
  <2>3. Land(u) => pc' = [pc EXCEPT ![u] = "dead"] \/ pc' = [pc EXCEPT ![u] = "commit"]
    BY DEF Land, End, Go
  <2> QED
    BY <1>2, <1>3, <2>1, <2>2, <2>3
<1>5. ASSUME NEW u \in Streams PROVE ~PollSome(u) /\ ~ChainFails(u) /\ ~MiddleFails(u) /\ ~SaveFails(u)
  BY <1>1 DEF PollSome, ChainFails, MiddleFails, SaveFails, Mishap
<1>6. ~Crash
  BY <1>1 DEF Crash, Mishap
<1>7. ASSUME NEW f \in Files PROVE ~Write(f)
  BY <1>2 DEF Write, coro
<1>8. ASSUME NEW u \in Streams, PollAll(u) PROVE table' = table /\ pc[s] = "poll" /\ LinesTo(s, Sweep(s, {})) = {}
  <2>1. Poll(u, {})
    BY <1>8 DEF PollAll
  <2>2. \/ UNCHANGED coro
        \/ LinesTo(u, Sweep(u, {})) = {} /\ pc' = [pc EXCEPT ![u] = "off"]
        \/ pc' = [pc EXCEPT ![u] = "land"]
    BY <2>1 DEF Poll, End, Go
  <2>3. LinesTo(u, Sweep(u, {})) = {} /\ pc' = [pc EXCEPT ![u] = "off"]
    BY <1>2, <1>3, <2>2 DEF coro
  <2>4. u = s
    BY <1>3, <2>3
  <2> QED
    BY <2>1, <2>3, <2>4 DEF Poll, disk
<1>9. ASSUME NEW u \in Streams, Commit(u) PROVE table' = table /\ Commit(s) /\ s \in last
  <2>1. (u \in last /\ pc' = [pc EXCEPT ![u] = "off"]) \/ pc' = [pc EXCEPT ![u] = "poll"]
    BY <1>9 DEF Commit, End, Go
  <2>2. u \in last /\ u = s
    BY <1>3, <2>1
  <2> QED
    BY <1>9, <2>2 DEF Commit
<1> QED
  BY <1>4, <1>5, <1>6, <1>7, <1>8, <1>9 DEF Next, Step

(* StreamHandle.stop: the last sweep takes what was complete when it was   *)
(* called, in the files it could open, unless the batch was full.          *)
THEOREM StopSweptUp == Spec => StopSweeps
<1>1. ASSUME Inv, [Next]_vars, NEW s \in Streams, Running(s), pc'[s] = "off", mishaps' = mishaps,
             Cardinality(InHand(s)) # Batch,
             NEW l \in Lines, l[1] \in Watched[s], l[2] <= asked[s][l[1]], Kind(l) = "row", l \notin lost,
             \A m \in Lines : Earlier(m, l) => Kind(m) # "bare"
      PROVE  Key(l) \in DOMAIN table'
  <2>1. TypeInv /\ StreamInv(s) /\ l[1] \in Files /\ l[2] \in Nat
    BY <1>1, LineFacts DEF Inv
  <2>2. Next
    BY <1>1 DEF Running, vars, coro
  <2>3. table' = table
    BY <1>1, <2>2, GoodEnds
  <2>4. ASSUME NEW to, Done(s, to), l[2] <= to[l[1]] PROVE Key(l) \in DOMAIN table
    BY <1>1, <2>4 DEF Done, Arrived, Keyed
  <2>5. CASE Commit(s) /\ s \in last
    <3>1. Done(s, next[s]) /\ Swept(s, next[s], asked[s])
      BY <2>1, <2>5 DEF Commit, StreamInv
    <3>2. l[2] <= next[s][l[1]]
      BY <1>1, <3>1 DEF Swept, InHand
    <3> QED
      BY <2>3, <2>4, <3>1, <3>2
  <2>6. CASE pc[s] = "poll" /\ LinesTo(s, Sweep(s, {})) = {}
    <3> DEFINE to == Sweep(s, {})  till == [f \in Files |-> IF f \in {} THEN 0 ELSE asked[s][f]]
    <3>1. Within(off[s]) /\ Within(asked[s]) /\ asked[s] \in Offsets /\ off[s] \in Offsets
      BY <2>1 DEF StreamInv, TypeInv
    <3>2. Swept(s, to, till) /\ to \in Offsets /\ Within(to)
      BY <2>1, <3>1, SweepEnds, SweepFacts
    <3>3. till[l[1]] = asked[s][l[1]]
      BY <2>1
    <3> HIDE DEF to, till
    <3>4. LinesTo(s, to) = {}
      BY <2>6 DEF to
    <3>5. Cardinality(LinesTo(s, to)) # Batch
      BY <3>4, FS_EmptySet, StreamAssumption
    <3>6. l[2] <= to[l[1]]
      BY <1>1, <3>2, <3>3, <3>5 DEF Swept
    <3>7. ~(off[s][l[1]] < l[2])
      BY <1>1, <2>1, <3>2, <3>4, <3>6, LinesToFacts
    <3>8. l[2] <= off[s][l[1]]
      BY <2>1, <3>1, <3>7 DEF Offsets
    <3>9. Done(s, off[s])
      BY <2>1, <2>6 DEF StreamInv, Running
    <3> QED
      BY <2>3, <2>4, <3>8, <3>9
  <2> QED
    BY <1>1, <2>2, <2>5, <2>6, GoodEnds
<1>2. Inv /\ [Next]_vars
        => [\A s \in Streams :
              Running(s) /\ pc'[s] = "off" /\ mishaps' = mishaps
                => \/ Cardinality(InHand(s)) = Batch
                   \/ \A l \in Lines :
                        /\ l[1] \in Watched[s] /\ l[2] <= asked[s][l[1]] /\ Kind(l) = "row" /\ l \notin lost
                        /\ \A m \in Lines : Earlier(m, l) => Kind(m) # "bare"
                        => Key(l) \in DOMAIN table']_vars
  BY <1>1
<1> QED
  BY <1>2, Invariance, PTL DEF Spec, StopSweeps

-----------------------------------------------------------------------------
(* Delivery *)

(* What stands above a row of the batch in its file is before the offsets, *)
(* or in the batch too.                                                    *)
LEMMA AboveRow ==
  ASSUME Inv, NEW s \in Streams, pc[s] = "land", NEW L \in FirstOf(Stored(s)),
         NEW l \in L, NEW m \in Lines, Earlier(m, l), m \notin lost
  PROVE  /\ Kind(m) \notin {"bad", "bare"}
         /\ Keyed(m) => Key(m) \in DOMAIN table \cup KeysOf(L) /\ Key(m) # Key(l)
<1>1. TypeInv /\ StreamInv(s)
  BY DEF Inv
<1>2. next[s] \in Offsets /\ off[s] \in Offsets /\ Within(next[s])
  BY <1>1 DEF TypeInv, StreamInv
<1>3. l \in InHand(s) /\ l \in Fresh(s) /\ l \in Lines
  BY <1>1, <1>2, StoredLines DEF FirstOf, Stored, Fresh
<1>4. l[1] \in Files /\ l[2] \in Nat /\ m[2] \in Nat /\ m[1] = l[1] /\ m[2] < l[2] /\ Before(m, l)
  BY <1>1, <1>3, LineFacts DEF Earlier, Before
<1>5. off[s][l[1]] < l[2] /\ l[2] <= next[s][l[1]]
  BY <1>1, <1>2, <1>3, LinesToFacts DEF InHand
<1>6. l[1] \in Watched[s]
  <2>1. off[s][l[1]] \in Nat
    BY <1>2, <1>4 DEF Offsets
  <2>2. next[s][l[1]] # off[s][l[1]]
    BY <1>4, <1>5, <2>1
  <2>3. Ahead(s, next[s])
    BY <1>1 DEF StreamInv
  <2> QED
    BY <1>4, <2>2, <2>3 DEF Ahead
<1>7. CASE m[2] <= off[s][m[1]]
  <2>1. Done(s, off[s])
    BY <1>1 DEF StreamInv, Running
  <2>2. Arrived(m)
    BY <1>4, <1>6, <1>7, <2>1 DEF Done
  <2>3. Key(l) \notin DOMAIN table
    BY <1>3 DEF Fresh
  <2> QED
    BY <2>2, <2>3 DEF Arrived
<1>8. CASE ~(m[2] <= off[s][m[1]])
  <2>1. off[s][m[1]] < m[2] /\ m[2] <= next[s][m[1]]
    BY <1>2, <1>4, <1>5, <1>8 DEF Offsets
  <2>2. Kind(m) # "bare"
    BY <1>1, <2>1 DEF StreamInv, Ahead
  <2>3. CASE Kind(m) = "blank"
    BY <2>3 DEF Keyed
  <2>4. CASE Kind(m) # "blank"
    <3>1. m \in InHand(s)
      BY <1>1, <1>2, <2>1, <2>4, LinesToFacts DEF InHand
    <3> QED
      BY <1>1, <1>2, <1>4, <2>2, <3>1, FirstRows
  <2> QED
    BY <2>3, <2>4
<1> QED
  BY <1>7, <1>8

(* The rows of a batch, or the first of them, are ones Delivery may take.  *)
LEMMA BatchDue ==
  ASSUME Inv, NEW s \in Streams, pc[s] = "land", NEW L \in FirstOf(Stored(s))
  PROVE  \A l \in L :
           /\ l \in Lines /\ Kind(l) = "row" /\ l[2] <= written[l[1]] /\ Key(l) \notin DOMAIN table
           /\ \A m \in L : Key(m) = Key(l) => m = l
<1>1. TypeInv /\ StreamInv(s)
  BY DEF Inv
<1>2. next[s] \in Offsets /\ off[s] \in Offsets /\ Within(next[s])
  BY <1>1 DEF TypeInv, StreamInv
<1>3. L \subseteq InHand(s) /\ L \subseteq Fresh(s) /\ L \subseteq Lines /\ L \subseteq Stored(s)
  BY <1>1, <1>2, StoredLines DEF FirstOf, Stored, Fresh
<1> SUFFICES ASSUME NEW l \in L
             PROVE  /\ l \in Lines /\ Kind(l) = "row" /\ l[2] <= written[l[1]] /\ Key(l) \notin DOMAIN table
                    /\ \A m \in L : Key(m) = Key(l) => m = l
  OBVIOUS
<1>4. Kind(l) = "row"
  <2>1. ~Before(l, l)
    BY <1>1, <1>3, BeforeOrders
  <2>2. l \notin Refused(s)
    BY <1>3, <2>1 DEF Stored
  <2> QED
    BY <1>3, <2>2 DEF Refused, Fresh, Keyed
<1>5. l[2] <= written[l[1]]
  <2>1. l[1] \in Files /\ l[2] \in Nat /\ l[2] <= next[s][l[1]]
    BY <1>1, <1>2, <1>3, LineFacts, LinesToFacts DEF InHand
  <2>2. next[s][l[1]] \in Nat /\ next[s][l[1]] <= written[l[1]] /\ written[l[1]] \in Nat
    BY <1>1, <1>2, <2>1, LineFacts DEF Within, Offsets
  <2> QED
    BY <2>1, <2>2
<1>6. ASSUME NEW m \in L, Key(m) = Key(l), m # l PROVE FALSE
  <2>1. Before(m, l) \/ Before(l, m)
    BY <1>1, <1>3, <1>6, BeforeOrders
  <2> QED
    BY <1>3, <1>6, <2>1 DEF Fresh
<1> QED
  BY <1>3, <1>4, <1>5, <1>6 DEF Fresh

(* The names Delivery knows are the ones of the files.                     *)
LEMMA SameNames ==
  /\ Deliveries!Lines = Lines /\ Deliveries!Files = Files
  /\ \A l : Deliveries!Kind(l) = Kind(l) /\ Deliveries!Key(l) = Key(l) /\ (Deliveries!Keyed(l) <=> Keyed(l))
  /\ \A l, m : Deliveries!Earlier(l, m) <=> Earlier(l, m)
  /\ \A L : Deliveries!KeysOf(L) = KeysOf(L) /\ Deliveries!AddRows(table, L) = AddRows(table, L)
<1>1. Deliveries!Files = Files
  BY DEF Deliveries!Files, Files
<1>2. Deliveries!Lines = Lines
  BY <1>1 DEF Deliveries!Lines, Lines
<1>3. \A l : Deliveries!Kind(l) = Kind(l)
  BY DEF Deliveries!Kind, Kind
<1>4. \A l : Deliveries!Key(l) = Key(l)
  BY DEF Deliveries!Key, Key
<1>5. \A l : Deliveries!Keyed(l) <=> Keyed(l)
  BY <1>3 DEF Deliveries!Keyed, Keyed
<1>6. \A l, m : Deliveries!Earlier(l, m) <=> Earlier(l, m)
  BY DEF Deliveries!Earlier, Earlier
<1>7. \A L : Deliveries!KeysOf(L) = KeysOf(L)
  BY <1>4 DEF Deliveries!KeysOf, KeysOf
<1>8. \A L : Deliveries!AddRows(table, L) = AddRows(table, L)
  BY DEF Deliveries!AddRows, AddRows, Deliveries!KeysOf, KeysOf, Deliveries!Key, Key
<1> QED
  BY <1>1, <1>2, <1>3, <1>4, <1>5, <1>6, <1>7, <1>8

(* What is promised is settled by what the files will hold. *)
LEMMA PromisesStay ==
  ASSUME UNCHANGED text
  PROVE  Promised' = Promised
<1>1. \A s : Clean(s)' <=> Clean(s)
  BY SameLines DEF Clean
<1> QED
  BY <1>1 DEF Promised

LEMMA BatchDelivers ==
  ASSUME Inv, NEW s \in Streams, pc[s] = "land", NEW L \in FirstOf(Stored(s)),
         table' = AddRows(table, L), UNCHANGED <<files, lost>>
  PROVE  Deliveries!Next
<1>1. \A l \in L :
        /\ l \in Lines /\ Kind(l) = "row" /\ l[2] <= written[l[1]] /\ Key(l) \notin DOMAIN table
        /\ \A m \in L : Key(m) = Key(l) => m = l
  BY BatchDue
<1>2. \A l \in L, m \in Lines \ lost : Earlier(m, l) =>
        /\ Kind(m) \notin {"bad", "bare"}
        /\ Keyed(m) => Key(m) \in DOMAIN table \cup KeysOf(L) /\ Key(m) # Key(l)
  BY AboveRow
<1>3. L \subseteq Deliveries!Due
  BY <1>1, <1>2, SameNames DEF Deliveries!Due
<1>4. \A l \in L : Deliveries!Ripe(l, DOMAIN table \cup Deliveries!KeysOf(L))
  BY <1>2, SameNames DEF Deliveries!Ripe
<1>5. \A l \in L, m \in L : Deliveries!Key(m) = Deliveries!Key(l) => m = l
  BY <1>1, SameNames
<1>6. table' = Deliveries!AddRows(table, L) /\ UNCHANGED <<text, written, lost, Promised>>
  BY SameNames, PromisesStay DEF files
<1>7. Deliveries!Deliver(L)
  BY <1>4, <1>5, <1>6 DEF Deliveries!Deliver, Deliveries!files
<1> QED
  BY <1>3, <1>7 DEF Deliveries!Next

(* docs/works/pipeline-streaming.md section 7, "effectively once": what    *)
(* the streams do to the table, whatever is replayed, cut short, dead or   *)
(* started again, Delivery does too, step by step.                         *)
THEOREM RefinesDelivery ==
  Spec => Deliveries!Init /\ [][Deliveries!Next]_(Deliveries!vars)
<1>1. ASSUME Init PROVE Deliveries!Init
  <2>1. Promised \subseteq Files
    BY StreamAssumption DEF Promised
  <2>2. Deliveries!InitFiles /\ table = Deliveries!NoRows /\ lost = {}
    BY <1>1 DEF Init, InitFiles, Deliveries!InitFiles, NoRows, Deliveries!NoRows, Files, Deliveries!Files
  <2> QED
    BY <2>1, <2>2, SameNames DEF Deliveries!Init
<1>2. ASSUME Inv, [Next]_vars PROVE [Deliveries!Next]_(Deliveries!vars)
  <2> SUFFICES ASSUME UNCHANGED <<table, lost, text, written>> => FALSE PROVE Deliveries!Next
    <3>1. ASSUME UNCHANGED <<table, lost, text, written>> PROVE UNCHANGED Deliveries!vars
      BY <3>1, PromisesStay DEF Deliveries!vars, Deliveries!files
    <3> QED
      BY <3>1
  <2>1. Next
    BY <1>2 DEF vars, disk, files
  <2>2. ASSUME NEW s \in Streams, Start(s) \/ PollAll(s) \/ Commit(s) \/ Stop(s) PROVE FALSE
    BY <2>2 DEF Start, PollAll, Poll, Commit, Stop, disk, files
  <2>3. ASSUME NEW s \in Streams, PollSome(s) \/ ChainFails(s) \/ SaveFails(s) PROVE FALSE
    BY <2>3 DEF PollSome, Poll, ChainFails, SaveFails, disk, files
  <2>4. ASSUME NEW s \in Streams, Land(s) PROVE Deliveries!Next
    <3>1. pc[s] = "land" /\ table' = AddRows(table, Stored(s)) /\ UNCHANGED <<files, lost>>
      BY <2>4 DEF Land
    <3>2. Stored(s) \in FirstOf(Stored(s))
      BY DEF FirstOf
    <3> QED
      BY <1>2, <3>1, <3>2, BatchDelivers
  <2>5. ASSUME NEW s \in Streams, MiddleFails(s) PROVE Deliveries!Next
    <3>1. lost \subseteq lost' /\ UNCHANGED <<text, written, table>>
      BY <2>5 DEF MiddleFails, files
    <3> QED
      BY <3>1, PromisesStay DEF Deliveries!Next, Deliveries!Lose, Deliveries!files
  <2>6. ASSUME NEW f \in Files, Write(f) PROVE Deliveries!Next
    <3>1. /\ written[f] < Len(text[f]) /\ written' = [written EXCEPT ![f] = @ + 1] /\ text' = text
          /\ UNCHANGED <<table, lost>>
      BY <2>6 DEF Write, Grow
    <3>2. Deliveries!Grow(f) /\ f \in Deliveries!Files
      BY <3>1, SameNames DEF Deliveries!Grow
    <3> QED
      BY <3>1, <3>2, PromisesStay DEF Deliveries!Next
  <2>7. ASSUME Crash PROVE Deliveries!Next
    <3>1. PICK s \in Streams : \E L \in IF pc[s] = "land" THEN FirstOf(Stored(s)) ELSE {{}} : table' = AddRows(table, L)
      BY <2>7 DEF Crash
    <3>2. UNCHANGED <<files, lost>>
      BY <2>7 DEF Crash
    <3>3. CASE pc[s] = "land"
      BY <1>2, <3>1, <3>2, <3>3, BatchDelivers
    <3>4. CASE pc[s] # "land"
      <4>1. table' = AddRows(table, {})
        BY <3>1, <3>4
      <4>2. UNCHANGED <<text, written, lost, Promised>>
        BY <3>2, PromisesStay DEF files
      <4>3. Deliveries!Deliver({})
        BY <4>1, <4>2, SameNames DEF Deliveries!Deliver, Deliveries!files
      <4> QED
        BY <4>3 DEF Deliveries!Next
    <3> QED
      BY <3>3, <3>4
  <2> QED
    BY <2>1, <2>2, <2>3, <2>4, <2>5, <2>6, <2>7 DEF Next, Step
<1> QED
  BY <1>1, <1>2, Invariance, PTL DEF Spec
=============================================================================
