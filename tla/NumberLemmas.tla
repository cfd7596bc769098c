---------------------------- MODULE NumberLemmas ----------------------------
(***************************************************************************)
(* Natural numbers: what the proofs of this project need of them that the  *)
(* provers do not know.  Induction is stated of a set, so that it can be   *)
(* cited of any set a proof defines.                                       *)
(***************************************************************************)
EXTENDS Naturals, WellFoundedInduction, TLAPS

LEMMA NatOrder == \E R : IsWellFoundedOn(R, Nat) /\ \A x, y \in Nat : x < y => <<x, y>> \in R
<1>1. IsWellFoundedOn(OpToRel(<, Nat), Nat)
  BY NatLessThanWellFounded, Zenon
<1>2. \A x, y \in Nat : x < y => <<x, y>> \in OpToRel(<, Nat)
  BY Zenon DEF OpToRel
<1> QED
  BY <1>1, <1>2, Zenon

(* A set of naturals has a least element. *)
LEMMA SmallestIn ==
  ASSUME NEW S, S \subseteq Nat, S # {}
  PROVE  \E m \in S : \A n \in S : m <= n
<1>1. PICK R : IsWellFoundedOn(R, Nat) /\ \A x, y \in Nat : x < y => <<x, y>> \in R
  BY NatOrder, Zenon
<1>2. \E m \in S : \A n \in S : ~(<<n, m>> \in R)
  <2>1. S \subseteq Nat /\ S # {} /\ IsWellFoundedOn(R, Nat)
    BY <1>1
  <2> QED
    BY <2>1, WFMin, Zenon
<1> PICK m \in S : \A n \in S : ~(<<n, m>> \in R)
  BY <1>2
<1>3. \A n \in S : ~(n < m)
  BY <1>1, Zenon
<1> QED
  BY <1>3

(* A bounded one has a largest. *)
LEMMA LargestIn ==
  ASSUME NEW k \in Nat, NEW S, S \subseteq 1..k, S # {}
  PROVE  \E m \in S : \A n \in S : n <= m
<1> DEFINE T == {k - n : n \in S}
<1>1. T \subseteq Nat
  <2> SUFFICES ASSUME NEW n \in S PROVE k - n \in Nat
    OBVIOUS
  <2> QED
    OBVIOUS
<1>2. T # {}
  OBVIOUS
<1>3. \A n \in S : k - n \in T
  OBVIOUS
<1>4. \A x \in T : \E n \in S : x = k - n
  OBVIOUS
<1> HIDE DEF T
<1>5. PICK x \in T : \A y \in T : x <= y
  BY <1>1, <1>2, SmallestIn
<1>6. PICK m \in S : x = k - m
  BY <1>4
<1>7. \A n \in S : k - m <= k - n
  BY <1>3, <1>5, <1>6
<1> QED
  BY <1>7

(* A set that has 0, and with a number up to k the one after it, has them  *)
(* all.                                                                    *)
LEMMA UpTo ==
  ASSUME NEW k \in Nat, NEW S, 0 \in S, \A n \in 0..k : n \in S /\ n < k => n + 1 \in S
  PROVE  0..k \subseteq S
<1> SUFFICES ASSUME (0..k) \ S # {} PROVE FALSE
  OBVIOUS
<1> DEFINE T == (0..k) \ S
<1>1. T \subseteq Nat /\ T # {} /\ \A n \in T : n \in 0..k /\ n \notin S
  OBVIOUS
<1>2. \A n \in 0..k : n \in S \/ n \in T
  OBVIOUS
<1> HIDE DEF T
<1>3. PICK m \in T : \A n \in T : m <= n
  BY <1>1, SmallestIn
<1>4. m \in 0..k /\ m \notin S /\ m # 0
  BY <1>1, <1>3
<1>5. m - 1 \in 0..k /\ m - 1 < k /\ m - 1 < m /\ (m - 1) + 1 = m
  BY <1>4
<1>6. m - 1 \in S
  <2>1. m - 1 \notin T
    BY <1>3, <1>5
  <2> QED
    BY <1>2, <1>5, <2>1
<1>7. (m - 1) + 1 \in S
  BY <1>5, <1>6
<1> QED
  BY <1>4, <1>5, <1>7

Moves(n, X) == [1..n -> [X -> X]]

WorkedOn(n, X, z, H) == {f \in [0..n -> X] : f[0] = z /\ \A i \in 1..n : f[i] = H[i][f[i - 1]]}

(* Working forward from the start, a place at a time. *)
LEMMA Forwards ==
  ASSUME NEW n \in Nat, NEW X, NEW z \in X, NEW H \in Moves(n, X)
  PROVE  \E f : f \in WorkedOn(n, X, z, H)
<1>0. \A i \in 1..n, x \in X : H[i][x] \in X
  BY DEF Moves
<1> DEFINE P(m, f) == f \in [0..m -> X] /\ f[0] = z /\ \A i \in 1..m : f[i] = H[i][f[i - 1]]
           S == {m \in 0..n : \E f : P(m, f)}
<1>1. 0 \in S
  <2> DEFINE c == [i \in 0..0 |-> z]
  <2>1. c \in [0..0 -> X] /\ c[0] = z /\ \A i \in 1..0 : FALSE
    OBVIOUS
  <2>2. P(0, c)
    BY <2>1
  <2>3. 0 \in 0..n
    OBVIOUS
  <2> HIDE DEF P, c
  <2> QED
    BY <2>2, <2>3
<1>2. ASSUME NEW m \in 0..n, m \in S, m < n PROVE m + 1 \in S
  <2>1. PICK f : P(m, f)
    BY <1>2
  <2>2. f \in [0..m -> X] /\ f[0] = z /\ \A i \in 1..m : f[i] = H[i][f[i - 1]]
    BY <2>1
  <2> HIDE DEF P, S
  <2>3. m + 1 \in 1..n /\ m \in 0..m /\ m + 1 \notin 0..m
    BY <1>2
  <2> DEFINE d == H[m + 1][f[m]]
             g == [i \in 0..(m + 1) |-> IF i = m + 1 THEN d ELSE f[i]]
  <2>4. d \in X
    <3>1. f[m] \in X
      BY <2>2, <2>3
    <3> QED
      BY <1>0, <2>3, <3>1, Zenon
  <2>5. d = H[m + 1][f[m]]
    OBVIOUS
  <2> HIDE DEF d
  <2>6. g \in [0..(m + 1) -> X] /\ g[m + 1] = d /\ \A i \in 0..m : g[i] = f[i]
    BY <2>2, <2>3, <2>4
  <2> HIDE DEF g
  <2>7. g[0] = z
    BY <2>2, <2>6
  <2>8. ASSUME NEW i \in 1..(m + 1) PROVE g[i] = H[i][g[i - 1]]
    <3>1. CASE i = m + 1
      <4>1. i - 1 = m
        BY <3>1
      <4>2. g[i - 1] = f[m]
        BY <2>3, <2>6, <4>1
      <4> QED
        BY <2>5, <2>6, <3>1, <4>2
    <3>2. CASE i # m + 1
      <4>1. i \in 1..m /\ i \in 0..m /\ i - 1 \in 0..m
        BY <3>2
      <4>2. g[i] = f[i] /\ g[i - 1] = f[i - 1] /\ f[i] = H[i][f[i - 1]]
        BY <2>2, <2>6, <4>1
      <4> QED
        BY <4>2
    <3> QED
      BY <3>1, <3>2
  <2>9. P(m + 1, g)
    BY <2>6, <2>7, <2>8 DEF P
  <2>10. m + 1 \in 0..n
    BY <2>3
  <2> QED
    BY <2>9, <2>10 DEF S
<1>3. \E f : P(n, f)
  <2> HIDE DEF P
  <2>1. n \in 0..n
    OBVIOUS
  <2>2. 0..n \subseteq S
    <3> HIDE DEF S
    <3> QED
      BY <1>1, <1>2, UpTo
  <2> QED
    BY <2>1, <2>2
<1> QED
  BY <1>3 DEF WorkedOn

(* Adding up as one goes: there is a function of the partial sums. *)
LEMMA PartialSums ==
  ASSUME NEW k \in Nat, NEW c \in [1..k -> [Nat -> Nat]]
  PROVE  \E g \in [0..k -> Nat] : g[0] = 0 /\ \A i \in 1..k : g[i] = g[i - 1] + c[i][g[i - 1]]
<1> DEFINE P(j, g) == g \in [0..j -> Nat] /\ g[0] = 0 /\ \A i \in 1..j : g[i] = g[i - 1] + c[i][g[i - 1]]
           S == {j \in 0..k : \E g : P(j, g)}
<1>1. 0 \in S
  <2> DEFINE z == [i \in 0..0 |-> 0]
  <2>1. z \in [0..0 -> Nat] /\ z[0] = 0 /\ \A i \in 1..0 : FALSE
    OBVIOUS
  <2>2. P(0, z)
    <3> HIDE DEF z
    <3> QED
      BY <2>1
  <2> HIDE DEF P
  <2> QED
    BY <2>2
<1>2. ASSUME NEW j \in 0..k, j \in S, j < k PROVE j + 1 \in S
  <2>1. PICK g : P(j, g)
    BY <1>2
  <2>2. j \in Nat /\ j + 1 \in 1..k /\ j + 1 \in 0..k /\ j \in 0..j
    BY <1>2
  <2>3. g \in [0..j -> Nat] /\ g[0] = 0
    BY <2>1
  <2>4. \A i \in 1..j : g[i] = g[i - 1] + c[i][g[i - 1]]
    BY <2>1
  <2> HIDE DEF P, S
  <2> DEFINE d == g[j] + c[j + 1][g[j]]
             h == [i \in 0..(j + 1) |-> IF i <= j THEN g[i] ELSE d]
  <2>5. d \in Nat
    <3>1. g[j] \in Nat
      BY <2>2, <2>3
    <3>2. c[j + 1] \in [Nat -> Nat]
      BY <2>2
    <3>3. c[j + 1][g[j]] \in Nat
      BY <3>1, <3>2
    <3>4. \A a, b \in Nat : a + b \in Nat
      OBVIOUS
    <3> QED
      BY <3>1, <3>3, <3>4, Zenon
  <2>6. d = g[j] + c[j + 1][g[j]]
    OBVIOUS
  <2> HIDE DEF d
  <2>7. h[0] = 0 /\ h[j + 1] = d /\ \A i \in 0..j : h[i] = g[i]
    BY <2>2, <2>3
  <2>8. h \in [0..(j + 1) -> Nat]
    <3>1. ASSUME NEW i \in 0..(j + 1) PROVE (IF i <= j THEN g[i] ELSE d) \in Nat
      <4>1. i <= j => i \in 0..j
        BY <2>2
      <4>2. i <= j => g[i] \in Nat
        BY <2>3, <4>1
      <4> QED
        BY <2>5, <4>2, Zenon
    <3> QED
      BY <3>1, Zenon
  <2> HIDE DEF h
  <2>9. ASSUME NEW i \in 1..(j + 1) PROVE h[i] = h[i - 1] + c[i][h[i - 1]]
    <3>1. CASE i <= j
      <4>1. i \in 0..j /\ i - 1 \in 0..j /\ i \in 1..j
        BY <2>2, <3>1
      <4>2. g[i] = g[i - 1] + c[i][g[i - 1]]
        BY <2>4, <4>1
      <4>3. h[i] = g[i] /\ h[i - 1] = g[i - 1]
        BY <2>7, <4>1
      <4> QED
        BY <4>2, <4>3
    <3>2. CASE i = j + 1
      <4>1. i - 1 = j
        BY <2>2, <3>2
      <4>2. h[i - 1] = g[j] /\ h[i] = d
        BY <2>2, <2>7, <3>2, <4>1
      <4> QED
        BY <2>6, <3>2, <4>2
    <3>3. i <= j \/ i = j + 1
      BY <2>2
    <3> QED
      BY <3>1, <3>2, <3>3
  <2>10. P(j + 1, h)
    BY <2>7, <2>8, <2>9 DEF P
  <2> QED
    BY <2>2, <2>10 DEF S
<1>3. 0..k \subseteq S
  <2> HIDE DEF S
  <2> QED
    BY <1>1, <1>2, UpTo
<1>4. \E g : P(k, g)
  <2>1. k \in S
    <3>1. k \in 0..k
      OBVIOUS
    <3> HIDE DEF S
    <3> QED
      BY <1>3, <3>1
  <2> HIDE DEF P
  <2> QED
    BY <2>1
<1> QED
  BY <1>4

Steps(n, X) == [1..n -> [X -> [X -> X]]]

(* Working back from the end, two places at a time: what there is at each  *)
(* place is what a step makes of what there is at the next two.            *)
WorkedBack(n, X, z, H) ==
  {f \in [1..(n + 2) -> X] :
     f[n + 1] = z /\ f[n + 2] = z /\ \A i \in 1..n : f[i] = H[i][f[i + 1]][f[i + 2]]}

LEMMA Backwards ==
  ASSUME NEW n \in Nat, NEW X, NEW z \in X, NEW H \in Steps(n, X)
  PROVE  \E f : f \in WorkedBack(n, X, z, H)
<1>0. \A i \in 1..n, x, y \in X : H[i][x][y] \in X
  BY DEF Steps
<1> DEFINE P(m, f) == /\ f \in [1..(n + 2) -> X] /\ f[n + 1] = z /\ f[n + 2] = z
                      /\ \A i \in 1..n : i > n - m => f[i] = H[i][f[i + 1]][f[i + 2]]
           S == {m \in 0..n : \E f : P(m, f)}
<1>1. 0 \in S
  <2> DEFINE c == [i \in 1..(n + 2) |-> z]
  <2>1. c \in [1..(n + 2) -> X] /\ c[n + 1] = z /\ c[n + 2] = z
    OBVIOUS
  <2>2. \A i \in 1..n : ~(i > n - 0)
    OBVIOUS
  <2>3. 0 \in 0..n
    OBVIOUS
  <2> HIDE DEF c
  <2> QED
    BY <2>1, <2>2, <2>3
<1>2. ASSUME NEW m \in 0..n, m \in S, m < n PROVE m + 1 \in S
  <2>1. PICK f : P(m, f)
    BY <1>2
  <2>2. f \in [1..(n + 2) -> X] /\ f[n + 1] = z /\ f[n + 2] = z
    BY <2>1
  <2>3. \A i \in 1..n : i > n - m => f[i] = H[i][f[i + 1]][f[i + 2]]
    BY <2>1
  <2> HIDE DEF P, S
  <2>4. PICK j \in 1..n : j = n - m
    BY <1>2
  <2>5. f[j + 1] \in X /\ f[j + 2] \in X
    BY <2>2, <2>4
  <2> DEFINE d == H[j][f[j + 1]][f[j + 2]]
             g == [i \in 1..(n + 2) |-> IF i = j THEN d ELSE f[i]]
  <2>6. d \in X
    BY <1>0, <2>5, Zenon
  <2>7. g \in [1..(n + 2) -> X]
    <3> HIDE DEF d
    <3> QED
      BY <2>2, <2>6
  <2>8. g[j] = d /\ \A i \in 1..(n + 2) : i # j => g[i] = f[i]
    <3> HIDE DEF d
    <3> QED
      BY <2>4
  <2>9. d = H[j][f[j + 1]][f[j + 2]]
    OBVIOUS
  <2> HIDE DEF d, g
  <2>10. g[n + 1] = z /\ g[n + 2] = z
    <3>1. n + 1 \in 1..(n + 2) /\ n + 2 \in 1..(n + 2) /\ n + 1 # j /\ n + 2 # j
      BY <2>4
    <3> QED
      BY <2>2, <2>8, <3>1
  <2>11. ASSUME NEW i \in 1..n, i > n - (m + 1) PROVE g[i] = H[i][g[i + 1]][g[i + 2]]
    <3>1. i >= j
      BY <1>2, <2>4, <2>11
    <3>2. i + 1 \in 1..(n + 2) /\ i + 2 \in 1..(n + 2) /\ i + 1 # j /\ i + 2 # j
      BY <2>4, <3>1
    <3>3. g[i + 1] = f[i + 1] /\ g[i + 2] = f[i + 2]
      BY <2>8, <3>2
    <3>4. CASE i = j
      BY <2>8, <2>9, <3>3, <3>4
    <3>5. CASE i # j
      <4>1. i > n - m /\ i \in 1..(n + 2)
        BY <1>2, <2>4, <3>1, <3>5
      <4> QED
        BY <2>3, <2>8, <3>3, <3>5, <4>1
    <3> QED
      BY <3>4, <3>5
  <2>12. P(m + 1, g)
    BY <2>7, <2>10, <2>11 DEF P
  <2>13. m + 1 \in 0..n
    BY <1>2
  <2> QED
    BY <2>12, <2>13 DEF S
<1>3. \E f : P(n, f)
  <2> HIDE DEF P
  <2>1. n \in 0..n
    OBVIOUS
  <2>2. 0..n \subseteq S
    <3> HIDE DEF S
    <3> QED
      BY <1>1, <1>2, UpTo
  <2> QED
    BY <2>1, <2>2
<1>4. \A i \in 1..n : i > n - n
  OBVIOUS
<1> QED
  BY <1>3, <1>4 DEF WorkedBack

(* What holds of the last two places, and of each place when it holds of   *)
(* the next two, holds of all.                                             *)
LEMMA DownFrom ==
  ASSUME NEW n \in Nat, NEW S, n + 1 \in S, n + 2 \in S,
         \A i \in 1..n : i + 1 \in S /\ i + 2 \in S => i \in S
  PROVE  1..(n + 2) \subseteq S
<1> DEFINE T == {m \in 0..n : \A i \in 1..(n + 2) : i > n - m => i \in S}
<1>1. 0 \in T
  <2>1. ASSUME NEW i \in 1..(n + 2), i > n - 0 PROVE i \in S
    <3>1. i = n + 1 \/ i = n + 2
      BY <2>1
    <3> QED
      BY <3>1
  <2>2. 0 \in 0..n
    OBVIOUS
  <2> QED
    BY <2>1, <2>2
<1>2. ASSUME NEW m \in 0..n, m \in T, m < n PROVE m + 1 \in T
  <2>1. PICK j \in 1..n : j = n - m
    BY <1>2
  <2>2. \A i \in 1..(n + 2) : i > n - m => i \in S
    BY <1>2
  <2> HIDE DEF T
  <2>3. j + 1 \in S /\ j + 2 \in S
    BY <2>1, <2>2
  <2>4. j \in S
    BY <2>3
  <2>5. \A i \in 1..(n + 2) : i > n - (m + 1) => i = j \/ i > n - m
    BY <1>2, <2>1
  <2>6. m + 1 \in 0..n
    BY <1>2
  <2> QED
    BY <2>2, <2>4, <2>5, <2>6 DEF T
<1>3. 0..n \subseteq T
  <2> HIDE DEF T
  <2> QED
    BY <1>1, <1>2, UpTo
<1>4. n \in 0..n /\ \A i \in 1..(n + 2) : i > n - n
  OBVIOUS
<1> QED
  BY <1>3, <1>4
=============================================================================
