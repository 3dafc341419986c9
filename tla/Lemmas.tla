------------------------------ MODULE Lemmas ------------------------------
(***************************************************************************)
(* Facts about sequences and numbers that the proofs share.                *)
(***************************************************************************)
EXTENDS SequencesExt, SequenceTheorems, FiniteSetTheorems,
        WellFoundedInduction, TLAPS


(* The elements from place i on make room for e.                           *)
RoomMade(S, s, i, e, new) ==
  /\ new \in Seq(S) /\ Len(new) = Len(s) + 1
  /\ \A j \in 1..(Len(s) + 1) :
       new[j] = IF j < i THEN s[j] ELSE IF j = i THEN e ELSE s[j - 1]

LEMMA Inserting ==
  ASSUME NEW S, NEW s \in Seq(S), NEW i \in 1..(Len(s) + 1), NEW e \in S
  PROVE  RoomMade(S, s, i, e, InsertAt(s, i, e))
<1> DEFINE a == SubSeq(s, 1, i - 1)
           b == SubSeq(s, i, Len(s))
<1>1. /\ Len(s) \in Nat
      /\ \A j \in 1..Len(s) : s[j] \in S
      /\ \A j \in 1..(i - 1) : s[j] \in S
      /\ \A j \in i..Len(s) : s[j] \in S
  <2>1. Len(s) \in Nat /\ \A j \in 1..Len(s) : s[j] \in S
    BY LenProperties, ElementOfSeq
  <2> QED BY <2>1
<1>2. /\ a \in Seq(S) /\ Len(a) = i - 1
      /\ \A j \in 1..(i - 1) : a[j] = s[j]
  <2>1. /\ a \in Seq(S)
        /\ Len(a) = IF 1 <= i - 1 THEN i - 1 - 1 + 1 ELSE 0
        /\ \A j \in 1..(i - 1 - 1 + 1) : a[j] = s[1 + j - 1]
    BY <1>1, SubSeqProperties
  <2> QED BY <2>1, <1>1
<1>3. /\ b \in Seq(S) /\ Len(b) = Len(s) + 1 - i
      /\ \A j \in 1..(Len(s) + 1 - i) : b[j] = s[i + j - 1]
  <2>1. /\ b \in Seq(S)
        /\ Len(b) = IF i <= Len(s) THEN Len(s) - i + 1 ELSE 0
        /\ \A j \in 1..(Len(s) - i + 1) : b[j] = s[i + j - 1]
    BY <1>1, SubSeqProperties
  <2> QED BY <2>1, <1>1
<1>4. <<e>> \in Seq(S) /\ Len(<<e>>) = 1 /\ <<e>>[1] = e
  OBVIOUS
<1> HIDE DEF a, b
<1> DEFINE c == a \o <<e>>
<1>5. /\ c \in Seq(S) /\ Len(c) = i
      /\ \A j \in 1..i : c[j] = IF j < i THEN s[j] ELSE e
  BY <1>1, <1>2, <1>4, ConcatProperties
<1> HIDE DEF c
<1> HIDE DEF a, b, c
<1>6. /\ c \o b \in Seq(S)
      /\ Len(c \o b) = Len(c) + Len(b)
      /\ \A j \in 1..(Len(c) + Len(b)) :
           (c \o b)[j] = IF j <= Len(c) THEN c[j] ELSE b[j - Len(c)]
  BY <1>3, <1>5, ConcatProperties
<1>7. InsertAt(s, i, e) = c \o b
  BY DEF InsertAt, a, b, c
<1>8. /\ c \o b \in Seq(S) /\ Len(c \o b) = Len(s) + 1
      /\ \A j \in 1..(Len(s) + 1) :
           (c \o b)[j] = IF j < i THEN s[j] ELSE IF j = i THEN e ELSE s[j - 1]
  <2>1. /\ c \o b \in Seq(S) /\ Len(c \o b) = Len(s) + 1
        /\ Len(s) \in Nat /\ Len(c) = i
    BY <1>1, <1>3, <1>5, <1>6
  <2>2. ASSUME NEW j \in 1..(Len(s) + 1)
        PROVE  (c \o b)[j] = IF j < i THEN s[j] ELSE IF j = i THEN e ELSE s[j - 1]
    <3>1. (c \o b)[j] = IF j <= i THEN c[j] ELSE b[j - i]
      BY <1>3, <1>6, <2>1
    <3>2. CASE j <= i
      BY <1>5, <2>1, <3>1, <3>2
    <3>3. CASE j > i
      <4>1. j - i \in 1..(Len(s) + 1 - i) /\ i + (j - i) - 1 = j - 1
        BY <2>1, <3>3
      <4>2. b[j - i] = s[j - 1]
        BY ONLY <1>3, <4>1
      <4> QED BY <2>1, <3>1, <3>3, <4>2
    <3> QED BY <2>1, <3>2, <3>3
  <2> QED BY <2>1, <2>2
<1> QED BY <1>7, <1>8, Zenon DEF RoomMade

(* The elements after place i move down.                                   *)
LEMMA Removing ==
  ASSUME NEW S, NEW s \in Seq(S), NEW i \in 1..Len(s)
  PROVE  /\ RemoveAt(s, i) \in Seq(S)
         /\ Len(RemoveAt(s, i)) = Len(s) - 1
         /\ \A j \in 1..(Len(s) - 1) :
              RemoveAt(s, i)[j] = IF j < i THEN s[j] ELSE s[j + 1]
<1> DEFINE a == SubSeq(s, 1, i - 1)
           b == SubSeq(s, i + 1, Len(s))
<1>1. /\ Len(s) \in Nat
      /\ \A j \in 1..Len(s) : s[j] \in S
      /\ \A j \in 1..(i - 1) : s[j] \in S
      /\ \A j \in (i + 1)..Len(s) : s[j] \in S
  <2>1. Len(s) \in Nat /\ \A j \in 1..Len(s) : s[j] \in S
    BY LenProperties, ElementOfSeq
  <2> QED BY <2>1
<1>2. /\ a \in Seq(S) /\ Len(a) = i - 1
      /\ \A j \in 1..(i - 1) : a[j] = s[j]
  <2>1. /\ a \in Seq(S)
        /\ Len(a) = IF 1 <= i - 1 THEN i - 1 - 1 + 1 ELSE 0
        /\ \A j \in 1..(i - 1 - 1 + 1) : a[j] = s[1 + j - 1]
    BY <1>1, SubSeqProperties
  <2> QED BY <2>1, <1>1
<1>3. /\ b \in Seq(S) /\ Len(b) = Len(s) - i
      /\ \A j \in 1..(Len(s) - i) : b[j] = s[i + j]
  <2>1. /\ b \in Seq(S)
        /\ Len(b) = IF i + 1 <= Len(s) THEN Len(s) - (i + 1) + 1 ELSE 0
        /\ \A j \in 1..(Len(s) - (i + 1) + 1) : b[j] = s[i + 1 + j - 1]
    BY <1>1, SubSeqProperties
  <2> QED BY <2>1, <1>1
<1> HIDE DEF a, b
<1>4. /\ a \o b \in Seq(S) /\ Len(a \o b) = Len(a) + Len(b)
      /\ \A j \in 1..(Len(a) + Len(b)) :
           (a \o b)[j] = IF j <= Len(a) THEN a[j] ELSE b[j - Len(a)]
  BY <1>2, <1>3, ConcatProperties
<1>5. RemoveAt(s, i) = a \o b
  BY DEF RemoveAt, a, b
<1>6. Len(a) = i - 1 /\ Len(a \o b) = Len(s) - 1
  BY <1>1, <1>2, <1>3, <1>4
<1>7. ASSUME NEW j \in 1..(Len(s) - 1)
      PROVE  (a \o b)[j] = IF j < i THEN s[j] ELSE s[j + 1]
  <2>1. (a \o b)[j] = IF j <= i - 1 THEN a[j] ELSE b[j - (i - 1)]
    BY <1>4, <1>6
  <2>2. CASE j < i
    BY <1>1, <1>2, <2>1, <2>2
  <2>3. CASE ~(j < i)
    <3>1. j - (i - 1) \in 1..(Len(s) - i) /\ i + (j - (i - 1)) = j + 1
      BY <1>1, <2>3
    <3>2. b[j - (i - 1)] = s[j + 1]
      BY <1>3, <3>1
    <3> QED BY <1>1, <2>1, <2>3, <3>2
  <2> QED BY <2>2, <2>3
<1> QED BY <1>4, <1>5, <1>6, <1>7

(* A nonempty set of natural numbers has a smallest: numbers are ordered   *)
(* as the intervals from 0 to them are by inclusion.                       *)
LEMMA Smallest ==
  ASSUME NEW T \in SUBSET Nat, T # {}
  PROVE  \E m \in T : \A n \in T : m <= n
<1> DEFINE I == {0..n : n \in T}
           R == StrictSubsetOrdering(Nat)
<1>1. IsWellFoundedOn(R, FiniteSubsetsOf(Nat))
  BY FS_StrictSubsetOrderingWellFounded
<1>2. I \subseteq FiniteSubsetsOf(Nat)
  <2>1. \A n \in T : n \in Nat /\ 0..n \in SUBSET Nat
    OBVIOUS
  <2>2. \A n \in T : IsFiniteSet(0..n)
    BY FS_Interval
  <2> QED BY <2>1, <2>2 DEF FiniteSubsetsOf
<1>3. I # {}
  OBVIOUS
<1> HIDE DEF R
<1>4. \E x \in I : \A y \in I : <<y, x>> \notin R
  <2> HIDE DEF I
  <2> QED BY <1>1, <1>2, <1>3, WFMin
<1>5. PICK m \in T : \A n \in T : <<0..n, 0..m>> \notin R
  BY <1>4
<1>6. ASSUME NEW n \in T, n < m PROVE FALSE
  <2>1. 0..n \subseteq 0..m /\ m \in 0..m /\ m \notin 0..n
    BY <1>6
  <2>2. <<0..n, 0..m>> \in R
    BY <2>1 DEF R, StrictSubsetOrdering
  <2> QED BY <1>5, <1>6, <2>2
<1> QED BY <1>5, <1>6

---------------------------------------------------------------------------
(* Numbers that wrap.                                                      *)

(* Division with remainder.                                                *)
LEMMA DivMod ==
  ASSUME NEW a \in Int, NEW m \in Nat, m >= 1
  PROVE  /\ a % m \in 0..(m - 1) /\ a \div m \in Int
         /\ a = m * (a \div m) + (a % m)
OBVIOUS

(* The only multiple of m strictly between -m and m is 0.                  *)
LEMMA SmallMultiple ==
  ASSUME NEW m \in Nat, m >= 1, NEW k \in Int, m * k < m, -m < m * k
  PROVE  k = 0
<1>1. CASE k >= 1 BY <1>1
<1>2. CASE k <= -1 BY <1>2
<1> QED BY <1>1, <1>2

(* Wrapped numbers that are equal and less than a lap apart are the same:  *)
(* what makes comparing truncated tickets enough.                          *)
LEMMA SameWrapped ==
  ASSUME NEW a \in Int, NEW b \in Int, NEW m \in Nat, m >= 1,
         a % m = b % m, a - b < m, b - a < m
  PROVE  a = b
<1> DEFINE qa == a \div m
           qb == b \div m
<1>1. /\ qa \in Int /\ qb \in Int
      /\ a = m * qa + (a % m) /\ b = m * qb + (b % m)
  BY DivMod
<1>2. a % m \in Int /\ b % m \in Int
  BY DivMod
<1> HIDE DEF qa, qb
<1>3. m * (qa - qb) = m * qa - m * qb
  BY <1>1
<1>4. a - b = m * (qa - qb)
  BY <1>1, <1>2, <1>3
<1>5. qa - qb = 0
  BY <1>1, <1>4, SmallMultiple
<1> QED BY <1>1, <1>5

(* A number below the modulus is its own remainder.                        *)
LEMMA SmallNumber ==
  ASSUME NEW m \in Nat, NEW k \in Nat, k < m
  PROVE  k % m = k
<1> DEFINE q == k \div m
           r == k % m
<1>1. q \in Int /\ r \in 0..(m - 1) /\ k = m * q + r
  BY DivMod
<1> HIDE DEF q, r
<1>2. m * q = k - r
  BY <1>1
<1>3. q = 0
  BY <1>1, <1>2, SmallMultiple
<1>4. r = k
  BY <1>1, <1>3
<1> QED BY <1>4 DEF r

(* A whole number of laps, folded so that the lemma below can be applied.  *)
Laps(q, m) == m * q

(* Whole laps do not change the wrapped number.                            *)
LEMMA LapsVanish ==
  ASSUME NEW m \in Nat, m >= 1, NEW q \in Int,
         NEW a \in Int, NEW b \in Int, b = a + Laps(q, m)
  PROVE  b % m = a % m
<1> DEFINE qa == a \div m
           qb == b \div m
           ra == a % m
           rb == b % m
<1>1. /\ qa \in Int /\ a = m * qa + ra /\ ra \in 0..(m - 1)
      /\ qb \in Int /\ b = m * qb + rb /\ rb \in 0..(m - 1)
  BY DivMod
<1>2. b = a + m * q /\ m * q \in Int
  BY DEF Laps
<1> HIDE DEF qa, qb, ra, rb
<1>3. m * ((qa + q) - qb) = m * qa + m * q - m * qb
  BY <1>1
<1>4. rb - ra = m * ((qa + q) - qb)
  BY <1>1, <1>2, <1>3
<1>5. (qa + q) - qb = 0
  BY <1>1, <1>4, SmallMultiple
<1>6. rb = ra
  BY <1>1, <1>4, <1>5
<1> QED BY <1>6 DEF ra, rb
---------------------------------------------------------------------------
(* The first occurrence of an element that occurs once is where it is.     *)
LEMMA RemovingFirst ==
  ASSUME NEW S, NEW s \in Seq(S), NEW i \in 1..Len(s),
         \A j \in 1..Len(s) : s[j] = s[i] => j = i
  PROVE  RemoveFirst(s, s[i]) = RemoveAt(s, i)
<1> DEFINE I == {j \in 1..Len(s) : s[j] = s[i]}
<1>1. I = {i}
  OBVIOUS
<1>2. SelectInSeq(s, LAMBDA v : v = s[i]) = IF I # {} THEN Min(I) ELSE 0
  BY DEF SelectInSeq
<1>3. Len(s) \in Nat
  BY LenProperties
<1>4. Min({i}) = i
  BY <1>3 DEF Min
<1> QED BY <1>1, <1>2, <1>4 DEF RemoveFirst

(* A sequence of distinct elements is no longer than their set is large.   *)
LEMMA DistinctLength ==
  ASSUME NEW S, IsFiniteSet(S), NEW s \in Seq(S),
         \A i, j \in 1..Len(s) : s[i] = s[j] => i = j
  PROVE  Len(s) <= Cardinality(S)
<1>1. Len(s) \in Nat /\ s \in [1..Len(s) -> S]
  BY LenProperties
<1>2. IsFiniteSet(1..Len(s)) /\ Cardinality(1..Len(s)) = Len(s)
  BY <1>1, FS_Interval
<1>3. Cardinality(S) \in Nat
  BY FS_CardinalityType
<1>4. CASE Cardinality(S) < Len(s)
  <2>1. \E x, y \in 1..Len(s) : x # y /\ s[x] = s[y]
    BY <1>1, <1>2, <1>4, FS_PigeonHole
  <2> QED BY <2>1
<1> QED BY <1>1, <1>3, <1>4

(* f is what n steps make of a.                                            *)
Iterates(f, S, n, a, step) ==
  f \in [0..n -> S] /\ f[0] = a /\ \A k \in 1..n : f[k] = step[k][f[k - 1]]

(* A state is led on by any number of steps: a recursion over them has a   *)
(* result.                                                                 *)
LEMMA Iterating ==
  ASSUME NEW S, NEW n \in Nat, NEW a \in S, NEW step \in [1..n -> [S -> S]]
  PROVE  \E f : Iterates(f, S, n, a, step)
<1> DEFINE Steps(f, m) == f \in [0..m -> S] /\ f[0] = a /\ \A k \in 1..m : f[k] = step[k][f[k - 1]]
           Bad == {m \in 0..n : ~\E f : Steps(f, m)}
<1>0. /\ Bad \in SUBSET Nat
      /\ \A m \in Bad : m \in 0..n /\ ~\E f : Steps(f, m)
      /\ \A m \in 0..n : m \notin Bad => \E f : Steps(f, m)
  <2> HIDE DEF Steps
  <2> QED OBVIOUS
<1> HIDE DEF Bad
<1>1. ASSUME Bad # {} PROVE FALSE
  <2> HIDE DEF Steps
  <2>1. PICK m \in Bad : \A j \in Bad : m <= j
    BY <1>0, <1>1, Smallest
  <2> USE DEF Steps
  <2>2. CASE m = 0
    <3>1. Steps([k \in 0..0 |-> a], 0)
      OBVIOUS
    <3> HIDE DEF Steps
    <3> QED BY <1>0, <2>1, <2>2, <3>1
  <2>3. CASE m > 0
    <3>1. m - 1 \in 0..n /\ m - 1 \notin Bad
      BY <1>0, <2>1, <2>3
    <3>2. PICK f : Steps(f, m - 1)
      BY <1>0, <3>1
    <3> DEFINE g == [k \in 0..m |-> IF k < m THEN f[k] ELSE step[m][f[m - 1]]]
    <3>3. m \in 1..n /\ m - 1 \in 0..(m - 1)
      BY <1>0, <2>3, <2>1
    <3>4. step[m][f[m - 1]] \in S
      BY <3>2, <3>3
    <3>5. g \in [0..m -> S]
      <4>1. ASSUME NEW k \in 0..m PROVE g[k] \in S
        <5>1. CASE k < m
          <6>1. k \in 0..(m - 1) BY <5>1, <3>3
          <6> QED BY <6>1, <3>2, <5>1
        <5>2. CASE ~(k < m) BY <5>2, <3>4
        <5> QED BY <5>1, <5>2
      <4> QED BY <4>1
    <3>6. g[0] = a
      BY <2>3, <3>2, <3>3
    <3>7. ASSUME NEW k \in 1..m PROVE g[k] = step[k][g[k - 1]]
      <4>1. k - 1 \in 0..m /\ k - 1 < m /\ k \in 0..m
        BY <3>3
      <4>2. g[k - 1] = f[k - 1]
        BY <4>1
      <4>3. CASE k < m
        <5>1. k \in 1..(m - 1) BY <4>3, <3>3
        <5> QED BY <5>1, <4>2, <4>3, <4>1, <3>2
      <4>4. CASE ~(k < m)
        <5>1. k = m BY <4>4, <3>3
        <5> QED BY <5>1, <4>1, <4>2
      <4> QED BY <4>3, <4>4
    <3>8. Steps(g, m)
      <4> HIDE DEF g
      <4> QED BY <3>5, <3>6, <3>7
    <3> HIDE DEF Steps, g
    <3> QED BY <1>0, <2>1, <3>8
  <2> QED BY <1>0, <2>1, <2>2, <2>3
<1>2. n \notin Bad /\ n \in 0..n
  BY <1>1
<1>3. PICK f : Steps(f, n)
  <2> HIDE DEF Steps
  <2> QED BY <1>0, <1>2
<1>4. Iterates(f, S, n, a, step)
  BY <1>3 DEF Iterates
<1> QED BY <1>4

(* The numbers up to n, one after the other.                               *)
LEMMA Counting ==
  ASSUME NEW n \in Nat, NEW T, 0 \in T, \A k \in 1..n : k - 1 \in T => k \in T
  PROVE  \A k \in 0..n : k \in T
<1> DEFINE Bad == {k \in 0..n : k \notin T}
<1>1. ASSUME Bad # {} PROVE FALSE
  <2>0. Bad \in SUBSET Nat
    OBVIOUS
  <2>1. PICK m \in Bad : \A j \in Bad : m <= j
    <3> HIDE DEF Bad
    <3> QED BY <1>1, <2>0, Smallest
  <2>2. m \in 1..n /\ m - 1 \in 0..n
    BY <2>1
  <2>3. m - 1 \in T
    BY <2>1, <2>2
  <2> QED BY <2>1, <2>2, <2>3
<1> QED BY <1>1
==============================================================================
