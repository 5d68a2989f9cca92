-------------------------- MODULE SkewGrowthProofs --------------------------
(***************************************************************************)
(* Proofs about SkewGrowth.  The k-th smallest value is pinned down by how *)
(* many values are below it and how many are not above it; how it moves    *)
(* when a task is added or the largest grows follows from counting, and    *)
(* the four properties of judge from that.                                 *)
(***************************************************************************)
EXTENDS SkewGrowth, Counting, SequenceTheorems

-----------------------------------------------------------------------------
(* The k-th smallest of a list of integers.                                *)

(* There is a k-th smallest: Kth is one.                                   *)
LEMMA KthExists ==
  ASSUME NEW vals \in Seq(Int), NEW k \in 1 .. Len(vals)
  PROVE  IsKth(vals, k, Kth(vals, k)) /\ Kth(vals, k) \in Int
<1>1. PICK v \in Int : IsKth(vals, k, v) BY SomeKth
<1>2. \A w \in Members(vals) : w \in Int BY Positions DEF Members
<1>3. v \in Members(vals) BY <1>1 DEF IsKth, Members
<1>4. Kth(vals, k) = CHOOSE w \in Members(vals) :
                       /\ Cardinality(Under(vals, w)) < k
                       /\ Cardinality(UpTo(vals, w)) >= k
  BY DEF Kth, Under, UpTo
<1>5. /\ Kth(vals, k) \in Members(vals)
      /\ Cardinality(Under(vals, Kth(vals, k))) < k
      /\ Cardinality(UpTo(vals, Kth(vals, k))) >= k
  BY <1>1, <1>3, <1>4 DEF IsKth
<1> QED BY <1>2, <1>5 DEF IsKth, Members

(* A smaller rank has a value no larger: so there is only one.             *)
LEMMA KthMonotone ==
  ASSUME NEW vals \in Seq(Int), NEW j \in Int, NEW k \in Int, j <= k,
         NEW v \in Int, NEW w \in Int, IsKth(vals, j, v), IsKth(vals, k, w)
  PROVE  v <= w
<1> SUFFICES ASSUME w < v PROVE FALSE OBVIOUS
<1>1. UpTo(vals, w) \subseteq Under(vals, v)
  BY Positions DEF UpTo, Under
<1>2. Cardinality(UpTo(vals, w)) <= Cardinality(Under(vals, v))
      /\ Cardinality(Under(vals, v)) \in Nat /\ Cardinality(UpTo(vals, w)) \in Nat
  BY <1>1, CountsOf
<1> QED BY <1>2 DEF IsKth

LEMMA KthIs ==
  ASSUME NEW vals \in Seq(Int), NEW k \in 1 .. Len(vals), NEW v \in Int,
         IsKth(vals, k, v)
  PROVE  Kth(vals, k) = v
<1>1. IsKth(vals, k, Kth(vals, k)) /\ Kth(vals, k) \in Int BY KthExists
<1>2. k \in Int /\ k <= k BY Positions
<1>3. Kth(vals, k) <= v /\ v <= Kth(vals, k) BY <1>1, <1>2, KthMonotone
<1> QED BY <1>1, <1>3

LEMMA KthOrdered ==
  ASSUME NEW vals \in Seq(Int), NEW j \in 1 .. Len(vals), NEW k \in 1 .. Len(vals),
         j <= k
  PROVE  Kth(vals, j) <= Kth(vals, k)
<1>1. j \in Int /\ k \in Int BY Positions
<1> QED BY <1>1, KthExists, KthMonotone

(* The last of them is the largest value.                                  *)
LEMMA LargestBounds ==
  ASSUME NEW vals \in Seq(Int), Len(vals) > 0
  PROVE  /\ Largest(vals) \in Int
         /\ \E i \in DOMAIN vals : vals[i] = Largest(vals)
         /\ \A i \in DOMAIN vals : vals[i] <= Largest(vals)
<1> DEFINE L == Largest(vals)
<1>1. /\ \A i \in DOMAIN vals : vals[i] \in Int
      /\ Len(vals) \in Nat /\ Len(vals) \in 1 .. Len(vals)
      /\ IsFiniteSet(DOMAIN vals) /\ Cardinality(DOMAIN vals) = Len(vals)
  BY Positions
<1>2. IsKth(vals, Len(vals), L) /\ L \in Int BY <1>1, KthExists DEF Largest
<1>3. UpTo(vals, L) \subseteq DOMAIN vals BY DEF UpTo
<1>4. DOMAIN vals \subseteq DOMAIN vals OBVIOUS
<1>5. Cardinality(UpTo(vals, L)) <= Len(vals) /\ Cardinality(UpTo(vals, L)) \in Nat
  BY <1>1, <1>3, FewerOf
<1>6. Cardinality(UpTo(vals, L)) = Cardinality(DOMAIN vals)
  BY <1>1, <1>2, <1>5 DEF IsKth
<1>7. UpTo(vals, L) = DOMAIN vals BY <1>3, <1>4, <1>6, FewerOf
<1>8. L \in Members(vals) BY <1>2 DEF IsKth, Members
<1> QED BY <1>2, <1>7, <1>8 DEF UpTo, Members

-----------------------------------------------------------------------------
(* What a step does to the k-th smallest.                                  *)

(* One more value: who is counted below, and up to, a value now.           *)
LEMMA CountsAppended ==
  ASSUME NEW vals \in Seq(Int), NEW x \in Int, NEW v \in Int
  PROVE  /\ Cardinality(Under(Append(vals, x), v)) =
              IF x < v THEN Cardinality(Under(vals, v)) + 1 ELSE Cardinality(Under(vals, v))
         /\ Cardinality(UpTo(Append(vals, x), v)) =
              IF x <= v THEN Cardinality(UpTo(vals, v)) + 1 ELSE Cardinality(UpTo(vals, v))
         /\ Members(Append(vals, x)) = Members(vals) \cup {x}
<1> DEFINE w == Append(vals, x)
           n == Len(vals)
<1>1. /\ n \in Nat /\ DOMAIN vals = 1 .. n /\ DOMAIN w = 1 .. n + 1
      /\ w[n + 1] = x /\ \A i \in 1 .. n : w[i] = vals[i]
  OBVIOUS
<1>2. DOMAIN w = DOMAIN vals \cup {n + 1} /\ n + 1 \notin DOMAIN vals BY <1>1
<1> HIDE DEF w, n
<1>3. /\ Under(w, v) = IF x < v THEN Under(vals, v) \cup {n + 1} ELSE Under(vals, v)
      /\ UpTo(w, v) = IF x <= v THEN UpTo(vals, v) \cup {n + 1} ELSE UpTo(vals, v)
      /\ Members(w) = Members(vals) \cup {x}
  BY <1>1, <1>2 DEF Under, UpTo, Members
<1>4. /\ Under(vals, v) \subseteq DOMAIN vals /\ UpTo(vals, v) \subseteq DOMAIN vals
      /\ DOMAIN vals \subseteq DOMAIN vals
  BY DEF Under, UpTo
<1>5. IsFiniteSet(Under(vals, v)) /\ IsFiniteSet(UpTo(vals, v)) BY <1>4, FewerOf
<1>7. /\ Cardinality(Under(vals, v) \cup {n + 1}) = Cardinality(Under(vals, v)) + 1
      /\ Cardinality(UpTo(vals, v) \cup {n + 1}) = Cardinality(UpTo(vals, v)) + 1
  BY <1>2, <1>4, <1>5, FS_AddElement
<1> QED BY <1>3, <1>7 DEF w

(* A zero joins: what was not negative moves up one place, and no place    *)
(* that held no negative value holds one now.                              *)
LEMMA ZeroJoins ==
  ASSUME NEW vals \in Seq(Int), NEW k \in 1 .. Len(vals)
  PROVE  /\ Kth(vals, k) >= 0 => /\ Kth(Append(vals, 0), k + 1) = Kth(vals, k)
                                 /\ 0 <= Kth(Append(vals, 0), k)
                                 /\ Kth(Append(vals, 0), k) <= Kth(vals, k)
         /\ k < Len(vals) /\ Kth(vals, k) <= 0 /\ Kth(vals, k + 1) >= 0
              => Kth(Append(vals, 0), k + 1) = 0
<1> DEFINE w == Append(vals, 0)
           v == Kth(vals, k)
<1>1. /\ w \in Seq(Int) /\ Len(w) = Len(vals) + 1 /\ Len(vals) \in Nat
      /\ k \in 1 .. Len(w) /\ k + 1 \in 1 .. Len(w) /\ k \in Int /\ k <= k + 1
  BY Positions
<1>2. \A u \in Int :
        /\ Cardinality(Under(w, u)) =
             IF 0 < u THEN Cardinality(Under(vals, u)) + 1 ELSE Cardinality(Under(vals, u))
        /\ Cardinality(UpTo(w, u)) =
             IF 0 <= u THEN Cardinality(UpTo(vals, u)) + 1 ELSE Cardinality(UpTo(vals, u))
        /\ Members(w) = Members(vals) \cup {0}
        /\ Cardinality(Under(vals, u)) \in Nat /\ Cardinality(UpTo(vals, u)) \in Nat
  BY CountsAppended, CountsOf
<1>3. IsKth(vals, k, v) /\ v \in Int BY KthExists
<1> HIDE DEF w, v
<1>4. CASE v >= 0
  <2>1. IsKth(w, k + 1, v)
    <3>1. /\ Cardinality(UpTo(w, v)) = Cardinality(UpTo(vals, v)) + 1
          /\ Cardinality(UpTo(vals, v)) \in Nat /\ Cardinality(Under(vals, v)) \in Nat
          /\ \/ Cardinality(Under(w, v)) = Cardinality(Under(vals, v)) + 1
             \/ Cardinality(Under(w, v)) = Cardinality(Under(vals, v))
          /\ v \in Members(vals) => v \in Members(w)
      BY <1>2, <1>3, <1>4
    <3>2. /\ v \in Members(vals) /\ Cardinality(Under(vals, v)) < k
          /\ Cardinality(UpTo(vals, v)) >= k
      BY <1>3 DEF IsKth, Members
    <3>a. k \in Int BY <1>1
    <3>3. Cardinality(UpTo(w, v)) >= k + 1 BY <3>a, <3>1, <3>2
    <3>4. Cardinality(Under(w, v)) < k + 1 BY <3>a, <3>1, <3>2
    <3> QED BY <3>1, <3>2, <3>3, <3>4 DEF IsKth, Members
  <2>2. Kth(w, k + 1) = v BY <1>1, <1>3, <2>1, KthIs
  <2>3. IsKth(w, k, Kth(w, k)) /\ Kth(w, k) \in Int BY <1>1, KthExists
  <2>4. Kth(w, k) <= v BY <1>1, <2>2, KthOrdered
  <2>5. 0 <= Kth(w, k)
    <3> DEFINE c == Kth(w, k)
    <3> HIDE DEF c
    <3> SUFFICES ASSUME c < 0 PROVE FALSE BY <2>3 DEF c
    <3>1. IsKth(w, k, c) /\ c \in Int BY <2>3 DEF c
    <3>2. Cardinality(UpTo(vals, c)) >= k BY <1>2, <3>1 DEF IsKth
    <3>3. UpTo(vals, c) \subseteq Under(vals, v)
      BY <1>3, <1>4, <3>1, Positions DEF UpTo, Under
    <3>4. Cardinality(UpTo(vals, c)) <= Cardinality(Under(vals, v))
      BY <3>3, CountsOf
    <3>5. Cardinality(Under(vals, v)) < k BY <1>3 DEF IsKth
    <3>6. /\ Cardinality(Under(vals, v)) \in Nat /\ Cardinality(UpTo(vals, c)) \in Nat
          /\ k \in Int
      BY <1>1, <1>2, <1>3, <3>1
    <3> QED BY <3>2, <3>4, <3>5, <3>6
  <2> QED BY <2>2, <2>4, <2>5, <1>3, <1>4 DEF w, v
<1>5. CASE k < Len(vals) /\ v <= 0 /\ Kth(vals, k + 1) >= 0
  <2> DEFINE u == Kth(vals, k + 1)
  <2>1. k + 1 \in 1 .. Len(vals) BY <1>1, <1>5
  <2>2. IsKth(vals, k + 1, u) /\ u \in Int BY <2>1, KthExists
  <2>3. u >= 0 BY <1>5
  <2> HIDE DEF u
  <2>4. Under(vals, 0) \subseteq Under(vals, u) /\ Under(vals, u) \subseteq DOMAIN vals
    BY <2>2, <2>3, Positions DEF Under
  <2>5. UpTo(vals, v) \subseteq UpTo(vals, 0) /\ UpTo(vals, 0) \subseteq DOMAIN vals
    BY <1>3, <1>5, Positions DEF UpTo
  <2>6. /\ Cardinality(Under(vals, 0)) <= Cardinality(Under(vals, u))
        /\ Cardinality(UpTo(vals, v)) <= Cardinality(UpTo(vals, 0))
    BY <2>4, <2>5, FewerOf
  <2>21. /\ Cardinality(Under(w, 0)) = Cardinality(Under(vals, 0))
         /\ Cardinality(Under(vals, 0)) \in Nat /\ Cardinality(Under(vals, u)) \in Nat
    BY <1>2, <2>2
  <2>22. Cardinality(Under(vals, u)) < k + 1 BY <2>2 DEF IsKth
  <2>7. Cardinality(Under(w, 0)) < k + 1 BY <1>1, <2>6, <2>21, <2>22
  <2>8. Cardinality(UpTo(w, 0)) >= k + 1
    <3>1. /\ Cardinality(UpTo(w, 0)) = Cardinality(UpTo(vals, 0)) + 1
          /\ Cardinality(UpTo(vals, 0)) \in Nat /\ Cardinality(UpTo(vals, v)) \in Nat
      BY <1>2, <1>3
    <3>2. Cardinality(UpTo(vals, v)) >= k BY <1>3 DEF IsKth
    <3> QED BY <1>1, <2>6, <3>1, <3>2
  <2>9. 0 \in Members(w)
    <3>1. Members(w) = Members(vals) \cup {0} BY <1>2, <1>3
    <3> QED BY <3>1
  <2>10. IsKth(w, k + 1, 0)
    <3>1. \E i \in DOMAIN w : w[i] = 0 BY <2>9 DEF Members
    <3> QED BY <2>7, <2>8, <3>1 DEF IsKth
  <2>11. Kth(w, k + 1) = 0
    <3>1. w \in Seq(Int) /\ k + 1 \in 1 .. Len(w) /\ 0 \in Int BY <1>1
    <3> QED BY <2>10, <3>1, KthIs, Zenon
  <2>12. 0 <= u => u >= 0 BY <2>3
  <2> QED BY <1>4, <2>11 DEF w, v
<1>6. Kth(vals, k) = v BY DEF v
<1> QED BY <1>3, <1>4, <1>5, <1>6 DEF w

(* The largest grows: it stays the last, and every other place keeps its   *)
(* value, one of several largest too.                                      *)
LEMMA LargestGrows ==
  ASSUME NEW vals \in Seq(Int), NEW i \in DOMAIN vals, vals[i] = Largest(vals),
         NEW v \in Int, v > Largest(vals)
  PROVE  /\ Largest([vals EXCEPT ![i] = v]) = v
         /\ \A k \in 1 .. Len(vals) - 1 : Kth([vals EXCEPT ![i] = v], k) = Kth(vals, k)
<1> DEFINE w == [vals EXCEPT ![i] = v]
           n == Len(vals)
<1>1. /\ n \in Nat /\ DOMAIN vals = 1 .. n /\ \A j \in DOMAIN vals : vals[j] \in Int
      /\ IsFiniteSet(DOMAIN vals) /\ Cardinality(DOMAIN vals) = n
  BY Positions
<1>2. n > 0 /\ n \in 1 .. n BY <1>1
<1>3. /\ w \in Seq(Int) /\ Len(w) = n /\ DOMAIN w = DOMAIN vals /\ w[i] = v
      /\ \A j \in DOMAIN vals : j # i => w[j] = vals[j]
  OBVIOUS
<1> HIDE DEF w, n
<1>4. /\ vals[i] \in Int /\ \A j \in DOMAIN vals : vals[j] <= vals[i]
      /\ vals[i] < v
  BY <1>1, <1>2, LargestBounds DEF n
<1>5. Largest(w) = v
  <2>1. Under(w, v) \subseteq DOMAIN vals \ {i} /\ DOMAIN vals \ {i} \subseteq DOMAIN vals
    BY <1>3, <1>4 DEF Under
  <2>2. Cardinality(DOMAIN vals \ {i}) = n - 1 BY <1>1, FS_RemoveElement
  <2>3. Cardinality(Under(w, v)) <= n - 1 /\ Cardinality(Under(w, v)) \in Nat
    BY <2>1, <2>2, FewerOf
  <2>4. UpTo(w, v) = DOMAIN vals BY <1>1, <1>3, <1>4 DEF UpTo
  <2>5. v \in Members(w) BY <1>3 DEF Members
  <2>6. IsKth(w, n, v) BY <1>1, <2>3, <2>4, <2>5 DEF IsKth, Members
  <2> QED BY <1>2, <1>3, <2>6, KthIs DEF Largest
<1>6. ASSUME NEW k \in 1 .. n - 1 PROVE Kth(w, k) = Kth(vals, k)
  <2> DEFINE u == Kth(vals, k)
  <2>1. k \in 1 .. n /\ k \in Int BY <1>1
  <2>2. IsKth(vals, k, u) /\ u \in Int BY <2>1, KthExists DEF n
  <2> HIDE DEF u
  <2>3. u <= vals[i]
    <3>1. PICK j \in DOMAIN vals : vals[j] = u BY <2>2 DEF IsKth
    <3> QED BY <1>4, <3>1
  <2>4. Under(w, u) = Under(vals, u)
    <3>0. w[i] = v /\ vals[i] \in Int /\ vals[i] < v /\ u \in Int BY <1>3, <1>4, <2>2
    <3>1. ~ (w[i] < u) /\ ~ (vals[i] < u) BY <2>3, <3>0
    <3>2. \A j \in DOMAIN vals : w[j] < u <=> vals[j] < u BY <1>3, <3>1
    <3> QED BY <1>3, <3>2 DEF Under
  <2>5. /\ Under(vals, u) \subseteq DOMAIN vals /\ UpTo(vals, u) \subseteq DOMAIN vals
        /\ DOMAIN vals \ {i} \subseteq DOMAIN vals /\ UpTo(w, u) \subseteq DOMAIN vals
    BY <1>3 DEF Under, UpTo
  <2>6. /\ Cardinality(Under(vals, u)) \in Nat /\ IsFiniteSet(Under(vals, u))
        /\ Cardinality(DOMAIN vals \ {i}) = n - 1
        /\ Cardinality(UpTo(vals, u)) \in Nat /\ Cardinality(UpTo(w, u)) \in Nat
    BY <1>1, <2>5, FewerOf, FS_RemoveElement
  <2>7. Cardinality(UpTo(w, u)) >= k
    <3>1. CASE u < vals[i]
      <4>1. ~ (w[i] <= u) /\ ~ (vals[i] <= u) BY <1>3, <1>4, <2>2, <3>1
      <4>2. \A j \in DOMAIN vals : w[j] <= u <=> vals[j] <= u BY <1>3, <4>1
      <4>3. UpTo(w, u) = UpTo(vals, u) BY <1>3, <4>2 DEF UpTo
      <4> QED BY <2>2, <4>3 DEF IsKth
    <3>2. CASE u = vals[i]
      <4>1. DOMAIN vals \ {i} \subseteq UpTo(w, u) BY <1>3, <1>4, <3>2 DEF UpTo
      <4>2. UpTo(w, u) \subseteq DOMAIN vals BY <2>5
      <4>3. Cardinality(DOMAIN vals \ {i}) <= Cardinality(UpTo(w, u))
        BY <4>1, <4>2, FewerOf
      <4> QED BY <1>1, <2>1, <2>6, <4>3
    <3> QED BY <1>4, <2>2, <2>3, <3>1, <3>2
  <2>8. u \in Members(w)
    <3> SUFFICES ASSUME u \notin Members(w) PROVE FALSE OBVIOUS
    <3>1. \A j \in DOMAIN vals : j # i => vals[j] # u BY <1>3 DEF Members
    <3>2. u = vals[i] BY <2>2, <3>1 DEF IsKth, Members
    <3>3. DOMAIN vals \ {i} \subseteq Under(vals, u)
      BY <1>1, <1>4, <3>1, <3>2 DEF Under
    <3>4. Cardinality(DOMAIN vals \ {i}) <= Cardinality(Under(vals, u))
      BY <2>5, <3>3, FewerOf
    <3> QED BY <1>1, <2>1, <2>2, <2>6, <3>4 DEF IsKth
  <2>9. IsKth(w, k, u) BY <2>2, <2>4, <2>7, <2>8 DEF IsKth, Members
  <2>10. Kth(w, k) = u BY <1>3, <2>1, <2>2, <2>9, KthIs
  <2> QED BY <2>10 DEF u
<1> QED BY <1>5, <1>6 DEF w, n

(* Where nothing is negative, a zero is k-th when k values are zero.       *)
LEMMA KthIsZero ==
  ASSUME NEW vals \in Seq(Int), \A i \in DOMAIN vals : vals[i] >= 0,
         NEW k \in 1 .. Len(vals)
  PROVE  /\ Kth(vals, k) >= 0
         /\ Kth(vals, k) = 0 <=> Cardinality({i \in DOMAIN vals : vals[i] = 0}) >= k
<1> DEFINE v == Kth(vals, k)
           Z == {i \in DOMAIN vals : vals[i] = 0}
<1>1. IsKth(vals, k, v) /\ v \in Int BY KthExists
<1>2. k \in Int /\ \A i \in DOMAIN vals : vals[i] \in Int BY Positions
<1>3. UpTo(vals, 0) = Z BY <1>2 DEF UpTo
<1> HIDE DEF v, Z
<1>4. v >= 0 BY <1>1 DEF IsKth, Members
<1>5. Cardinality(Z) \in Nat /\ Cardinality(Under(vals, v)) \in Nat BY <1>3, CountsOf
<1>6. v = 0 => Cardinality(Z) >= k BY <1>1, <1>3 DEF IsKth
<1>7. v # 0 => Cardinality(Z) < k
  <2> SUFFICES ASSUME v # 0 PROVE Cardinality(Z) < k OBVIOUS
  <2>1. UpTo(vals, 0) \subseteq Under(vals, v) BY <1>1, <1>2, <1>4 DEF UpTo, Under
  <2>2. Cardinality(Z) <= Cardinality(Under(vals, v)) BY <1>3, <2>1, CountsOf
  <2> QED BY <1>1, <1>2, <1>5, <2>2 DEF IsKth
<1>8. v = 0 <=> Cardinality(Z) >= k BY <1>2, <1>5, <1>6, <1>7
<1> QED BY <1>4, <1>8 DEF v, Z
-----------------------------------------------------------------------------
(* The median and the ratio.                                               *)

(* From three values on, neither middle is the last.                       *)
LEMMA Middles ==
  ASSUME NEW vals \in Seq(Int), Len(vals) > 0
  PROVE  \E j, k \in 1 .. Len(vals) :
           /\ j = (Len(vals) + 1) \div 2 /\ k = Len(vals) \div 2 + 1 /\ j <= k
           /\ 2 * k > Len(vals) /\ 2 * k <= Len(vals) + 2
           /\ Len(vals) >= 3 => k < Len(vals)
           /\ TwiceMedian(vals) = Kth(vals, j) + Kth(vals, k)
           /\ Kth(vals, j) \in Int /\ Kth(vals, k) \in Int
           /\ Kth(vals, j) <= Kth(vals, k)
<1> DEFINE n == Len(vals)
           j == (n + 1) \div 2
           k == n \div 2 + 1
<1>1. n \in Nat /\ n > 0 BY Positions
<1>2. TwiceMedian(vals) = Kth(vals, j) + Kth(vals, k) BY DEF TwiceMedian
<1>3. /\ j \in 1 .. n /\ k \in 1 .. n /\ j <= k /\ 2 * k > n /\ 2 * k <= n + 2
      /\ n >= 3 => k < n
  BY <1>1
<1> HIDE DEF j, k
<1>4. /\ Kth(vals, j) \in Int /\ Kth(vals, k) \in Int /\ Kth(vals, j) <= Kth(vals, k)
  BY <1>3, KthExists, KthOrdered
<1>5. j = (Len(vals) + 1) \div 2 /\ k = Len(vals) \div 2 + 1 BY DEF j, k
<1> QED BY <1>2, <1>3, <1>4, <1>5

LEMMA MedianType ==
  ASSUME NEW vals \in Seq(Int), Len(vals) > 0
  PROVE  TwiceMedian(vals) \in Int
BY Middles

(* The middles of as many, and of one more.                                *)
LEMMA MiddlesOfOneMore ==
  ASSUME NEW n \in Nat, n > 0, NEW j \in Int, NEW k \in Int,
         j = (n + 1) \div 2, k = n \div 2 + 1
  PROVE  /\ (n + 1) \div 2 + 1 = j + 1
         /\ j = k => (n + 2) \div 2 = j
         /\ j # k => k = j + 1 /\ j < n /\ (n + 2) \div 2 = j + 1
<1> DEFINE h == n \div 2
<1>1. h \in Int /\ (n = 2 * h \/ n = 2 * h + 1) OBVIOUS
<1>2. k = h + 1 OBVIOUS
<1> HIDE DEF h
<1>3. CASE n = 2 * h BY <1>1, <1>2, <1>3
<1>4. CASE n = 2 * h + 1 BY <1>1, <1>2, <1>4
<1> QED BY <1>1, <1>3, <1>4

(* Twice the middle of as many, and of one more that is zero.              *)
LEMMA ZeroPullsTheMiddle ==
  ASSUME NEW vals \in Seq(Int), Len(vals) > 0, TwiceMedian(vals) >= 0
  PROVE  /\ 0 <= TwiceMedian(Append(vals, 0))
         /\ TwiceMedian(Append(vals, 0)) <= TwiceMedian(vals)
<1> DEFINE w == Append(vals, 0)
           n == Len(vals)
<1>1. n \in Nat /\ n > 0 BY Positions
<1>2. w \in Seq(Int) /\ Len(w) = n + 1 OBVIOUS
<1>3. PICK j \in 1 .. n, k \in 1 .. n :
        /\ j = (n + 1) \div 2 /\ k = n \div 2 + 1
        /\ TwiceMedian(vals) = Kth(vals, j) + Kth(vals, k)
        /\ Kth(vals, j) \in Int /\ Kth(vals, k) \in Int
        /\ Kth(vals, j) <= Kth(vals, k)
  BY Middles
<1> DEFINE a == Kth(vals, j)
           b == Kth(vals, k)
<1>4. a \in Int /\ b \in Int /\ a <= b /\ a + b >= 0 /\ TwiceMedian(vals) = a + b
  BY <1>3
<1>5. TwiceMedian(w) = Kth(w, (n + 2) \div 2) + Kth(w, (n + 1) \div 2 + 1)
  BY <1>1, <1>2 DEF TwiceMedian
<1> HIDE DEF w
<1>6. CASE j = k
  <2>1. (n + 2) \div 2 = j /\ (n + 1) \div 2 + 1 = j + 1
    <3> HIDE DEF n
    <3> QED BY <1>1, <1>3, <1>6, MiddlesOfOneMore
  <2>2. a >= 0 /\ a = b BY <1>4, <1>6
  <2>3. Kth(w, j + 1) = a /\ 0 <= Kth(w, j) /\ Kth(w, j) <= a
    BY <2>2, ZeroJoins DEF w
  <2>4. j \in 1 .. Len(w) BY <1>1, <1>2
  <2>5. Kth(w, j) \in Int BY <1>2, <2>4, KthExists
  <2>6. TwiceMedian(w) = Kth(w, j) + a BY <1>5, <2>1, <2>3
  <2> HIDE DEF a, b
  <2> QED BY <1>4, <2>2, <2>3, <2>5, <2>6 DEF w
<1>7. CASE j # k
  <2>1. k = j + 1 /\ j < n /\ (n + 2) \div 2 = j + 1 /\ (n + 1) \div 2 + 1 = j + 1
    <3> HIDE DEF n
    <3> QED BY <1>1, <1>3, <1>7, MiddlesOfOneMore
  <2>2. TwiceMedian(w) = Kth(w, j + 1) + Kth(w, j + 1) BY <1>5, <2>1
  <2>3. CASE a >= 0
    <3>1. Kth(w, j + 1) = a BY <2>3, ZeroJoins DEF w
    <3>2. TwiceMedian(w) = a + a BY <2>2, <3>1
    <3> HIDE DEF a, b
    <3> QED BY <1>4, <2>3, <3>2 DEF w
  <2>4. CASE a < 0
    <3>1. a <= 0 /\ Kth(vals, j + 1) >= 0
      <4>1. b >= 0 /\ a <= 0 BY <1>4, <2>4
      <4> QED BY <4>1, <2>1
    <3>2. Kth(w, j + 1) = 0 BY <2>1, <3>1, ZeroJoins DEF w
    <3>3. TwiceMedian(w) = 0 BY <2>2, <3>2
    <3> HIDE DEF a, b
    <3> QED BY <1>4, <3>3 DEF w
  <2>5. a >= 0 \/ a < 0 BY <1>4
  <2> QED BY <2>3, <2>4, <2>5
<1> QED BY <1>6, <1>7
-----------------------------------------------------------------------------
(* The answer.                                                             *)

Floor == Floors[KindOf[Metric]]

LEMMA ConstantsType ==
  /\ Floor \in Nat /\ Threshold.num \in Nat /\ Threshold.den \in Nat /\ Threshold.den > 0
  /\ Values \subseteq Int
<1>1. KindOf[Metric] \in Members(Kinds) BY GrowthAssumption DEF Measurable
<1>2. Floor \in Nat BY <1>1, KindsAssumption DEF Members, Floor
<1> QED BY <1>2, GrowthAssumption

(* The ratio of a list whose median is not zero.                           *)
LEMMA RatioIs ==
  ASSUME NEW vals \in Seq(Int), Len(vals) > 0
  PROVE  /\ TwiceMedian(vals) > 0 =>
              Over(vals) = [num |-> 2 * Largest(vals), den |-> TwiceMedian(vals)]
         /\ TwiceMedian(vals) < 0 =>
              Over(vals) = [num |-> -(2 * Largest(vals)), den |-> -TwiceMedian(vals)]
<1>1. TwiceMedian(vals) \in Int BY MedianType
<1>2. TwiceMedian(vals) > 0 => ~ (TwiceMedian(vals) < 0) BY <1>1
<1> QED BY <1>2 DEF Over, Divide

Decided(vals) ==
  Len(vals) >= 3 /\ Largest(vals) > 0 /\ Largest(vals) >= Floor

(* A stage is skewed when its median is zero, or when the ratio to it is   *)
(* above the threshold: never on a median below zero.                      *)
LEMMA SkewedMeans ==
  ASSUME NEW vals \in Seq(Int)
  PROVE  /\ Answer(vals).outcome # UNDECIDED <=> Decided(vals)
         /\ Answer(vals).outcome = SKEWED <=>
              /\ Decided(vals)
              /\ \/ TwiceMedian(vals) = 0
                 \/ /\ TwiceMedian(vals) > 0
                    /\ 2 * Largest(vals) * Threshold.den > Threshold.num * TwiceMedian(vals)
         /\ Answer(vals).outcome \in {UNDECIDED, EVEN, SKEWED}
         /\ ~ Decided(vals) => Answer(vals).ratio = NoRatio
         /\ Decided(vals) /\ TwiceMedian(vals) = 0 => Answer(vals).ratio = Unbounded
         /\ Decided(vals) /\ TwiceMedian(vals) # 0 => Answer(vals).ratio = Over(vals)
<1> DEFINE L == Largest(vals)
           M == TwiceMedian(vals)
           p == Threshold.num
           q == Threshold.den
<1>1. Floor \in Nat /\ p \in Nat /\ q \in Nat /\ q > 0 BY ConstantsType
<1>2. Len(vals) \in Nat BY Positions
<1>3. Decided(vals) => L \in Int /\ M \in Int
  BY <1>2, LargestBounds, MedianType DEF Decided
<1>4. ~ (Len(vals) < MinTasks \/ L = 0 \/ L < Floor) <=> Decided(vals)
  <2>1. CASE Len(vals) < 3 BY <1>2, <2>1 DEF Decided, MinTasks
  <2>2. CASE Len(vals) >= 3
    <3>1. L \in Int BY <1>2, <2>2, LargestBounds
    <3> HIDE DEF L
    <3>2. ~ (L = 0 \/ L < Floor) <=> L > 0 /\ L >= Floor BY <1>1, <3>1
    <3> QED BY <1>2, <2>2, <3>2 DEF Decided, MinTasks, L
  <2> QED BY <1>2, <2>1, <2>2
<1>5. ASSUME Decided(vals), M < 0 PROVE ~ Exceeds(Over(vals), Threshold)
  <2>1. Len(vals) > 0 /\ L > 0 /\ L \in Int /\ M \in Int BY <1>2, <1>3, <1>5 DEF Decided
  <2>2. Over(vals) = [num |-> -(2 * L), den |-> -M] BY <1>5, <2>1, RatioIs
  <2> HIDE DEF L, M, p, q
  <2>3. (-(2 * L)) * q <= 0 * q BY <1>1, <2>1, TimesMonotone
  <2>4. 0 * (-M) <= p * (-M) BY <1>1, <1>5, <2>1, TimesMonotone
  <2>5. (-(2 * L)) * q <= 0 /\ 0 <= p * (-M) BY <1>1, <2>1, <2>3, <2>4
  <2>6. (-(2 * L)) * q \in Int /\ p * (-M) \in Int BY <1>1, <2>1
  <2>7. ~ ((-(2 * L)) * q > p * (-M)) BY <2>5, <2>6
  <2> QED BY <2>2, <2>7 DEF Exceeds, p, q
<1>6. ASSUME Decided(vals), M > 0
      PROVE  Exceeds(Over(vals), Threshold) <=> 2 * L * q > p * M
  <2>1. Len(vals) > 0 BY <1>2, <1>6 DEF Decided
  <2>2. Over(vals) = [num |-> 2 * L, den |-> M] BY <1>6, <2>1, RatioIs
  <2> QED BY <2>2 DEF Exceeds
<1>7. CASE ~ Decided(vals)
  <2>1. Answer(vals) = [outcome |-> UNDECIDED, ratio |-> NoRatio]
    BY <1>4, <1>7 DEF Answer, Decide, Floor
  <2> QED BY <1>7, <2>1 DEF UNDECIDED, SKEWED, EVEN
<1>8. CASE Decided(vals) /\ M = 0
  <2>1. Answer(vals) = [outcome |-> SKEWED, ratio |-> Unbounded]
    BY <1>4, <1>8 DEF Answer, Decide, Floor
  <2> QED BY <1>8, <2>1 DEF UNDECIDED, SKEWED, EVEN
<1>9. CASE Decided(vals) /\ M # 0
  <2>1. Answer(vals) = [outcome |-> IF Exceeds(Over(vals), Threshold) THEN SKEWED ELSE EVEN,
                        ratio |-> Over(vals)]
    BY <1>4, <1>9 DEF Answer, Decide, Floor
  <2>2. M \in Int BY <1>3, <1>9
  <2>3. (M < 0 /\ ~(M > 0)) \/ M > 0
    <3> HIDE DEF M
    <3> QED BY <1>9, <2>2
  <2>4. Exceeds(Over(vals), Threshold) <=> M > 0 /\ 2 * L * q > p * M
    BY <1>5, <1>6, <1>9, <2>3
  <2> HIDE DEF L, M, p, q
  <2>5. Answer(vals).outcome = SKEWED <=> M > 0 /\ 2 * L * q > p * M
    BY <2>1, <2>4 DEF SKEWED, EVEN
  <2>6. Answer(vals).outcome \in {EVEN, SKEWED} /\ Answer(vals).ratio = Over(vals) BY <2>1
  <2> QED BY <1>9, <2>5, <2>6 DEF UNDECIDED, SKEWED, EVEN, L, M, p, q
<1> QED BY <1>7, <1>8, <1>9

(* One more idle task never clears a skewed stage.                         *)
LEMMA IdleKeepsSkewed ==
  ASSUME NEW vals \in Seq(Int), Answer(vals).outcome = SKEWED
  PROVE  Answer(Append(vals, 0)).outcome = SKEWED
<1> DEFINE w == Append(vals, 0)
           L == Largest(vals)
           M == TwiceMedian(vals)
           N == TwiceMedian(w)
           p == Threshold.num
           q == Threshold.den
<1>1. p \in Nat /\ q \in Nat /\ q > 0 BY ConstantsType
<1>2. w \in Seq(Int) /\ Len(w) = Len(vals) + 1 /\ Len(vals) \in Nat OBVIOUS
<1>3. Len(vals) >= 3 /\ L > 0 /\ L >= Floor BY SkewedMeans DEF Decided
<1>4. Len(vals) > 0 /\ Len(w) > 0 /\ Len(vals) \in 1 .. Len(vals) BY <1>2, <1>3
<1>5. L \in Int /\ M \in Int /\ N \in Int BY <1>2, <1>4, LargestBounds, MedianType
<1>6. M >= 0 /\ (M > 0 => 2 * L * q > p * M) BY <1>5, SkewedMeans
<1>7. 0 <= N /\ N <= M BY <1>4, <1>6, ZeroPullsTheMiddle
<1>8. Largest(w) = L
  <2>1. Kth(vals, Len(vals)) >= 0 BY <1>3, <1>5 DEF Largest
  <2>2. Kth(w, Len(vals) + 1) = Kth(vals, Len(vals)) BY <1>4, <2>1, ZeroJoins
  <2> QED BY <1>2, <2>2 DEF Largest
<1>9. Decided(w) BY <1>2, <1>3, <1>8 DEF Decided
<1>10. N = 0 \/ (N > 0 /\ 2 * L * q > p * N)
  <2> HIDE DEF L, M, N, p, q
  <2>1. N * p <= M * p BY <1>1, <1>5, <1>7, TimesMonotone
  <2>2. p * N <= p * M /\ p * N \in Int /\ p * M \in Int /\ 2 * L * q \in Int
    BY <1>1, <1>5, <2>1
  <2> QED BY <1>5, <1>6, <1>7, <2>2
<1> QED BY <1>2, <1>8, <1>9, <1>10, SkewedMeans

(* The hot task growing never cools the answer.                            *)
LEMMA GrowingHeats ==
  ASSUME NEW vals \in Seq(Int), \A i \in DOMAIN vals : vals[i] >= 0,
         NEW i \in DOMAIN vals, vals[i] = Largest(vals), NEW v \in Int, v > Largest(vals)
  PROVE  LET w == [vals EXCEPT ![i] = v] IN
         /\ Heat(Answer(w)) >= Heat(Answer(vals))
         /\ Answer(vals).outcome # UNDECIDED =>
              ~ Exceeds(Answer(vals).ratio, Answer(w).ratio)
<1> DEFINE w == [vals EXCEPT ![i] = v]
           n == Len(vals)
           L == Largest(vals)
           M == TwiceMedian(vals)
           p == Threshold.num
           q == Threshold.den
<1>1. p \in Nat /\ q \in Nat /\ q > 0 BY ConstantsType
<1>2. w \in Seq(Int) /\ Len(w) = n /\ n \in Nat /\ n > 0
  BY Positions
<1>3. Largest(w) = v /\ \A k \in 1 .. n - 1 : Kth(w, k) = Kth(vals, k)
  BY LargestGrows
<1> HIDE DEF w
<1>4. /\ Answer(vals).outcome \in {UNDECIDED, EVEN, SKEWED}
      /\ Answer(w).outcome \in {UNDECIDED, EVEN, SKEWED}
  BY <1>2, SkewedMeans
<1>5. CASE Answer(vals).outcome = UNDECIDED
  BY <1>4, <1>5 DEF Heat, UNDECIDED, EVEN, SKEWED, w
<1>6. CASE Answer(vals).outcome # UNDECIDED
  <2>1. n >= 3 /\ L > 0 /\ L >= Floor /\ Decided(vals) BY <1>6, SkewedMeans DEF Decided
  <2>2. L \in Int /\ M \in Int /\ Floor \in Nat
    BY <1>2, LargestBounds, MedianType, ConstantsType
  <2>3. PICK j \in 1 .. n, k \in 1 .. n :
          /\ j = (n + 1) \div 2 /\ k = n \div 2 + 1 /\ j <= k /\ k < n
          /\ M = Kth(vals, j) + Kth(vals, k)
          /\ Kth(vals, j) \in Int /\ Kth(vals, k) \in Int
    BY <1>2, <2>1, Middles
  <2>4. j \in 1 .. n - 1 /\ k \in 1 .. n - 1
    <3>1. n \in Nat /\ j <= k /\ k < n BY <1>2, <2>3
    <3> HIDE DEF n
    <3> QED BY <3>1
  <2>5. TwiceMedian(w) = M BY <1>2, <1>3, <2>3, <2>4 DEF TwiceMedian
  <2>6. M >= 0
    <3>1. Kth(vals, j) >= 0 /\ Kth(vals, k) >= 0 BY KthIsZero
    <3> QED BY <2>3, <3>1
  <2>7. Decided(w)
    <3>1. v > 0 /\ v >= Floor BY <2>1, <2>2
    <3> QED BY <1>2, <1>3, <2>1, <3>1 DEF Decided
  <2>8. L <= v BY <2>2
  <2>9. CASE M = 0
    <3>1. /\ Answer(vals).outcome = SKEWED /\ Answer(w).outcome = SKEWED
          /\ Answer(vals).ratio = Unbounded /\ Answer(w).ratio = Unbounded
      BY <1>2, <2>1, <2>5, <2>7, <2>9, SkewedMeans
    <3> QED BY <3>1 DEF Heat, Exceeds, Unbounded, SKEWED, UNDECIDED, EVEN, w
  <2>10. CASE M > 0
    <3>1. /\ Answer(vals).ratio = [num |-> 2 * L, den |-> M]
          /\ Answer(w).ratio = [num |-> 2 * v, den |-> M]
      <4>1. Answer(vals).ratio = Over(vals) /\ Answer(w).ratio = Over(w)
        <5> M # 0 BY <2>10
        <5> QED BY <1>2, <2>1, <2>5, <2>7, SkewedMeans
      <4>2. Over(vals) = [num |-> 2 * L, den |-> M] BY <1>2, <2>10, RatioIs
      <4>3. TwiceMedian(w) > 0 /\ Len(w) > 0 BY <1>2, <2>5, <2>10
      <4>4. Over(w) = [num |-> 2 * v, den |-> M] BY <1>2, <1>3, <2>5, <4>3, RatioIs
      <4> QED BY <4>1, <4>2, <4>4
    <3> HIDE DEF L, M, p, q
    <3>2. 2 * L * M <= 2 * v * M /\ 2 * L * q <= 2 * v * q
      BY <1>1, <2>2, <2>6, <2>8, TimesMonotone
    <3>3. /\ 2 * L * M \in Int /\ 2 * v * M \in Int /\ 2 * L * q \in Int
          /\ 2 * v * q \in Int /\ p * M \in Int
      BY <1>1, <2>2
    <3>4. ~ (2 * L * M > 2 * v * M) BY <3>2, <3>3
    <3>5. ~ Exceeds(Answer(vals).ratio, Answer(w).ratio) BY <3>1, <3>4 DEF Exceeds
    <3>6. 2 * L * q > p * M => 2 * v * q > p * M BY <3>2, <3>3
    <3>7. Answer(vals).outcome = SKEWED => Answer(w).outcome = SKEWED
      BY <1>2, <1>3, <2>2, <2>5, <2>7, <2>10, <3>6, SkewedMeans DEF L, M, p, q
    <3>8. Answer(w).outcome # UNDECIDED BY <1>2, <2>7, SkewedMeans
    <3>9. Heat(Answer(w)) >= Heat(Answer(vals))
      BY <1>4, <1>6, <3>7, <3>8 DEF Heat, UNDECIDED, EVEN, SKEWED
    <3> QED BY <3>5, <3>9 DEF w
  <2> QED BY <2>2, <2>6, <2>9, <2>10
<1> QED BY <1>5, <1>6

-----------------------------------------------------------------------------
(* The behaviours.                                                         *)

GrowthInv == values \in Seq(Values) /\ verdict = Answer(values)

LEMMA ValuesAreIntegers ==
  ASSUME GrowthInv
  PROVE  values \in Seq(Int) /\ Len(values) \in Nat /\ verdict = Answer(values)
<1>1. values \in Seq(Values) /\ Values \subseteq Int BY ConstantsType DEF GrowthInv
<1>2. values \in Seq(Int) BY <1>1, SeqMonotonic
<1> QED BY <1>2, Positions DEF GrowthInv

LEMMA InitGrowth == Init => GrowthInv
BY DEF Init, GrowthInv

LEMMA StepGrowth == GrowthInv /\ [Next]_growthVars => GrowthInv'
<1> SUFFICES ASSUME GrowthInv, [Next]_growthVars PROVE GrowthInv' OBVIOUS
<1>1. ASSUME NEW v \in Values, TaskEnds(v) PROVE GrowthInv'
  BY <1>1 DEF GrowthInv, TaskEnds, Reread, Answer
<1>2. ASSUME NEW i \in DOMAIN values, NEW v \in Values, HottestGrows(i, v)
      PROVE  GrowthInv'
  BY <1>2 DEF GrowthInv, HottestGrows, Reread, Answer
<1>3. CASE UNCHANGED growthVars BY <1>3 DEF GrowthInv, growthVars, Answer
<1> QED BY <1>1, <1>2, <1>3 DEF Next

(* The verdict is always that of the values last read.                     *)
THEOREM VerdictIsOfTheValues == Spec => []GrowthInv
BY InitGrowth, StepGrowth, PTL DEF Spec

(* Nothing is decided on one or two tasks, and rightly: their ratio is at  *)
(* most two (skew.py, MIN_TASKS).                                          *)
THEOREM NothingFromTwo == Spec => []ReachableOnlyFromThree
<1>1. GrowthInv => ReachableOnlyFromThree
  <2> SUFFICES ASSUME GrowthInv PROVE ReachableOnlyFromThree OBVIOUS
  <2>1. values \in Seq(Int) /\ Len(values) \in Nat BY ValuesAreIntegers
  <2>2. Len(values) < MinTasks => verdict.outcome = UNDECIDED
    BY <2>1, SkewedMeans DEF GrowthInv, MinTasks, Decided
  <2>3. ASSUME Len(values) \in 1 .. 2, NoNegative, Largest(values) > 0
        PROVE  ~ Exceeds(Over(values), [num |-> 2, den |-> 1])
    <3> DEFINE L == Largest(values)
               M == TwiceMedian(values)
    <3>0. Len(values) = 1 \/ Len(values) = 2 BY <2>1, <2>3
    <3>1. Len(values) > 0 /\ 1 \in 1 .. Len(values) BY <3>0
    <3>2. L \in Int /\ M \in Int BY <2>1, <3>1, LargestBounds, MedianType
    <3>3. Kth(values, 1) \in Int /\ Kth(values, 1) >= 0
      BY <2>1, <2>3, <3>1, KthExists, KthIsZero DEF NoNegative
    <3>4. M = L + L \/ M = Kth(values, 1) + L
      <4>1. CASE Len(values) = 1
        <5>1. (1 + 1) \div 2 = 1 /\ 1 \div 2 + 1 = 1 OBVIOUS
        <5> QED BY <4>1, <5>1 DEF TwiceMedian, Largest
      <4>2. CASE Len(values) = 2
        <5>1. (2 + 1) \div 2 = 1 /\ 2 \div 2 + 1 = 2 OBVIOUS
        <5> QED BY <4>2, <5>1 DEF TwiceMedian, Largest
      <4> QED BY <3>0, <4>1, <4>2
    <3>5. M >= L /\ M > 0
      <4> HIDE DEF L, M
      <4>1. L > 0 BY <2>3 DEF L
      <4> QED BY <3>2, <3>3, <3>4, <4>1
    <3>6. Over(values) = [num |-> 2 * L, den |-> M] BY <2>1, <3>1, <3>5, RatioIs
    <3> HIDE DEF L, M
    <3>7. ~ (2 * L * 1 > 2 * M) BY <3>2, <3>5
    <3> QED BY <3>6, <3>7 DEF Exceeds
  <2> QED BY <2>2, <2>3 DEF ReachableOnlyFromThree
<1> QED BY <1>1, VerdictIsOfTheValues, PTL

(* An unbounded ratio is said exactly of a stage more than half of whose   *)
(* tasks read zero and one does not (skew.py, reason of an UNBOUNDED).     *)
THEOREM UnboundedMeansIdle == Spec => []UnboundedIsMajorityZero
<1>1. GrowthInv => UnboundedIsMajorityZero
  <2> SUFFICES ASSUME GrowthInv, NoNegative
               PROVE  verdict.ratio = Unbounded <=>
                        /\ Len(values) >= MinTasks
                        /\ 2 * Cardinality(Zeros) > Len(values)
                        /\ Largest(values) > 0 /\ Largest(values) >= Floor
    BY DEF UnboundedIsMajorityZero, Floor
  <2> DEFINE n == Len(values)
             M == TwiceMedian(values)
  <2>1. values \in Seq(Int) /\ n \in Nat BY ValuesAreIntegers
  <2>2. verdict = Answer(values) BY DEF GrowthInv
  <2>3. CASE ~ Decided(values)
    <3>1. verdict.ratio = NoRatio BY <2>1, <2>2, <2>3, SkewedMeans
    <3> QED BY <2>3, <3>1 DEF NoRatio, Unbounded, Decided, MinTasks
  <2>4. CASE Decided(values)
    <3>1. n > 0 BY <2>1, <2>4 DEF Decided
    <3>2. PICK j \in 1 .. n, k \in 1 .. n :
            /\ j <= k /\ 2 * k > n /\ 2 * k <= n + 2 /\ M = Kth(values, j) + Kth(values, k)
            /\ Kth(values, j) \in Int /\ Kth(values, k) \in Int
            /\ Kth(values, j) <= Kth(values, k)
      BY <2>1, <3>1, Middles
    <3>3. /\ Kth(values, j) >= 0 /\ Kth(values, k) >= 0
          /\ Kth(values, k) = 0 <=> Cardinality(Zeros) >= k
      BY <2>1, KthIsZero DEF NoNegative, Zeros
    <3>4. M = 0 <=> Kth(values, k) = 0 BY <3>2, <3>3
    <3>5. Cardinality(Zeros) \in Nat
      <4>1. Zeros \subseteq DOMAIN values /\ DOMAIN values \subseteq DOMAIN values BY DEF Zeros
      <4> QED BY <2>1, <4>1, FewerOf
    <3>6. Cardinality(Zeros) >= k <=> 2 * Cardinality(Zeros) > n BY <2>1, <3>2, <3>5
    <3>7. M = 0 => verdict.ratio = Unbounded BY <2>1, <2>2, <2>4, SkewedMeans
    <3>8. M # 0 => verdict.ratio # Unbounded
      <4> SUFFICES ASSUME M # 0 PROVE verdict.ratio # Unbounded OBVIOUS
      <4>1. M > 0 BY <3>2, <3>3
      <4>2. verdict.ratio = [num |-> 2 * Largest(values), den |-> M]
        BY <2>1, <2>2, <2>4, <3>1, <4>1, SkewedMeans, RatioIs
      <4> HIDE DEF M
      <4> QED BY <4>1, <4>2 DEF Unbounded
    <3> QED BY <2>4, <3>3, <3>4, <3>6, <3>7, <3>8 DEF Decided, MinTasks
  <2> QED BY <2>3, <2>4
<1> QED BY <1>1, VerdictIsOfTheValues, PTL

(* The hot task growing never cools what is said of its stage.             *)
THEOREM GrowthNeverCools == Spec => HotterNeverCooler
<1>1. GrowthInv => (Grown /\ NoNegative => NoCooler)
  <2> SUFFICES ASSUME GrowthInv, Grown, NoNegative PROVE NoCooler OBVIOUS
  <2>1. PICK i \in DOMAIN values, v \in Values : HottestGrows(i, v) BY DEF Grown
  <2>2. Values \subseteq Int BY ConstantsType
  <2>3. values \in Seq(Int) /\ v \in Int /\ verdict = Answer(values)
    BY <2>2, ValuesAreIntegers
  <2>4. /\ v > Largest(values) /\ values[i] = Largest(values)
        /\ verdict' = Answer([values EXCEPT ![i] = v])
    BY <2>1 DEF HottestGrows, Reread
  <2>5. \A j \in DOMAIN values : values[j] >= 0 BY DEF NoNegative
  <2> QED BY <2>3, <2>4, <2>5, GrowingHeats DEF NoCooler
<1> QED BY <1>1, VerdictIsOfTheValues, PTL DEF Spec, HotterNeverCooler

(* A task that did nothing never clears a skewed stage.                    *)
THEOREM IdleNeverClears == Spec => IdleTaskNeverClears
<1>1. GrowthInv /\ [Next]_growthVars =>
        [verdict.outcome = SKEWED /\ Len(values') > Len(values)
           /\ values'[Len(values')] = 0
         => verdict'.outcome = SKEWED]_growthVars
  <2> SUFFICES ASSUME GrowthInv, Next, verdict.outcome = SKEWED,
                      Len(values') > Len(values), values'[Len(values')] = 0
               PROVE  verdict'.outcome = SKEWED
    BY DEF growthVars
  <2>2. values \in Seq(Int) /\ Len(values) \in Nat /\ verdict = Answer(values)
    BY ValuesAreIntegers
  <2>3. ASSUME NEW v \in Values, TaskEnds(v) PROVE verdict'.outcome = SKEWED
    <3>1. values' = Append(values, v) /\ verdict' = Answer(Append(values, v))
      BY <2>3 DEF TaskEnds, Reread
    <3>2. v = 0 BY <2>2, <3>1
    <3> QED BY <2>2, <3>1, <3>2, IdleKeepsSkewed
  <2>4. ASSUME NEW i \in DOMAIN values, NEW v \in Values, HottestGrows(i, v) PROVE FALSE
    <3>1. values' = [values EXCEPT ![i] = v] BY <2>4 DEF HottestGrows, Reread
    <3>2. Len(values') = Len(values) BY <2>2, <3>1
    <3> QED BY <2>2, <3>2
  <2> QED BY <2>3, <2>4 DEF Next
<1> QED BY <1>1, VerdictIsOfTheValues, PTL DEF Spec, IdleTaskNeverClears
=============================================================================
