------------------------------- MODULE Counting -------------------------------
(***************************************************************************)
(* What the proofs of several components need of numbers, finite orders    *)
(* and sums.  The library states induction with an operator as parameter;  *)
(* here it is stated of sets, which the provers can instantiate.           *)
(***************************************************************************)
EXTENDS Integers, Sequences, FiniteSets, FiniteSetTheorems, TLAPS

-----------------------------------------------------------------------------
(* Natural numbers.                                                        *)

LEMMA FirstNumbers ==
  ASSUME NEW n \in Nat
  PROVE  IsFiniteSet(1 .. n) /\ Cardinality(1 .. n) = n
<1>1. /\ IsFiniteSet(1 .. n)
      /\ Cardinality(1 .. n) = (IF 1 > n THEN 0 ELSE n - 1 + 1)
  BY FS_Interval
<1> QED BY <1>1

(* A set of naturals that is not empty has a smallest member.              *)
LEMMA HasLeast ==
  ASSUME NEW S \in SUBSET Nat, S # {}
  PROVE  \E n \in S : \A m \in S : n <= m
<1> DEFINE Less == {ss \in Nat \X Nat : ss[1] < ss[2]}
<1>1. IsWellFoundedOn(Less, Nat)
  BY NatLessThanWellFounded DEF OpToRel
<1> HIDE DEF Less
<1>2. \E n \in S : \A m \in S : ~ (<<m, n>> \in Less)
  BY <1>1, WFMin
<1>3. \A m, n \in S : ~ (<<m, n>> \in Less) => n <= m
  BY DEF Less
<1> QED BY <1>2, <1>3

(* Induction: what holds of 0, and of n + 1 when of n, holds of all.       *)
LEMMA InductionOverNat ==
  ASSUME NEW S, 0 \in S, \A n \in Nat : n \in S => n + 1 \in S
  PROVE  \A n \in Nat : n \in S
<1> DEFINE Bad == {n \in Nat : n \notin S}
<1> SUFFICES ASSUME Bad # {} PROVE FALSE OBVIOUS
<1>1. PICK b \in Bad : \A m \in Bad : b <= m
  BY HasLeast
<1>2. b \in Nat /\ b # 0 /\ b \notin S OBVIOUS
<1>3. b - 1 \in Nat /\ (b - 1) + 1 = b BY <1>2
<1>4. b - 1 \notin Bad BY <1>1, <1>2, <1>3
<1> QED BY <1>2, <1>3, <1>4

(* A set of naturals with a bound has a largest member.                    *)
LEMMA HasLargest ==
  ASSUME NEW S \in SUBSET Nat, S # {}, NEW b \in Nat, \A m \in S : m <= b
  PROVE  \E n \in S : \A m \in S : m <= n
<1> DEFINE D == {k \in Nat : k <= b /\ b - k \in S}
<1>1. D # {}
  <2>1. PICK m \in S : TRUE OBVIOUS
  <2>2. m \in Nat /\ m <= b BY <2>1
  <2>3. b - m \in Nat /\ b - m <= b /\ b - (b - m) = m BY <2>2
  <2>4. b - m \in D BY <2>1, <2>3
  <2> QED BY <2>4
<1>2. D \in SUBSET Nat OBVIOUS
<1> HIDE DEF D
<1>3. PICK k \in D : \A j \in D : k <= j BY <1>1, <1>2, HasLeast
<1>4. k \in Nat /\ k <= b /\ b - k \in S BY <1>3 DEF D
<1>5. \A m \in S : m <= b - k
  <2>1. TAKE m \in S
  <2>2. m \in Nat /\ m <= b OBVIOUS
  <2>3. b - m \in Nat /\ b - m <= b /\ b - (b - m) = m BY <2>2
  <2>4. b - m \in D BY <2>3 DEF D
  <2>5. k <= b - m BY <1>3, <2>4
  <2> QED BY <1>4, <2>2, <2>5
<1> QED BY <1>4, <1>5

LEMMA TimesMonotone ==
  ASSUME NEW a \in Int, NEW b \in Int, NEW c \in Nat, a <= b
  PROVE  a * c <= b * c
OBVIOUS

-----------------------------------------------------------------------------
(* Finite strict total orders, as a set of pairs.  The rank of a member is *)
(* how many are before it.                                                 *)

OrderOf(K, R) ==
  /\ \A x \in K : <<x, x>> \notin R
  /\ \A x, y \in K : x # y => <<x, y>> \in R \/ <<y, x>> \in R
  /\ \A x, y, z \in K : <<x, y>> \in R /\ <<y, z>> \in R => <<x, z>> \in R

BeforeIn(K, R, x) == {y \in K : <<y, x>> \in R}
RankIn(K, R, x) == Cardinality(BeforeIn(K, R, x))

(* Whatever is before has a smaller rank, and the other way round.         *)
LEMMA RankFollowsOrder ==
  ASSUME NEW K, IsFiniteSet(K), NEW R, OrderOf(K, R), NEW x \in K, NEW y \in K
  PROVE  /\ RankIn(K, R, x) \in Nat /\ RankIn(K, R, y) \in Nat
         /\ <<x, y>> \in R <=> RankIn(K, R, x) < RankIn(K, R, y)
<1>1. \A z \in K : /\ IsFiniteSet(BeforeIn(K, R, z)) /\ RankIn(K, R, z) \in Nat
  BY FS_Subset, FS_CardinalityType DEF BeforeIn, RankIn
<1>2. ASSUME NEW a \in K, NEW b \in K, <<a, b>> \in R
      PROVE  RankIn(K, R, a) < RankIn(K, R, b)
  <2>1. BeforeIn(K, R, a) \subseteq BeforeIn(K, R, b)
    BY <1>2 DEF OrderOf, BeforeIn
  <2>2. a \in BeforeIn(K, R, b) /\ a \notin BeforeIn(K, R, a)
    BY <1>2 DEF OrderOf, BeforeIn
  <2>3. RankIn(K, R, a) <= RankIn(K, R, b) /\ RankIn(K, R, a) # RankIn(K, R, b)
    BY <1>1, <2>1, <2>2, FS_Subset DEF RankIn
  <2> QED BY <1>1, <2>3
<1>3. CASE x = y BY <1>1, <1>3 DEF OrderOf
<1>4. CASE x # y
  <2>1. <<x, y>> \in R \/ <<y, x>> \in R BY <1>4 DEF OrderOf
  <2> QED BY <1>1, <1>2, <2>1
<1> QED BY <1>1, <1>3, <1>4

(* Ranks differ, and every one of as many as there are members is taken.   *)
LEMMA RanksAreTaken ==
  ASSUME NEW K, IsFiniteSet(K), NEW R, OrderOf(K, R)
  PROVE  /\ Cardinality(K) \in Nat
         /\ \A x \in K : RankIn(K, R, x) \in 0 .. Cardinality(K) - 1
         /\ \A x, y \in K : RankIn(K, R, x) = RankIn(K, R, y) => x = y
         /\ \A r \in 0 .. Cardinality(K) - 1 : \E x \in K : RankIn(K, R, x) = r
<1> DEFINE n == Cardinality(K)
           N == 0 .. n - 1
           f == [x \in K |-> RankIn(K, R, x)]
<1>1. n \in Nat BY FS_CardinalityType
<1> HIDE DEF n
<1>2. IsFiniteSet(N) /\ Cardinality(N) = n BY <1>1, FS_Interval
<1>3. ASSUME NEW x \in K PROVE RankIn(K, R, x) \in N
  <2>1. BeforeIn(K, R, x) \subseteq K \ {x} BY DEF BeforeIn, OrderOf
  <2>2. IsFiniteSet(K \ {x}) /\ Cardinality(K \ {x}) = n - 1
    BY FS_RemoveElement DEF n
  <2>3. RankIn(K, R, x) <= n - 1 BY <2>1, <2>2, FS_Subset DEF RankIn
  <2>4. RankIn(K, R, x) \in Nat BY RankFollowsOrder
  <2> QED BY <1>1, <2>3, <2>4
<1>4. ASSUME NEW x \in K, NEW y \in K, RankIn(K, R, x) = RankIn(K, R, y) PROVE x = y
  <2>1. <<x, y>> \notin R /\ <<y, x>> \notin R BY <1>4, RankFollowsOrder
  <2> QED BY <2>1 DEF OrderOf
<1>5. f \in Injection(K, N) BY <1>3, <1>4 DEF Injection, IsInjective
<1>6. f \in Surjection(K, N) BY <1>2, <1>5, FS_Injection DEF n
<1>7. \A r \in N : \E x \in K : RankIn(K, R, x) = r
  BY <1>6 DEF Surjection
<1> QED BY <1>1, <1>3, <1>4, <1>7 DEF n

(* Finitely many numbers by size: their least, the next one, and so on.    *)
Within(P, n) == P \subseteq 1 .. n
Smaller(P, p) == {q \in P : q < p}

LEMMA NumbersBySize ==
  ASSUME NEW P, NEW n \in Nat, Within(P, n)
  PROVE  \E rank \in [P -> Nat] :
           /\ \A p \in P : rank[p] = Cardinality(Smaller(P, p))
           /\ Cardinality(P) \in Nat
           /\ \A p \in P : rank[p] \in 0 .. Cardinality(P) - 1
           /\ \A p, q \in P : rank[p] = rank[q] => p = q
           /\ \A r \in 0 .. Cardinality(P) - 1 : \E p \in P : rank[p] = r
<1> DEFINE R == {ab \in P \X P : ab[1] < ab[2]}
           f == [p \in P |-> RankIn(P, R, p)]
<1>0. IsFiniteSet(P)
  <2>1. IsFiniteSet(1 .. n) BY FS_Interval
  <2> QED BY <2>1, FS_Subset DEF Within
<1>1. \A a, b \in P : <<a, b>> \in R <=> a < b OBVIOUS
<1> HIDE DEF R
<1>2. OrderOf(P, R)
  <2>0. \A x \in P : x \in Int BY DEF Within
  <2>1. \A x \in P : <<x, x>> \notin R BY <1>1, <2>0
  <2>2. ASSUME NEW x \in P, NEW y \in P, x # y PROVE <<x, y>> \in R \/ <<y, x>> \in R
    <3>1. x < y \/ y < x BY <2>0, <2>2
    <3> QED BY <1>1, <3>1
  <2>3. ASSUME NEW x \in P, NEW y \in P, NEW z \in P, <<x, y>> \in R, <<y, z>> \in R
        PROVE  <<x, z>> \in R
    <3>1. x < y /\ y < z BY <1>1, <2>3
    <3>2. x < z BY <2>0, <3>1
    <3> QED BY <1>1, <3>2
  <2> QED BY <2>1, <2>2, <2>3 DEF OrderOf
<1>3. /\ Cardinality(P) \in Nat
      /\ \A x \in P : RankIn(P, R, x) \in 0 .. Cardinality(P) - 1
      /\ \A x, y \in P : RankIn(P, R, x) = RankIn(P, R, y) => x = y
      /\ \A r \in 0 .. Cardinality(P) - 1 : \E x \in P : RankIn(P, R, x) = r
  BY <1>0, <1>2, RanksAreTaken
<1>4. \A p \in P : RankIn(P, R, p) = Cardinality(Smaller(P, p))
  <2>1. TAKE p \in P
  <2>2. Smaller(P, p) = BeforeIn(P, R, p) BY <1>1 DEF BeforeIn, Smaller
  <2> QED BY <2>2 DEF RankIn
<1>5. \A p \in P : f[p] = RankIn(P, R, p) OBVIOUS
<1>6. f \in [P -> Nat] BY <1>3
<1> HIDE DEF f
<1> WITNESS f \in [P -> Nat]
<1> QED BY <1>3, <1>4, <1>5

(* What holds of no member, and with any one more, holds of every part of a*)
(* finite set.                                                             *)
LEMMA OneMemberMore ==
  ASSUME NEW D, IsFiniteSet(D), NEW P, {} \in P,
         \A c \in SUBSET D : \A x \in D \ c : c \in P => c \cup {x} \in P
  PROVE  \A c \in SUBSET D : c \in P
<1> DEFINE S == {n \in Nat : \A c \in SUBSET D : Cardinality(c) = n => c \in P}
<1>0. \A c \in SUBSET D : IsFiniteSet(c) /\ Cardinality(c) \in Nat
  BY FS_Subset, FS_CardinalityType
<1>1. 0 \in S
  <2>1. \A c \in SUBSET D : Cardinality(c) = 0 => c = {} BY <1>0, FS_EmptySet
  <2> QED BY <2>1
<1>2. ASSUME NEW n \in Nat, n \in S PROVE n + 1 \in S
  <2> SUFFICES ASSUME NEW c \in SUBSET D, Cardinality(c) = n + 1 PROVE c \in P
    OBVIOUS
  <2>1. c # {} BY FS_EmptySet
  <2>2. PICK x \in c : TRUE BY <2>1
  <2>3. Cardinality(c \ {x}) = n
    <3>1. IsFiniteSet(c) BY <1>0
    <3>2. Cardinality(c \ {x}) = Cardinality(c) - 1 BY <2>2, <3>1, FS_RemoveElement
    <3> QED BY <3>2
  <2>4. c \ {x} \in P BY <1>2, <2>3
  <2>5. c \ {x} \in SUBSET D /\ x \in D \ (c \ {x}) /\ (c \ {x}) \cup {x} = c
    BY <2>2
  <2> HIDE DEF S
  <2> QED BY <2>4, <2>5
<1> HIDE DEF S
<1>3. \A n \in Nat : n \in S BY <1>1, <1>2, InductionOverNat
<1> QED BY <1>0, <1>3 DEF S

-----------------------------------------------------------------------------
(* Sums: f[i] is the sum of the first i of a.                              *)

SumsTo(f, a, n) == f = [i \in 0 .. n |-> IF i = 0 THEN 0 ELSE f[i - 1] + a[i]]

LEMMA SumsExist ==
  ASSUME NEW a, NEW T \in {Nat, Int}, NEW n \in Nat, \A i \in 1 .. n : a[i] \in T
  PROVE  \E f \in [0 .. n -> T] : SumsTo(f, a, n)
<1> DEFINE S == {m \in Nat : m <= n => \E f \in [0 .. m -> T] : SumsTo(f, a, m)}
<1>1. 0 \in S
  <2> DEFINE z == [i \in 0 .. 0 |-> 0]
  <2>1. z \in [0 .. 0 -> T] OBVIOUS
  <2>2. SumsTo(z, a, 0) BY DEF SumsTo
  <2> QED BY <2>1, <2>2
<1>2. ASSUME NEW m \in Nat, m \in S PROVE m + 1 \in S
  <2> SUFFICES ASSUME m + 1 <= n
               PROVE  \E f \in [0 .. m + 1 -> T] : SumsTo(f, a, m + 1)
    OBVIOUS
  <2>1. PICK f \in [0 .. m -> T] : SumsTo(f, a, m) BY <1>2
  <2> DEFINE g == [i \in 0 .. m + 1 |-> IF i = m + 1 THEN f[m] + a[m + 1] ELSE f[i]]
  <2>2. g \in [0 .. m + 1 -> T]
    <3>1. a[m + 1] \in T /\ f[m] \in T OBVIOUS
    <3>2. f[m] + a[m + 1] \in T
      <4>1. CASE T = Nat BY <3>1, <4>1
      <4>2. CASE T = Int BY <3>1, <4>2
      <4> QED BY <4>1, <4>2
    <3>3. \A i \in 0 .. m + 1 : i # m + 1 => i \in 0 .. m OBVIOUS
    <3> QED BY <3>2, <3>3
  <2>3. SumsTo(g, a, m + 1)
    <3>1. \A i \in 0 .. m : f[i] = IF i = 0 THEN 0 ELSE f[i - 1] + a[i]
      BY <2>1, Zenon DEF SumsTo
    <3>2. ASSUME NEW i \in 0 .. m + 1
          PROVE  g[i] = IF i = 0 THEN 0 ELSE g[i - 1] + a[i]
      <4>1. CASE i = m + 1
        <5>1. i - 1 = m /\ i # 0 /\ m \in 0 .. m + 1 /\ m # m + 1 BY <4>1
        <5> QED BY <4>1, <5>1
      <4>2. CASE i # m + 1
        <5>1. i \in 0 .. m BY <4>2
        <5>2. g[i] = f[i] BY <4>2
        <5>3. i # 0 => i - 1 \in 0 .. m + 1 /\ i - 1 # m + 1 BY <5>1
        <5>4. i # 0 => g[i - 1] = f[i - 1] BY <5>3
        <5> QED BY <3>1, <5>1, <5>2, <5>4
      <4> QED BY <4>1, <4>2
    <3> HIDE DEF g
    <3>3. g = [i \in 0 .. m + 1 |-> g[i]] BY DEF g
    <3> QED BY <3>2, <3>3 DEF SumsTo
  <2> QED BY <2>2, <2>3
<1> HIDE DEF S
<1>3. \A m \in Nat : m \in S BY <1>1, <1>2, InductionOverNat
<1> QED BY <1>3 DEF S

(* What a sum is, read pointwise.                                          *)
LEMMA SumsStep ==
  ASSUME NEW f, NEW a, NEW n \in Nat, SumsTo(f, a, n)
  PROVE  /\ f[0] = 0
         /\ \A i \in 1 .. n : f[i] = f[i - 1] + a[i]
<1>1. \A i \in 0 .. n : f[i] = IF i = 0 THEN 0 ELSE f[i - 1] + a[i]
  BY Zenon DEF SumsTo
<1>2. 0 \in 0 .. n /\ \A i \in 1 .. n : i \in 0 .. n /\ i # 0 OBVIOUS
<1> QED BY <1>1, <1>2

(* Two sums of what agrees agree.                                          *)
LEMMA SumsAgree ==
  ASSUME NEW a, NEW b, NEW f, NEW g, NEW n \in Nat, NEW m \in Nat, n <= m,
         SumsTo(f, a, n), SumsTo(g, b, m), \A i \in 1 .. n : a[i] = b[i]
  PROVE  \A i \in 0 .. n : f[i] = g[i]
<1> DEFINE S == {i \in Nat : i <= n => f[i] = g[i]}
<1>0. /\ f[0] = 0 /\ g[0] = 0
      /\ \A i \in 1 .. n : f[i] = f[i - 1] + a[i]
      /\ \A i \in 1 .. m : g[i] = g[i - 1] + b[i]
  BY SumsStep
<1>1. 0 \in S BY <1>0
<1>2. ASSUME NEW i \in Nat, i \in S PROVE i + 1 \in S
  <2> SUFFICES ASSUME i + 1 <= n PROVE f[i + 1] = g[i + 1] OBVIOUS
  <2>1. i + 1 \in 1 .. n /\ i + 1 \in 1 .. m /\ (i + 1) - 1 = i /\ i <= n OBVIOUS
  <2>2. f[i] = g[i] BY <1>2, <2>1
  <2> QED BY <1>0, <2>1, <2>2
<1> HIDE DEF S
<1>3. \A i \in Nat : i \in S BY <1>1, <1>2, InductionOverNat
<1> QED BY <1>3 DEF S

(* One number more adds that number.                                       *)
LEMMA SumWithOneMore ==
  ASSUME NEW a, NEW b, NEW f, NEW g, NEW n \in Nat,
         SumsTo(f, a, n), SumsTo(g, b, n + 1), \A i \in 1 .. n : a[i] = b[i]
  PROVE  g[n + 1] = f[n] + b[n + 1]
<1>1. n + 1 \in Nat /\ n <= n + 1 /\ n + 1 \in 1 .. n + 1 /\ (n + 1) - 1 = n /\ n \in 0 .. n
  OBVIOUS
<1>2. \A i \in 0 .. n : f[i] = g[i] BY <1>1, SumsAgree
<1>3. \A i \in 1 .. n + 1 : g[i] = g[i - 1] + b[i] BY <1>1, SumsStep
<1> QED BY <1>1, <1>2, <1>3

(* A sum of naturals never falls.                                          *)
LEMMA SumsGrow ==
  ASSUME NEW a, NEW n \in Nat, NEW f \in [0 .. n -> Nat], SumsTo(f, a, n),
         \A i \in 1 .. n : a[i] \in Nat
  PROVE  \A i \in 1 .. n : f[i] <= f[n] /\ a[i] <= f[n]
<1> DEFINE S == {d \in Nat : d <= n => f[n - d] <= f[n]}
<1>0. f[0] = 0 /\ \A i \in 1 .. n : f[i] = f[i - 1] + a[i] BY SumsStep
<1>1. 0 \in S
  <2>1. n - 0 = n /\ f[n] \in Nat OBVIOUS
  <2> QED BY <2>1
<1>2. ASSUME NEW d \in Nat, d \in S PROVE d + 1 \in S
  <2> SUFFICES ASSUME d + 1 <= n PROVE f[n - (d + 1)] <= f[n] OBVIOUS
  <2>1. n - d \in 1 .. n /\ (n - d) - 1 = n - (d + 1) /\ n - (d + 1) \in 0 .. n OBVIOUS
  <2>2. f[n - d] = f[n - (d + 1)] + a[n - d] BY <1>0, <2>1
  <2>3. f[n - d] <= f[n] BY <1>2, <2>1
  <2>4. f[n - d] \in Nat /\ f[n - (d + 1)] \in Nat /\ f[n] \in Nat /\ a[n - d] \in Nat
    BY <2>1
  <2> QED BY <2>2, <2>3, <2>4
<1> HIDE DEF S
<1>3. \A d \in Nat : d \in S BY <1>1, <1>2, InductionOverNat
<1>4. \A i \in 0 .. n : f[i] <= f[n]
  <2>1. TAKE i \in 0 .. n
  <2>2. n - i \in Nat /\ n - i <= n /\ n - (n - i) = i OBVIOUS
  <2> QED BY <1>3, <2>2 DEF S
<1>5. ASSUME NEW i \in 1 .. n PROVE a[i] <= f[n]
  <2>1. f[i] = f[i - 1] + a[i] /\ i - 1 \in 0 .. n BY <1>0
  <2>2. f[i - 1] \in Nat /\ a[i] \in Nat /\ f[i] \in Nat /\ f[n] \in Nat /\ f[i] <= f[n]
    BY <1>4, <2>1
  <2> QED BY <2>1, <2>2
<1> QED BY <1>4, <1>5

(* Nothing but zeros sums to zero.                                         *)
LEMMA SumOfZeros ==
  ASSUME NEW a, NEW n \in Nat, NEW f, SumsTo(f, a, n), \A i \in 1 .. n : a[i] = 0
  PROVE  f[n] = 0
<1> DEFINE S == {i \in Nat : i <= n => f[i] = 0}
<1>0. f[0] = 0 /\ \A i \in 1 .. n : f[i] = f[i - 1] + a[i] BY SumsStep
<1>1. 0 \in S BY <1>0
<1>2. ASSUME NEW i \in Nat, i \in S PROVE i + 1 \in S
  <2> SUFFICES ASSUME i + 1 <= n PROVE f[i + 1] = 0 OBVIOUS
  <2>1. i + 1 \in 1 .. n /\ (i + 1) - 1 = i /\ i <= n OBVIOUS
  <2>2. f[i] = 0 BY <1>2, <2>1
  <2> QED BY <1>0, <2>1, <2>2
<1> HIDE DEF S
<1>3. \A i \in Nat : i \in S BY <1>1, <1>2, InductionOverNat
<1> QED BY <1>3 DEF S

-----------------------------------------------------------------------------
(* The k-th smallest of a list of integers.                                *)

Under(vals, v) == {i \in DOMAIN vals : vals[i] < v}
UpTo(vals, v) == {i \in DOMAIN vals : vals[i] <= v}

IsKth(vals, k, v) ==
  /\ \E i \in DOMAIN vals : vals[i] = v
  /\ Cardinality(Under(vals, v)) < k
  /\ Cardinality(UpTo(vals, v)) >= k

(* Positions in the order a stable sort by value gives them.               *)
ByValue(vals, D) ==
  {ij \in D \X D :
     vals[ij[1]] < vals[ij[2]] \/ (vals[ij[1]] = vals[ij[2]] /\ ij[1] < ij[2])}

(* Sets of positions are finite, and count no more than larger ones.       *)
LEMMA Positions ==
  ASSUME NEW vals \in Seq(Int)
  PROVE  /\ IsFiniteSet(DOMAIN vals) /\ Cardinality(DOMAIN vals) = Len(vals)
         /\ DOMAIN vals = 1 .. Len(vals) /\ Len(vals) \in Nat
         /\ \A i \in DOMAIN vals : vals[i] \in Int
<1>1. DOMAIN vals = 1 .. Len(vals) /\ Len(vals) \in Nat OBVIOUS
<1>2. \A i \in DOMAIN vals : vals[i] \in Int OBVIOUS
<1>3. IsFiniteSet(1 .. Len(vals)) /\ Cardinality(1 .. Len(vals)) = Len(vals)
  BY <1>1, FirstNumbers
<1> QED BY <1>1, <1>2, <1>3, Zenon

LEMMA FewerOf ==
  ASSUME NEW vals \in Seq(Int), NEW A, NEW B, A \subseteq B, B \subseteq DOMAIN vals
  PROVE  /\ IsFiniteSet(A) /\ Cardinality(A) \in Nat /\ Cardinality(B) \in Nat
         /\ Cardinality(A) <= Cardinality(B) /\ Cardinality(B) <= Len(vals)
         /\ Cardinality(A) = Cardinality(B) => A = B
<1>1. IsFiniteSet(DOMAIN vals) /\ Cardinality(DOMAIN vals) = Len(vals) BY Positions
<1>2. IsFiniteSet(B) /\ Cardinality(B) <= Len(vals) BY <1>1, FS_Subset
<1>3. IsFiniteSet(A) /\ Cardinality(A) <= Cardinality(B)
      /\ (Cardinality(A) = Cardinality(B) => A = B)
  BY <1>2, FS_Subset
<1> QED BY <1>2, <1>3, FS_CardinalityType

LEMMA CountsOf ==
  ASSUME NEW vals \in Seq(Int), NEW v, NEW w
  PROVE  /\ Cardinality(Under(vals, v)) \in 0 .. Len(vals)
         /\ Cardinality(UpTo(vals, w)) \in 0 .. Len(vals)
         /\ UpTo(vals, w) \subseteq Under(vals, v)
              => Cardinality(UpTo(vals, w)) <= Cardinality(Under(vals, v))
<1>1. Under(vals, v) \subseteq DOMAIN vals /\ UpTo(vals, w) \subseteq DOMAIN vals
  BY DEF Under, UpTo
<1> QED BY <1>1, FewerOf, Positions

LEMMA BetweenPositions ==
  ASSUME NEW vals, NEW D, NEW x \in D, NEW y \in D
  PROVE  <<x, y>> \in ByValue(vals, D)
         <=> vals[x] < vals[y] \/ (vals[x] = vals[y] /\ x < y)
BY DEF ByValue

(* There is a k-th smallest.                                               *)
LEMMA SomeKth ==
  ASSUME NEW vals \in Seq(Int), NEW k \in 1 .. Len(vals)
  PROVE  \E v \in Int : IsKth(vals, k, v)
<1> DEFINE D == DOMAIN vals
           R == ByValue(vals, D)
<1>1. /\ IsFiniteSet(D) /\ Cardinality(D) = Len(vals) /\ D = 1 .. Len(vals)
      /\ \A i \in D : vals[i] \in Int
      /\ Len(vals) \in Nat
  BY Positions
<1>2. OrderOf(D, R)
  <2>1. \A x, y \in D : <<x, y>> \in R
          <=> vals[x] < vals[y] \/ (vals[x] = vals[y] /\ x < y)
    BY BetweenPositions DEF D, R
  <2>2. \A x \in D : x \in Int /\ vals[x] \in Int BY <1>1
  <2> HIDE DEF D, R
  <2>3. \A x \in D : <<x, x>> \notin R BY <2>1, <2>2
  <2>4. ASSUME NEW x \in D, NEW y \in D, x # y
        PROVE  <<x, y>> \in R \/ <<y, x>> \in R
    <3>1. x \in Int /\ y \in Int /\ vals[x] \in Int /\ vals[y] \in Int BY <2>2
    <3>2. \/ vals[x] < vals[y] \/ (vals[x] = vals[y] /\ x < y)
          \/ vals[y] < vals[x] \/ (vals[y] = vals[x] /\ y < x)
      BY <2>4, <3>1
    <3> QED BY <2>1, <3>2
  <2>5. ASSUME NEW x \in D, NEW y \in D, NEW z \in D, <<x, y>> \in R, <<y, z>> \in R
        PROVE  <<x, z>> \in R
    <3>1. /\ x \in Int /\ y \in Int /\ z \in Int
          /\ vals[x] \in Int /\ vals[y] \in Int /\ vals[z] \in Int
      BY <2>2
    <3>2. /\ vals[x] < vals[y] \/ (vals[x] = vals[y] /\ x < y)
          /\ vals[y] < vals[z] \/ (vals[y] = vals[z] /\ y < z)
      BY <2>1, <2>5
    <3>3. vals[x] < vals[z] \/ (vals[x] = vals[z] /\ x < z) BY <3>1, <3>2
    <3> QED BY <2>1, <3>3
  <2> QED BY <2>3, <2>4, <2>5 DEF OrderOf
<1>3. k - 1 \in 0 .. Cardinality(D) - 1 BY <1>1
<1> HIDE DEF D, R
<1>4. PICK i \in D : RankIn(D, R, i) = k - 1
  <2>1. IsFiniteSet(D) /\ OrderOf(D, R) BY <1>1, <1>2
  <2>2. /\ Cardinality(D) \in Nat
        /\ \A x \in D : RankIn(D, R, x) \in 0 .. Cardinality(D) - 1
        /\ \A x, y \in D : RankIn(D, R, x) = RankIn(D, R, y) => x = y
        /\ \A r \in 0 .. Cardinality(D) - 1 : \E x \in D : RankIn(D, R, x) = r
    BY <2>1, RanksAreTaken
  <2> QED BY <1>3, <2>2
<1> DEFINE v == vals[i]
           B == BeforeIn(D, R, i)
<1>5. v \in Int /\ \E j \in DOMAIN vals : vals[j] = v BY <1>1 DEF D
<1>6. B \subseteq D /\ i \notin B /\ Cardinality(B) = k - 1
  BY <1>2, <1>4 DEF BeforeIn, RankIn, OrderOf
<1>7. Cardinality(Under(vals, v)) < k
  <2>1. Under(vals, v) \subseteq B
    <3>1. \A j \in Under(vals, v) : j \in D /\ <<j, i>> \in R
      BY <1>4, BetweenPositions DEF Under, D, R
    <3> QED BY <3>1 DEF BeforeIn
  <2>2. B \subseteq DOMAIN vals BY <1>6 DEF D
  <2>3. Cardinality(Under(vals, v)) <= k - 1 /\ Cardinality(Under(vals, v)) \in Nat
    BY <1>6, <2>1, <2>2, FewerOf
  <2> QED BY <2>3
<1>8. Cardinality(UpTo(vals, v)) >= k
  <2>1. B \cup {i} \subseteq UpTo(vals, v)
    <3>1. \A j \in B : j \in D /\ (vals[j] < v \/ vals[j] = v)
      BY <1>4, BetweenPositions DEF BeforeIn, D, R
    <3>2. \A j \in B : vals[j] <= v BY <1>1, <1>5, <3>1
    <3>3. v <= v BY <1>5
    <3> QED BY <1>4, <3>1, <3>2, <3>3 DEF UpTo, D
  <2>2. UpTo(vals, v) \subseteq DOMAIN vals BY DEF UpTo
  <2>3. IsFiniteSet(B) BY <1>1, <1>6, FS_Subset
  <2>4. Cardinality(B \cup {i}) = k
    <3> HIDE DEF B
    <3>1. Cardinality(B \cup {i}) = Cardinality(B) + 1 BY <1>6, <2>3, FS_AddElement
    <3> QED BY <1>1, <1>6, <3>1
  <2>5. Cardinality(B \cup {i}) <= Cardinality(UpTo(vals, v))
        /\ Cardinality(UpTo(vals, v)) \in Nat
    BY <2>1, <2>2, FewerOf
  <2> QED BY <2>4, <2>5
<1>9. IsKth(vals, k, v) BY <1>5, <1>7, <1>8 DEF IsKth
<1> QED BY <1>5, <1>9
=============================================================================
