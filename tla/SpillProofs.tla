----------------------------- MODULE SpillProofs -----------------------------
(***************************************************************************)
(* What Spill promises, for any stages, task sizes and bounds.  The sums   *)
(* of memory.py and the order of build's keys are lemmas of their own.     *)
(***************************************************************************)
EXTENDS Spill, Counting

-----------------------------------------------------------------------------
(* Stage.total: nothing for no tasks, one task more with each, and zero    *)
(* for tasks that moved nothing and for no others.                         *)

Fields == {"memory", "disk", "peak"}

FieldOf(tasks, field) == [i \in 1 .. Len(tasks) |-> tasks[i][field]]

LEMMA FieldsAreNaturals ==
  ASSUME NEW tasks \in Seq(Sizes), NEW field \in Fields
  PROVE  /\ Len(tasks) \in Nat
         /\ \A i \in 1 .. Len(tasks) : /\ FieldOf(tasks, field)[i] = tasks[i][field]
                                       /\ FieldOf(tasks, field)[i] \in Nat
<1>1. \A size \in Sizes : size[field] \in Nat
  <2>1. \A size \in Sizes : size \in [memory : Nat, disk : Nat, peak : Nat]
    BY SpillAssumption
  <2> QED BY <2>1 DEF Fields
<1>2. \A i \in 1 .. Len(tasks) : tasks[i] \in Sizes OBVIOUS
<1> QED BY <1>1, <1>2 DEF FieldOf

LEMMA TotalIsASum ==
  ASSUME NEW tasks \in Seq(Sizes), NEW field \in Fields
  PROVE  \E f \in [0 .. Len(tasks) -> Nat] :
           /\ SumsTo(f, FieldOf(tasks, field), Len(tasks))
           /\ Total(tasks, field) = f[Len(tasks)]
<1> DEFINE n == Len(tasks)
           a == FieldOf(tasks, field)
           P(f) == f = [i \in 0 .. n |-> IF i = 0 THEN 0 ELSE f[i - 1] + tasks[i][field]]
<1>0. n \in Nat /\ \A i \in 1 .. n : a[i] = tasks[i][field] /\ a[i] \in Nat
  BY FieldsAreNaturals
<1>1. \E f \in [0 .. n -> Nat] : SumsTo(f, a, n)
  BY <1>0, SumsExist
<1>2. ASSUME NEW f PROVE P(f) <=> SumsTo(f, a, n)
  <2>1. \A i \in 0 .. n : i # 0 => i \in 1 .. n BY <1>0
  <2>2. [i \in 0 .. n |-> IF i = 0 THEN 0 ELSE f[i - 1] + tasks[i][field]]
        = [i \in 0 .. n |-> IF i = 0 THEN 0 ELSE f[i - 1] + a[i]]
    BY <1>0, <2>1
  <2> HIDE DEF a, n
  <2> QED BY <2>2 DEF SumsTo
<1>3. P(CHOOSE f : P(f))
  <2>1. \E f : P(f) BY <1>1, <1>2
  <2> HIDE DEF P
  <2> QED BY <2>1
<1>4. Total(tasks, field) = (CHOOSE f : P(f))[n] BY DEF Total
<1>5. PICK g \in [0 .. n -> Nat] : SumsTo(g, a, n) BY <1>1
<1> DEFINE h == CHOOSE f : P(f)
<1>6. SumsTo(h, a, n) BY <1>2, <1>3
<1> HIDE DEF h, P
<1>7. \A i \in 0 .. n : g[i] = h[i]
  BY <1>0, <1>5, <1>6, SumsAgree
<1>8. Total(tasks, field) = h[n] BY <1>4 DEF h
<1> QED BY <1>0, <1>5, <1>7, <1>8

LEMMA TotalsOf ==
  ASSUME NEW tasks \in Seq(Sizes), NEW field \in Fields
  PROVE  /\ Total(tasks, field) \in Nat
         /\ tasks = <<>> => Total(tasks, field) = 0
         /\ Total(tasks, field) = 0 <=> \A i \in DOMAIN tasks : tasks[i][field] = 0
         /\ \A size \in Sizes :
              /\ size[field] \in Nat
              /\ Total(Append(tasks, size), field) = Total(tasks, field) + size[field]
<1> DEFINE n == Len(tasks)
           a == FieldOf(tasks, field)
<1>0. /\ n \in Nat /\ DOMAIN tasks = 1 .. n
      /\ \A i \in 1 .. n : a[i] = tasks[i][field] /\ a[i] \in Nat
  BY FieldsAreNaturals
<1>1. PICK f : f \in [0 .. n -> Nat] /\ SumsTo(f, a, n) /\ Total(tasks, field) = f[n]
  BY TotalIsASum
<1> HIDE DEF a
<1>2. f[n] \in Nat BY <1>0, <1>1
<1>3. tasks = <<>> => Total(tasks, field) = 0
  <2>1. f[0] = 0 BY <1>0, <1>1, SumsStep
  <2>2. tasks = <<>> => n = 0 OBVIOUS
  <2> QED BY <1>1, <2>1, <2>2
<1>4. Total(tasks, field) = 0 <=> \A i \in DOMAIN tasks : tasks[i][field] = 0
  <2>1. ASSUME \A i \in DOMAIN tasks : tasks[i][field] = 0 PROVE Total(tasks, field) = 0
    <3>1. \A i \in 1 .. n : a[i] = 0 BY <1>0, <2>1
    <3> QED BY <1>0, <1>1, <3>1, SumOfZeros
  <2>2. ASSUME Total(tasks, field) = 0, NEW i \in DOMAIN tasks PROVE tasks[i][field] = 0
    <3>1. \A j \in 1 .. n : a[j] <= f[n] BY <1>0, <1>1, SumsGrow
    <3>2. i \in 1 .. n /\ a[i] <= 0 /\ a[i] \in Nat BY <1>0, <1>1, <2>2, <3>1
    <3> QED BY <1>0, <3>2
  <2> QED BY <2>1, <2>2
<1>5. ASSUME NEW size \in Sizes
      PROVE  /\ size[field] \in Nat
             /\ Total(Append(tasks, size), field) = Total(tasks, field) + size[field]
  <2> DEFINE more == Append(tasks, size)
             b == FieldOf(more, field)
  <2>1. more \in Seq(Sizes) /\ Len(more) = n + 1 /\ more[n + 1] = size
        /\ \A i \in 1 .. n : more[i] = tasks[i]
    OBVIOUS
  <2> HIDE DEF more
  <2>2. /\ \A i \in 1 .. n + 1 : b[i] = more[i][field] /\ b[i] \in Nat
    BY <2>1, FieldsAreNaturals
  <2>3. PICK g : g \in [0 .. n + 1 -> Nat] /\ SumsTo(g, b, n + 1)
             /\ Total(more, field) = g[n + 1]
    BY <2>1, TotalIsASum
  <2> HIDE DEF b, n
  <2>4. \A i \in 1 .. n : a[i] = b[i]
    <3>1. \A i \in 1 .. n : i \in 1 .. n + 1 BY <1>0
    <3> QED BY <1>0, <2>1, <2>2, <3>1
  <2>5. n + 1 \in Nat /\ n + 1 \in 1 .. n + 1
    BY <1>0
  <2>6. SumsTo(f, a, n) /\ SumsTo(g, b, n + 1) /\ n \in Nat BY <1>0, <1>1, <2>3
  <2>7. g[n + 1] = f[n] + b[n + 1]
    BY <2>4, <2>6, SumWithOneMore
  <2>8. b[n + 1] = size[field] /\ b[n + 1] \in Nat BY <2>1, <2>2, <2>5
  <2>9. Total(more, field) = Total(tasks, field) + size[field]
    BY <1>1, <2>3, <2>7, <2>8
  <2> QED BY <2>8, <2>9 DEF more
<1> QED BY <1>1, <1>2, <1>3, <1>4, <1>5

(* Spilling is some task having moved some bytes, and stays so whatever    *)
(* task ends next.                                                         *)
LEMMA SpillingStays ==
  ASSUME NEW tasks \in Seq(Sizes), NEW size \in Sizes, Outcome(tasks) = SPILLING
  PROVE  Outcome(Append(tasks, size)) = SPILLING
<1>1. \A field \in Fields :
        /\ Total(tasks, field) \in Nat /\ size[field] \in Nat
        /\ Total(Append(tasks, size), field) = Total(tasks, field) + size[field]
  BY TotalsOf
<1>2. "memory" \in Fields /\ "disk" \in Fields BY DEF Fields
<1>3. Total(tasks, "memory") # 0 \/ Total(tasks, "disk") # 0
  BY DEF Outcome, CLEAN, SPILLING
<1>4. Total(Append(tasks, size), "memory") # 0 \/ Total(Append(tasks, size), "disk") # 0
  BY <1>1, <1>2, <1>3
<1> QED BY <1>4 DEF Outcome

LEMMA SomeSpillingTask ==
  ASSUME NEW tasks \in Seq(Sizes)
  PROVE  Outcome(tasks) = SPILLING
         <=> \E i \in DOMAIN tasks : tasks[i].memory # 0 \/ tasks[i].disk # 0
<1>1. \A field \in Fields :
        Total(tasks, field) = 0 <=> \A i \in DOMAIN tasks : tasks[i][field] = 0
  BY TotalsOf
<1>2. "memory" \in Fields /\ "disk" \in Fields BY DEF Fields
<1> QED BY <1>1, <1>2 DEF Outcome, CLEAN, SPILLING

-----------------------------------------------------------------------------
(* build's sorted keys: every key once, each before those after it.        *)

KeyOrder == {ss \in Keys \X Keys : KeyBefore(ss[1], ss[2])}

LEMMA KeysAreFinite == IsFiniteSet(Keys)
<1>1. IsFiniteSet({0, 1})
  <2>1. 0 \in Int /\ 1 \in Int /\ \A i, j \in Int : IsFiniteSet(i .. j) BY FS_Interval
  <2>2. IsFiniteSet(0 .. 1) BY <2>1
  <2>3. 0 .. 1 = {0, 1} OBVIOUS
  <2> QED BY <2>2, <2>3
<1>2. IsFiniteSet(StageIds \X {0, 1}) BY <1>1, SpillAssumption, FS_Product
<1>3. Keys \subseteq StageIds \X {0, 1} BY DEF Keys
<1> QED BY <1>2, <1>3, FS_Subset

LEMMA KeysAreOrdered ==
  ASSUME NEW K \in SUBSET Keys
  PROVE  /\ IsFiniteSet(K) /\ OrderOf(K, KeyOrder)
         /\ \A k \in K : RankIn(K, KeyOrder, k) = Cardinality({l \in K : KeyBefore(l, k)})
<1>0. \A k \in Keys : k[1] \in Nat /\ k[2] \in Nat /\ k = <<k[1], k[2]>>
  <2>1. \A k \in Keys : k \in StageIds \X {0, 1} BY DEF Keys
  <2>2. \A k \in StageIds \X {0, 1} :
          k[1] \in StageIds /\ k[2] \in {0, 1} /\ k = <<k[1], k[2]>>
    OBVIOUS
  <2>3. StageIds \subseteq Nat BY SpillAssumption
  <2> QED BY <2>1, <2>2, <2>3
<1>1. \A k, l \in K : <<k, l>> \in KeyOrder <=> KeyBefore(k, l)
  BY DEF KeyOrder
<1>2. IsFiniteSet(K) BY KeysAreFinite, FS_Subset
<1>3. \A k \in K : ~ KeyBefore(k, k) BY <1>0 DEF KeyBefore
<1>4. \A k, l \in K : k # l => KeyBefore(k, l) \/ KeyBefore(l, k)
  BY <1>0 DEF KeyBefore
<1>5. \A j, k, l \in K : KeyBefore(j, k) /\ KeyBefore(k, l) => KeyBefore(j, l)
  BY <1>0 DEF KeyBefore
<1>6. OrderOf(K, KeyOrder) BY <1>1, <1>3, <1>4, <1>5 DEF OrderOf
<1>7. ASSUME NEW k \in K
      PROVE  RankIn(K, KeyOrder, k) = Cardinality({l \in K : KeyBefore(l, k)})
  <2>1. BeforeIn(K, KeyOrder, k) = {l \in K : KeyBefore(l, k)} BY <1>1 DEF BeforeIn
  <2> QED BY <2>1 DEF RankIn
<1> QED BY <1>2, <1>6, <1>7

LEMMA InOrderSorts ==
  ASSUME NEW K \in SUBSET Keys
  PROVE  /\ Cardinality(K) \in Nat /\ DOMAIN InOrder(K) = 1 .. Cardinality(K)
         /\ \A i \in DOMAIN InOrder(K) : InOrder(K)[i] \in K
         /\ \A k \in K : \E i \in DOMAIN InOrder(K) : InOrder(K)[i] = k
         /\ \A i, j \in DOMAIN InOrder(K) :
              i < j <=> KeyBefore(InOrder(K)[i], InOrder(K)[j])
<1> DEFINE n == Cardinality(K)
           rank(k) == Cardinality({l \in K : KeyBefore(l, k)})
<1>0. /\ IsFiniteSet(K) /\ OrderOf(K, KeyOrder)
      /\ \A k \in K : RankIn(K, KeyOrder, k) = rank(k)
  BY KeysAreOrdered
<1>1. /\ n \in Nat
      /\ \A k \in K : rank(k) \in 0 .. n - 1
      /\ \A k, l \in K : rank(k) = rank(l) => k = l
      /\ \A r \in 0 .. n - 1 : \E k \in K : rank(k) = r
  BY <1>0, RanksAreTaken
<1>2. \A k, l \in K : KeyBefore(k, l) <=> rank(k) < rank(l)
  <2>1. \A k, l \in K : <<k, l>> \in KeyOrder <=> rank(k) < rank(l)
    <3> TAKE k \in K, l \in K
    <3>1. <<k, l>> \in KeyOrder <=> RankIn(K, KeyOrder, k) < RankIn(K, KeyOrder, l)
      BY <1>0, RankFollowsOrder
    <3> HIDE DEF rank
    <3> QED BY <1>0, <3>1
  <2>2. \A k, l \in K : <<k, l>> \in KeyOrder <=> KeyBefore(k, l) BY DEF KeyOrder
  <2> QED BY <2>1, <2>2
<1>3. /\ DOMAIN InOrder(K) = 1 .. n
      /\ \A i \in 1 .. n : InOrder(K)[i] = CHOOSE k \in K : rank(k) = i - 1
  BY DEF InOrder
<1> HIDE DEF n, rank
<1>4. ASSUME NEW i \in 1 .. n PROVE InOrder(K)[i] \in K /\ rank(InOrder(K)[i]) = i - 1
  <2>1. i - 1 \in 0 .. n - 1 BY <1>1
  <2>2. \E k \in K : rank(k) = i - 1 BY <1>1, <2>1
  <2> QED BY <1>3, <2>2
<1>5. ASSUME NEW k \in K PROVE \E i \in 1 .. n : InOrder(K)[i] = k
  <2>1. rank(k) + 1 \in 1 .. n /\ (rank(k) + 1) - 1 = rank(k) BY <1>1
  <2>2. rank(InOrder(K)[rank(k) + 1]) = rank(k) /\ InOrder(K)[rank(k) + 1] \in K
    BY <1>4, <2>1
  <2> QED BY <1>1, <2>1, <2>2
<1>6. \A i, j \in 1 .. n : i < j <=> KeyBefore(InOrder(K)[i], InOrder(K)[j])
  BY <1>1, <1>2, <1>4
<1> QED BY <1>1, <1>3, <1>4, <1>5, <1>6 DEF n

-----------------------------------------------------------------------------
(* The inductive invariant.                                                *)

TypeOK ==
  /\ told \in [Keys -> {"none", "submitted", "completed"}]
  /\ heard \in [Keys -> Seq(Sizes)]
  /\ lost \in [Keys -> Seq(Sizes)]
  /\ late \subseteq Keys
  /\ totals \in [Keys -> [Metrics -> Nat]]
  /\ found \in BOOLEAN

(* A report that found a spill found it in an attempt still mentioned.     *)
SomeSpills == \E k \in Mentioned : Outcome(heard[k]) = SPILLING

FoundIsThere == found => SomeSpills

(* A completion's totals are of every task that ended before it.           *)
TotalsAreOfAll ==
  \A k \in Keys :
    told[k] = "completed" /\ k \notin late =>
      \A m \in Metrics : totals[k][m] = Total(heard[k], m) + Total(lost[k], m)

IInv == TypeOK /\ FoundIsThere /\ TotalsAreOfAll

-----------------------------------------------------------------------------
(* What App shows: the attempts mentioned, each once, with their tasks.    *)
LEMMA AppShowsMentioned ==
  /\ DOMAIN App = DOMAIN InOrder(Mentioned)
  /\ \A i \in DOMAIN App :
       LET k == InOrder(Mentioned)[i] IN
       /\ k \in Mentioned /\ k \in Keys /\ k = <<k[1], k[2]>>
       /\ App[i] = [id |-> k[1], attempt |-> k[2], tasks |-> heard[k], totals |-> totals[k]]
  /\ \A k \in Mentioned : \E i \in DOMAIN App : App[i].tasks = heard[k]
<1>0. Mentioned \in SUBSET Keys BY DEF Mentioned
<1>1. /\ \A i \in DOMAIN InOrder(Mentioned) : InOrder(Mentioned)[i] \in Mentioned
      /\ \A k \in Mentioned :
           \E i \in DOMAIN InOrder(Mentioned) : InOrder(Mentioned)[i] = k
  BY <1>0, InOrderSorts
<1>2. \A k \in Keys : k = <<k[1], k[2]>> BY DEF Keys
<1>3. /\ DOMAIN App = DOMAIN InOrder(Mentioned)
      /\ \A i \in DOMAIN App :
           App[i] = [id |-> InOrder(Mentioned)[i][1], attempt |-> InOrder(Mentioned)[i][2],
                     tasks |-> heard[InOrder(Mentioned)[i]],
                     totals |-> totals[InOrder(Mentioned)[i]]]
  BY DEF App
<1>4. ASSUME NEW k \in Mentioned PROVE \E i \in DOMAIN App : App[i].tasks = heard[k]
  <2>1. PICK i \in DOMAIN InOrder(Mentioned) : InOrder(Mentioned)[i] = k BY <1>1
  <2>2. i \in DOMAIN App /\ App[i].tasks = heard[k] BY <1>3, <2>1
  <2> QED BY <2>2
<1> QED BY <1>0, <1>1, <1>2, <1>3, <1>4

LEMMA StatusMeans ==
  /\ Status(App) = FOUND => SomeSpills
  /\ SomeSpills => Status(App) # OK
<1>1. /\ DOMAIN Scan(App) = DOMAIN App
      /\ \A i \in DOMAIN App : Scan(App)[i].outcome = Outcome(App[i].tasks)
  BY DEF Scan, Examine
<1>2. \A i \in DOMAIN App : \E k \in Mentioned : App[i].tasks = heard[k]
  BY AppShowsMentioned
<1>3. \A k \in Mentioned : \E i \in DOMAIN App : App[i].tasks = heard[k]
  BY AppShowsMentioned
<1>4. ASSUME Status(App) = FOUND
      PROVE  SomeSpills
  <2>1. \E i \in DOMAIN Scan(App) : Scan(App)[i].outcome = SPILLING
    BY <1>4 DEF Status, FOUND, FAILED, OK
  <2> QED BY <1>1, <1>2, <2>1 DEF SomeSpills
<1>5. ASSUME SomeSpills
      PROVE  Status(App) # OK
  <2>1. \E i \in DOMAIN Scan(App) : Scan(App)[i].outcome = SPILLING
    BY <1>1, <1>3, <1>5 DEF SomeSpills
  <2> QED BY <2>1 DEF Status, FOUND, FAILED, OK
<1> QED BY <1>4, <1>5

-----------------------------------------------------------------------------
LEMMA InitIInv == Init => IInv
<1> SUFFICES ASSUME Init PROVE IInv OBVIOUS
<1>1. TypeOK
  <2>1. NoTotals \in [Metrics -> Nat] BY DEF NoTotals, Metrics
  <2>2. <<>> \in Seq(Sizes) OBVIOUS
  <2> QED BY <2>1, <2>2 DEF Init, TypeOK
<1>2. FoundIsThere BY DEF Init, FoundIsThere
<1>3. TotalsAreOfAll BY DEF Init, TotalsAreOfAll
<1> QED BY <1>1, <1>2, <1>3 DEF IInv

(* What an attempt already showed when the command is run again stays.     *)
LEMMA FoundStays ==
  ASSUME IInv, TypeOK', Reread,
         \A k \in Mentioned : k \in Mentioned' /\
           (Outcome(heard[k]) = SPILLING => Outcome(heard'[k]) = SPILLING)
  PROVE  FoundIsThere'
<1>1. (Status(App) = FOUND)' => SomeSpills' BY StatusMeans, PTL
<1>2. (Status(App) = FOUND)' <=> Status(App') = FOUND BY DEF FOUND
<1>3. found /\ SomeSpills => SomeSpills' BY DEF SomeSpills
<1> QED BY <1>1, <1>2, <1>3 DEF IInv, FoundIsThere, Reread

LEMMA SubmittedIInv ==
  ASSUME IInv, NEW k \in Keys, StageSubmitted(k) PROVE IInv'
<1>1. TypeOK'
  <2>1. heard' = heard /\ lost' = lost /\ late' = late /\ totals' = totals
    BY DEF StageSubmitted
  <2>2. told' \in [Keys -> {"none", "submitted", "completed"}]
    BY DEF IInv, TypeOK, StageSubmitted
  <2>3. found' \in BOOLEAN BY DEF IInv, TypeOK, StageSubmitted, Reread
  <2> QED BY <2>1, <2>2, <2>3 DEF IInv, TypeOK
<1>2. FoundIsThere'
  <2>1. heard' = heard /\ Reread BY DEF StageSubmitted
  <2>2. \A l \in Mentioned : l \in Mentioned'
    BY DEF IInv, TypeOK, StageSubmitted, Mentioned
  <2> QED BY <1>1, <2>1, <2>2, FoundStays
<1>3. TotalsAreOfAll'
  <2>1. \A l \in Keys : told'[l] = "completed" => told[l] = "completed"
    BY DEF IInv, TypeOK, StageSubmitted
  <2> QED BY <2>1 DEF IInv, TotalsAreOfAll, StageSubmitted
<1> QED BY <1>1, <1>2, <1>3 DEF IInv

LEMMA EndsIInv ==
  ASSUME IInv, NEW k \in Keys, NEW task \in Sizes, TaskEnds(k, task) PROVE IInv'
<1>0. /\ \A l \in Keys : heard[l] \in Seq(Sizes) /\ lost[l] \in Seq(Sizes)
      /\ told' = told /\ totals' = totals /\ Reread
  BY DEF IInv, TypeOK, TaskEnds
<1>1. /\ heard' \in [Keys -> Seq(Sizes)] /\ lost' \in [Keys -> Seq(Sizes)]
      /\ \A l \in Keys : heard'[l] = heard[l] \/ heard'[l] = Append(heard[l], task)
      /\ \A l \in Keys \ {k} : heard'[l] = heard[l] /\ lost'[l] = lost[l]
      /\ told[k] = "completed" => k \in late' /\ late' = late \cup {k}
      /\ told[k] # "completed" => late' = late
  <2>1. CASE heard' = [heard EXCEPT ![k] = Append(@, task)] /\ lost' = lost
    <3>1. Append(heard[k], task) \in Seq(Sizes) BY <1>0
    <3> QED BY <1>0, <2>1, <3>1 DEF IInv, TypeOK, TaskEnds
  <2>2. CASE lost' = [lost EXCEPT ![k] = Append(@, task)] /\ heard' = heard
    <3>1. Append(lost[k], task) \in Seq(Sizes) BY <1>0
    <3> QED BY <1>0, <2>2, <3>1 DEF IInv, TypeOK, TaskEnds
  <2> QED BY <2>1, <2>2 DEF TaskEnds
<1>2. TypeOK'
  <2>1. late' \subseteq Keys BY <1>1 DEF IInv, TypeOK
  <2>2. found' \in BOOLEAN BY <1>0 DEF IInv, TypeOK, Reread
  <2> QED BY <1>0, <1>1, <2>1, <2>2 DEF IInv, TypeOK
<1>3. FoundIsThere'
  <2>1. \A l \in Mentioned : l \in Mentioned' /\ l \in Keys BY <1>0 DEF Mentioned
  <2>2. \A l \in Mentioned : Outcome(heard[l]) = SPILLING => Outcome(heard'[l]) = SPILLING
    BY <1>0, <1>1, <2>1, SpillingStays
  <2> QED BY <1>0, <1>2, <2>1, <2>2, FoundStays
<1>4. TotalsAreOfAll'
  <2> SUFFICES ASSUME NEW l \in Keys, told[l] = "completed", l \notin late', NEW m \in Metrics
               PROVE  totals[l][m] = Total(heard'[l], m) + Total(lost'[l], m)
    BY <1>0 DEF TotalsAreOfAll
  <2>1. l # k /\ l \notin late BY <1>1
  <2>2. heard'[l] = heard[l] /\ lost'[l] = lost[l] BY <1>1, <2>1
  <2> QED BY <2>1, <2>2 DEF IInv, TotalsAreOfAll
<1> QED BY <1>2, <1>3, <1>4 DEF IInv

LEMMA CompletedIInv ==
  ASSUME IInv, NEW k \in Keys, StageCompleted(k) PROVE IInv'
<1> DEFINE sums == [m \in Metrics |-> Total(heard[k], m) + Total(lost[k], m)]
<1>0. /\ told' = [told EXCEPT ![k] = "completed"] /\ totals' = [totals EXCEPT ![k] = sums]
      /\ heard' = heard /\ lost' = lost /\ late' = late /\ Reread
  BY DEF StageCompleted
<1>1. TypeOK'
  <2>1. sums \in [Metrics -> Nat]
    <3>1. \A m \in Metrics : m \in Fields BY DEF Metrics, Fields
    <3>2. heard[k] \in Seq(Sizes) /\ lost[k] \in Seq(Sizes) BY DEF IInv, TypeOK
    <3>3. \A m \in Metrics : Total(heard[k], m) \in Nat /\ Total(lost[k], m) \in Nat
      BY <3>1, <3>2, TotalsOf
    <3> QED BY <3>3
  <2>2. totals' \in [Keys -> [Metrics -> Nat]]
    <3> HIDE DEF sums
    <3> QED BY <1>0, <2>1 DEF IInv, TypeOK
  <2>3. told' \in [Keys -> {"none", "submitted", "completed"}] BY <1>0 DEF IInv, TypeOK
  <2>4. found' \in BOOLEAN BY <1>0 DEF IInv, TypeOK, Reread
  <2> QED BY <1>0, <2>2, <2>3, <2>4 DEF IInv, TypeOK
<1>2. FoundIsThere'
  <2>1. \A l \in Mentioned : l \in Mentioned' BY <1>0 DEF IInv, TypeOK, Mentioned
  <2> QED BY <1>0, <1>1, <2>1, FoundStays
<1>3. TotalsAreOfAll'
  <2> SUFFICES ASSUME NEW l \in Keys, told'[l] = "completed", l \notin late, NEW m \in Metrics
               PROVE  totals'[l][m] = Total(heard[l], m) + Total(lost[l], m)
    BY <1>0 DEF TotalsAreOfAll
  <2>1. CASE l = k
    <3>1. totals'[k] = sums BY <1>0 DEF IInv, TypeOK
    <3> QED BY <2>1, <3>1
  <2>2. CASE l # k
    <3>1. told[l] = "completed" /\ totals'[l] = totals[l] BY <1>0, <2>2 DEF IInv, TypeOK
    <3> QED BY <3>1 DEF IInv, TotalsAreOfAll
  <2> QED BY <2>1, <2>2
<1> QED BY <1>1, <1>2, <1>3 DEF IInv

LEMMA NextIInv == IInv /\ [Next]_vars => IInv'
<1> SUFFICES ASSUME IInv, [Next]_vars PROVE IInv' OBVIOUS
<1>1. CASE \E k \in Keys : StageSubmitted(k) BY <1>1, SubmittedIInv
<1>2. CASE \E k \in Keys : StageCompleted(k) BY <1>2, CompletedIInv
<1>3. CASE \E k \in Keys : \E task \in Sizes : TaskEnds(k, task) BY <1>3, EndsIInv
<1>4. CASE UNCHANGED vars
  BY <1>4 DEF vars, IInv, TypeOK, FoundIsThere, SomeSpills, Mentioned, TotalsAreOfAll
<1> QED BY <1>1, <1>2, <1>3, <1>4 DEF Next

(* Types, and the two facts the properties below follow from.              *)
THEOREM Invariant == Spec => []IInv
<1> QED BY InitIInv, NextIInv, PTL DEF Spec

-----------------------------------------------------------------------------
(* commands.py:308 "Exit 1 means this job spilled": once it exited 1, no   *)
(* longer log of the job makes it exit 0, however many attempts of however *)
(* many stages follow.                                                     *)
THEOREM SpilledStaysSpilled == Spec => []OnceSpilledNeverClean
<1>1. IInv => OnceSpilledNeverClean
  BY StatusMeans DEF IInv, FoundIsThere, OnceSpilledNeverClean
<1> QED BY <1>1, Invariant, PTL

(* The peak printed under a stage that was attempted once is the largest   *)
(* of its own tasks, wherever in the log the stage is.                     *)
THEOREM PeakIsItsOwn == Spec => []PeakIsOfTheStage
<1>1. PeakIsOfTheStage
  <2> SUFFICES ASSUME ~ PressureRaises(App), NEW i \in DOMAIN App,
                      \A j \in DOMAIN App : App[j].id = App[i].id => j = i
               PROVE  /\ App[i].tasks # <<>>
                      /\ PressureLines(App).stages[i].peak = Largest(App[i].tasks, "peak")
    BY DEF PeakIsOfTheStage
  <2>1. DOMAIN Scan(App) = DOMAIN App /\ Scan(App)[i].stage = App[i].id
    BY DEF Scan, Examine
  <2>2. StageById(App, App[i].id) = App[i]
    <3>1. /\ DOMAIN App = DOMAIN InOrder(Mentioned)
          /\ DOMAIN InOrder(Mentioned) = 1 .. Cardinality(Mentioned)
          /\ Cardinality(Mentioned) \in Nat
      BY AppShowsMentioned, InOrderSorts DEF Mentioned
    <3>2. \A j \in 1 .. i - 1 : j \in DOMAIN App /\ j # i BY <3>1
    <3>3. App[i].id = App[i].id /\ \A j \in 1 .. i - 1 : App[j].id # App[i].id BY <3>2
    <3>4. (CHOOSE c \in DOMAIN App : App[c].id = App[i].id
                     /\ \A j \in 1 .. c - 1 : App[j].id # App[i].id) = i
      BY <3>3
    <3> QED BY <3>4 DEF StageById
  <2>3. App[i].tasks # <<>> BY <2>1, <2>2 DEF PressureRaises
  <2>4. PressureLines(App).stages[i].peak = Largest(App[i].tasks, "peak")
    BY <2>1, <2>2 DEF PressureLines
  <2> QED BY <2>3, <2>4
<1> QED BY <1>1, PTL

(* model.py:470 "the stage total and the task sum are different numbers":  *)
(* on a completed stage none of whose tasks ended later, they differ in    *)
(* exactly the metrics a dropped task had moved, whatever was dropped.     *)
THEOREM TotalsTellOfALoss == Spec => []TotalsCatchALoss
<1>1. IInv => TotalsCatchALoss
  <2> SUFFICES ASSUME IInv, NEW i \in DOMAIN App,
                      told[<<App[i].id, App[i].attempt>>] = "completed",
                      <<App[i].id, App[i].attempt>> \notin late
               PROVE  Disagreements(App[i]) =
                        {m \in Metrics : \E j \in DOMAIN lost[<<App[i].id, App[i].attempt>>] :
                                           lost[<<App[i].id, App[i].attempt>>][j][m] # 0}
    BY DEF TotalsCatchALoss
  <2>1. PICK k \in Keys : /\ k = <<App[i].id, App[i].attempt>>
                          /\ App[i].tasks = heard[k] /\ App[i].totals = totals[k]
    BY AppShowsMentioned
  <2>2. heard[k] \in Seq(Sizes) /\ lost[k] \in Seq(Sizes) BY DEF IInv, TypeOK
  <2>3. ASSUME NEW m \in Metrics
        PROVE  totals[k][m] # Total(heard[k], m) <=> \E j \in DOMAIN lost[k] : lost[k][j][m] # 0
    <3>1. m \in Fields BY DEF Metrics, Fields
    <3>2. totals[k][m] = Total(heard[k], m) + Total(lost[k], m)
      BY <2>1 DEF IInv, TotalsAreOfAll
    <3>3. Total(heard[k], m) \in Nat /\ Total(lost[k], m) \in Nat BY <2>2, <3>1, TotalsOf
    <3>4. Total(lost[k], m) = 0 <=> \A j \in DOMAIN lost[k] : lost[k][j][m] = 0
      BY <2>2, <3>1, TotalsOf
    <3> QED BY <3>2, <3>3, <3>4
  <2> QED BY <2>1, <2>3 DEF Disagreements
<1> QED BY <1>1, Invariant, PTL
=============================================================================
