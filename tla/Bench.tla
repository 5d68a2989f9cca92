-------------------------------- MODULE Bench --------------------------------
(***************************************************************************)
(* src/sjp/bench.py: the order benchmark runs happen in, and whether two   *)
(* arms' readings are separated.  Pure operators.                          *)
(***************************************************************************)
EXTENDS Integers, Sequences, FiniteSets

-----------------------------------------------------------------------------
(* schedule: the k-th run, from 1, of passes that each start one arm       *)
(* further on.  The warmup is a run of the first arm, kept apart.          *)

(* Slip: every pass in the same order.                                     *)
OrderFixed(arms, passes) ==
  [k \in 1 .. passes * Len(arms) |-> arms[((k - 1) % Len(arms)) + 1]]

Order(arms, passes) ==
  LET n == Len(arms) IN
  [k \in 1 .. passes * n |-> arms[(((k - 1) \div n + (k - 1)) % n) + 1]]

Warmup(arms) == arms[1]

-----------------------------------------------------------------------------
(* The exact permutation test.  A probability is a fraction.               *)

Total(values, chosen) ==
  LET sum[i \in 0 .. Len(values)] ==
        IF i = 0 THEN 0
        ELSE sum[i - 1] + (IF i \in chosen THEN values[i] ELSE 0)
  IN sum[Len(values)]

Splits(n, size) == {c \in SUBSET (1 .. n) : Cardinality(c) = size}

Abs(x) == IF x < 0 THEN -x ELSE x

(* The difference of means, scaled by both arm sizes.                      *)
Gap(values, chosen) ==
  LET size == Cardinality(chosen)
      rest == Len(values) - size
      left == Total(values, chosen)
      right == Total(values, DOMAIN values \ chosen)
  IN Abs(left * rest - right * size)

(* Slip: the splits that only match the observed one are not counted.      *)
PermutationPStrict(left, right) ==
  LET pooled == left \o right
      observed == Gap(pooled, DOMAIN left)
      splits == Splits(Len(pooled), Len(left))
  IN [num |-> Cardinality({c \in splits : Gap(pooled, c) > observed}),
      den |-> Cardinality(splits)]

(* Slip: one sided.                                                        *)
PermutationPOneSided(left, right) ==
  LET pooled == left \o right
      observed == Total(pooled, DOMAIN left)
      splits == Splits(Len(pooled), Len(left))
  IN [num |-> Cardinality({c \in splits : Total(pooled, c) >= observed}),
      den |-> Cardinality(splits)]

PermutationP(left, right) ==
  LET pooled == left \o right
      observed == Gap(pooled, DOMAIN left)
      splits == Splits(Len(pooled), Len(left))
  IN [num |-> Cardinality({c \in splits : Gap(pooled, c) >= observed}),
      den |-> Cardinality(splits)]

(* 2 / comb(left + right, left)                                            *)
PFloor(left, right) ==
  [num |-> 2, den |-> Cardinality(Splits(left + right, left))]

AtMost(p, q) == p.num * q.den <= q.num * p.den

Alpha == [num |-> 1, den |-> 20]

(* verdict: no p is offered where the floor is above alpha.                *)
NoP == [num |-> -1, den |-> 1]

Verdict(left, right) ==
  LET floor == PFloor(Len(left), Len(right))
      found == PermutationP(left, right)
  IN IF ~AtMost(floor, Alpha)
     THEN [decided |-> FALSE, p |-> NoP, floor |-> floor]
     ELSE [decided |-> AtMost(found, Alpha), p |-> found, floor |-> floor]

OnFloor(verdict) == verdict.p # NoP /\ AtMost(verdict.p, verdict.floor)

-----------------------------------------------------------------------------
(* What a run's log shows of its stages, by id: [of, rows, spread], where  *)
(* `of` is the part of the query the stage ran, which no log says, rows    *)
(* what read_pass keeps of the tasks' records read, and spread the largest *)
(* duration over the median, -1 where that is zero.                        *)

(* Slip: the rows in the order of the stage ids.                           *)
WorkShapeByPosition(stages) == [i \in DOMAIN stages |-> stages[i].rows]

(* work_shape: how many stages, and the rows of each, sorted.              *)
WorkShape(stages) ==
  [rows \in {stages[i].rows : i \in DOMAIN stages} |->
     Cardinality({i \in DOMAIN stages : stages[i].rows = rows})]

(* check_comparable: one shape over all the passes.                        *)
Comparable(passes) == Cardinality({WorkShape(passes[i].stages) : i \in DOMAIN passes}) = 1

NoStage == [of |-> "none", rows |-> 0, spread |-> -1]

(* The first of the largest by a field, as max gives it.                   *)
FirstLargest(stages, field, over) ==
  LET ranked == {i \in DOMAIN stages : stages[i][field] > over} IN
  IF ranked = {} THEN NoStage
  ELSE stages[CHOOSE i \in ranked : \A j \in ranked :
                \/ stages[j][field] < stages[i][field]
                \/ stages[j][field] = stages[i][field] /\ i <= j]

WorstStage(stages) == FirstLargest(stages, "spread", -1)

CarryingStage(stages) == FirstLargest(stages, "rows", 0)
=============================================================================
