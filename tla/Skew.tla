-------------------------------- MODULE Skew --------------------------------
(***************************************************************************)
(* src/sjp/skew.py: whether a stage skewed on a metric, and what a report  *)
(* says of all the verdicts.  Pure operators; SkewGrowth and SkewCommand   *)
(* put them in motion.                                                     *)
(*                                                                         *)
(* A stage is a record of its id and, per metric, the sequence of its      *)
(* tasks' values.  Medians are kept doubled, so they are integers; a ratio *)
(* is a fraction, 1/0 when it is unbounded and 0/0 when nothing was        *)
(* divided.                                                                *)
(***************************************************************************)
EXTENDS Integers, Sequences, FiniteSets

CONSTANTS
  Kinds,        \* model.MEASURED, a sequence: the kinds a ratio means something for
  KindOf,       \* [names declared on model.Task -> kinds], model.kind_of
  Quantities,   \* model.QUANTITIES, a sequence of names of a measured kind
  Floors        \* [kind -> the magnitude below which nothing is decided]

ASSUME KindsAssumption ==
  /\ \A i \in DOMAIN Quantities : Quantities[i] \in DOMAIN KindOf
  /\ \A i \in DOMAIN Kinds : Floors[Kinds[i]] \in Nat

SKEWED == "skewed"
EVEN == "even"
UNDECIDED == "undecided"
Outcomes == <<SKEWED, EVEN, UNDECIDED>>

MinTasks == 3

Members(s) == {s[i] : i \in DOMAIN s}
IndexIn(s, x) == CHOOSE i \in DOMAIN s : s[i] = x

-----------------------------------------------------------------------------
(* model.py, Stage: the middle and the largest of a list of values.        *)

Kth(values, k) ==
  CHOOSE v \in Members(values) :
    /\ Cardinality({i \in DOMAIN values : values[i] < v}) < k
    /\ Cardinality({i \in DOMAIN values : values[i] <= v}) >= k

(* Slip: the lower of the two middle values of an even count.              *)
TwiceLowerMedian(values) == 2 * Kth(values, (Len(values) + 1) \div 2)

TwiceMedian(values) ==
  Kth(values, (Len(values) + 1) \div 2) + Kth(values, Len(values) \div 2 + 1)

Largest(values) == Kth(values, Len(values))

-----------------------------------------------------------------------------
(* Ratios.                                                                 *)

Unbounded == [num |-> 1, den |-> 0]
NoRatio == [num |-> 0, den |-> 0]

Divide(num, den) == IF den < 0 THEN [num |-> -num, den |-> -den]
                               ELSE [num |-> num, den |-> den]

Over(values) == Divide(2 * Largest(values), TwiceMedian(values))

Exceeds(r, s) == r.num * s.den > s.num * r.den
SameRatio(r, s) == r.num * s.den = s.num * r.den

-----------------------------------------------------------------------------
(* judge: one stage, one metric.                                           *)

Measurable(metric) == metric \in DOMAIN KindOf /\ KindOf[metric] \in Members(Kinds)

(* refuse_unmeasured: every name that is refused.                          *)
Refused(metrics) == {m \in Members(metrics) : ~Measurable(m)}

MeansSomething(threshold) == threshold.num > threshold.den

(* Slip: no answer is given on a median of zero.                           *)
DecideNoZeroMedian(values, floor, threshold) ==
  IF Len(values) < MinTasks \/ Largest(values) = 0 \/ Largest(values) < floor
     \/ TwiceMedian(values) = 0
  THEN [outcome |-> UNDECIDED, ratio |-> NoRatio]
  ELSE [outcome |-> IF Exceeds(Over(values), threshold) THEN SKEWED ELSE EVEN,
        ratio |-> Over(values)]

(* Slip: two tasks are thought enough.                                     *)
DecideFromTwo(values, floor, threshold) ==
  IF Len(values) < MinTasks - 1 \/ Largest(values) = 0 \/ Largest(values) < floor
  THEN [outcome |-> UNDECIDED, ratio |-> NoRatio]
  ELSE IF TwiceMedian(values) = 0 THEN [outcome |-> SKEWED, ratio |-> Unbounded]
  ELSE [outcome |-> IF Exceeds(Over(values), threshold) THEN SKEWED ELSE EVEN,
        ratio |-> Over(values)]

(* Slip: the comparison with the threshold the wrong way round.            *)
DecideSwapped(values, floor, threshold) ==
  IF Len(values) < MinTasks \/ Largest(values) = 0 \/ Largest(values) < floor
  THEN [outcome |-> UNDECIDED, ratio |-> NoRatio]
  ELSE IF TwiceMedian(values) = 0 THEN [outcome |-> SKEWED, ratio |-> Unbounded]
  ELSE [outcome |-> IF Exceeds(threshold, Over(values)) THEN SKEWED ELSE EVEN,
        ratio |-> Over(values)]

Decide(values, floor, threshold) ==
  IF Len(values) < MinTasks \/ Largest(values) = 0 \/ Largest(values) < floor
  THEN [outcome |-> UNDECIDED, ratio |-> NoRatio]
  ELSE IF TwiceMedian(values) = 0 THEN [outcome |-> SKEWED, ratio |-> Unbounded]
  ELSE [outcome |-> IF Exceeds(Over(values), threshold) THEN SKEWED ELSE EVEN,
        ratio |-> Over(values)]

Judge(stage, metric, threshold) ==
  LET answer == Decide(stage.values[metric], Floors[KindOf[metric]], threshold) IN
  [stage |-> stage.id, metric |-> metric,
   outcome |-> answer.outcome, ratio |-> answer.ratio]

(* scan: every stage against every metric, in stage order.                 *)
Scan(stages, metrics, threshold) ==
  LET M == Len(metrics) IN
  [i \in 1 .. Len(stages) * M |->
     Judge(stages[((i - 1) \div M) + 1], metrics[((i - 1) % M) + 1], threshold)]

-----------------------------------------------------------------------------
(* What the report says of a list of verdicts.                             *)

Count(verdicts, outcome) ==
  Cardinality({i \in DOMAIN verdicts : verdicts[i].outcome = outcome})

ExitStatus(verdicts) == IF Count(verdicts, SKEWED) > 0 THEN 1 ELSE 0

(* [x for x in s if ...]: what stands at these places of s, in their order. *)
AtPlaces(s, P) ==
  [r \in 1 .. Cardinality(P) |->
     s[CHOOSE p \in P : Cardinality({q \in P : q < p}) = r - 1]]

Only(verdicts, outcome) ==
  AtPlaces(verdicts, {i \in DOMAIN verdicts : verdicts[i].outcome = outcome})

SkewedOf(verdicts, kind) ==
  {i \in DOMAIN verdicts : /\ verdicts[i].outcome = SKEWED
                           /\ KindOf[verdicts[i].metric] = kind}

Worse(v, w) == \/ Exceeds(v.ratio, w.ratio)
               \/ ~Exceeds(w.ratio, v.ratio) /\ v.stage < w.stage

(* Slip: the first skewed verdict of the kind, whatever its ratio.         *)
WorstFirst(verdicts, kind) ==
  verdicts[CHOOSE i \in SkewedOf(verdicts, kind) :
             \A j \in SkewedOf(verdicts, kind) : i <= j]

(* max() keeps the first of the verdicts nothing else is worse than.       *)
Worst(verdicts, kind) ==
  LET skewed == SkewedOf(verdicts, kind)
      top == {i \in skewed : \A j \in skewed : ~Worse(verdicts[j], verdicts[i])}
  IN verdicts[CHOOSE i \in top : \A j \in top : i <= j]

HasWorst(verdicts, kind) == SkewedOf(verdicts, kind) # {}

(* rank_key: the outcome, the kind, the ratio downwards with none last, the *)
(* stage, the metric's name (here its place among the names).               *)
RanksBefore(v, w, alphabet) ==
  LET o(x) == IndexIn(Outcomes, x.outcome)
      k(x) == IndexIn(Kinds, KindOf[x.metric])
      n(x) == IndexIn(alphabet, x.metric)
      hotter == v.ratio # NoRatio /\ (w.ratio = NoRatio \/ Exceeds(v.ratio, w.ratio))
      cooler == w.ratio # NoRatio /\ (v.ratio = NoRatio \/ Exceeds(w.ratio, v.ratio))
  IN \/ o(v) < o(w)
     \/ o(v) = o(w) /\ k(v) < k(w)
     \/ o(v) = o(w) /\ k(v) = k(w) /\ hotter
     \/ o(v) = o(w) /\ k(v) = k(w) /\ ~hotter /\ ~cooler
        /\ (v.stage < w.stage \/ (v.stage = w.stage /\ n(v) < n(w)))

(* sorted(verdicts, key = rank_key), which keeps the order of equal keys.  *)
Ranked(verdicts, alphabet) ==
  LET before(i, j) ==
        \/ RanksBefore(verdicts[i], verdicts[j], alphabet)
        \/ i < j /\ ~RanksBefore(verdicts[j], verdicts[i], alphabet)
  IN [r \in DOMAIN verdicts |->
        verdicts[CHOOSE i \in DOMAIN verdicts :
                   Cardinality({j \in DOMAIN verdicts : before(j, i)}) = r - 1]]
=============================================================================
