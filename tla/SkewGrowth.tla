----------------------------- MODULE SkewGrowth -----------------------------
(***************************************************************************)
(* One stage on one metric, judged again each time its log is read, while  *)
(* the job behind it goes on: tasks end and are added, and between two     *)
(* captures of the same job the hot task grows hotter, or the tasks end in *)
(* another order.  judge() sees only the values, so what these steps may   *)
(* do to its answer is a fact about the median relative ratio.             *)
(***************************************************************************)
EXTENDS Skew

CONSTANTS
  Metric,        \* the metric judged
  Threshold,     \* [num, den]
  Values,        \* values a task may have: naturals, and negatives where the
                 \* metric is a difference of two clocks
  MaxTasks       \* bound on the tasks of the stage

ASSUME GrowthAssumption ==
  /\ Values \subseteq Int /\ MaxTasks \in Nat
  /\ Threshold \in [num : Nat, den : Nat \ {0}]
  /\ Measurable(Metric)

VARIABLES values, verdict

growthVars == <<values, verdict>>

Answer(vals) == Decide(vals, Floors[KindOf[Metric]], Threshold)

Init ==
  /\ values = <<>>
  /\ verdict = Answer(values)

Reread(vals) ==
  /\ values' = vals
  /\ verdict' = Answer(vals)

(* One more task of the stage has ended when the log is read again.        *)
TaskEnds(v) ==
  /\ Len(values) < MaxTasks
  /\ Reread(Append(values, v))

(* The same stage captured again with its largest task larger.             *)
HottestGrows(i, v) ==
  /\ v > Largest(values)
  /\ values[i] = Largest(values)
  /\ Reread([values EXCEPT ![i] = v])

Next ==
  \/ \E v \in Values : TaskEnds(v)
  \/ \E i \in DOMAIN values, v \in Values : HottestGrows(i, v)

Spec == Init /\ [][Next]_growthVars

-----------------------------------------------------------------------------
Grown == \E i \in DOMAIN values, v \in Values : HottestGrows(i, v)

Heat(v) == CASE v.outcome = UNDECIDED -> 0 [] v.outcome = EVEN -> 1
             [] v.outcome = SKEWED -> 2

NoNegative == \A i \in DOMAIN values : values[i] >= 0

NoCooler ==
  /\ Heat(verdict') >= Heat(verdict)
  /\ verdict.outcome # UNDECIDED => ~Exceeds(verdict.ratio, verdict'.ratio)

(* With no negative value, the hot task growing never cools the answer:    *)
(* undecided may become even or skewed, even may become skewed, and the    *)
(* ratio never falls.                                                      *)
HotterNeverCooler == [][Grown /\ NoNegative => NoCooler]_growthVars

(* A task that did nothing ending next to a skewed stage never turns the   *)
(* answer into an even one: a zero only pulls the middle down.             *)
IdleTaskNeverClears ==
  [][verdict.outcome = SKEWED /\ Len(values') > Len(values)
       /\ values'[Len(values')] = 0
     => verdict'.outcome = SKEWED]_growthVars

(* skew.py:9, 51: one or two tasks cannot reach any threshold worth        *)
(* setting, so nothing is decided on them; and what is decided could be.   *)
ReachableOnlyFromThree ==
  /\ Len(values) \in 1 .. 2 /\ NoNegative
       /\ Largest(values) > 0
     => ~Exceeds(Over(values), [num |-> 2, den |-> 1])
  /\ Len(values) < MinTasks => verdict.outcome = UNDECIDED

(* skew.py:311 "more than half the tasks read zero and one reads N": the   *)
(* only way to an unbounded ratio, where no value is negative.             *)
Zeros == {i \in DOMAIN values : values[i] = 0}

UnboundedIsMajorityZero ==
  NoNegative =>
    (verdict.ratio = Unbounded <=>
       /\ Len(values) >= MinTasks
       /\ 2 * Cardinality(Zeros) > Len(values)
       /\ Largest(values) > 0 /\ Largest(values) >= Floors[KindOf[Metric]])
=============================================================================
