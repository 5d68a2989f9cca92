---------------------------- MODULE BenchReadings ----------------------------
(***************************************************************************)
(* The passes two arms' runs leave behind as the schedule goes on, and the *)
(* report of the manifest after each of them.  The manifest may be         *)
(* reported at any point, so the two arms need not have run equally often, *)
(* and one run's log may not look like the others'.                        *)
(***************************************************************************)
EXTENDS Bench

CONSTANTS
  Rounds,     \* passes of the schedule
  Outcomes,   \* [wall, stages]: a run's wall time, and the stages its log shows
  Usual,      \* the stages most logs show
  MaxOdd      \* runs whose log shows others

Stages == Seq([of : STRING, rows : Nat, spread : Int])

ASSUME ReadingsAssumption ==
  /\ Rounds \in Nat
  /\ Outcomes \subseteq [wall : Nat, stages : Stages]

TwoArms == <<"left", "right">>

VARIABLES passes      \* [arm, wall, stages] per run, in the order they ran

(* readings: one number per pass of one arm.                               *)
Of(arm) ==
  LET mine == {i \in DOMAIN passes : passes[i].arm = arm}
      ranked(r) == CHOOSE i \in mine : Cardinality({j \in mine : j < i}) = r - 1
  IN [r \in 1 .. Cardinality(mine) |-> passes[ranked(r)].wall]
Left == Of("left")
Right == Of("right")

ReadingsInit == passes = <<>>

OddRuns == Cardinality({i \in DOMAIN passes : passes[i].stages # Usual})

Run(outcome) ==
  /\ Len(passes) < Len(Order(TwoArms, Rounds))
  /\ outcome.stages = Usual \/ OddRuns < MaxOdd
  /\ passes' = Append(passes, [arm |-> Order(TwoArms, Rounds)[Len(passes) + 1],
                               wall |-> outcome.wall, stages |-> outcome.stages])

ReadingsNext == \E outcome \in Outcomes : Run(outcome)

ReadingsSpec == ReadingsInit /\ [][ReadingsNext]_passes

BothRan == Left # <<>> /\ Right # <<>>
Answer == Verdict(Left, Right)

(* do_report and report_lines: how a report of the manifest ends.  That    *)
(* the carrying stage took some time in the baseline's runs is taken for   *)
(* granted (its ratio is None else, and formatting that raises), and that  *)
(* --against names one of the arms.                                        *)
Report ==
  CASE passes = <<>> -> "no runs"
    [] passes # <<>> /\ ~Comparable(passes) -> "not comparable"
    [] Comparable(passes)
         /\ (~BothRan \/ \E i \in DOMAIN passes :
               NoStage \in {CarryingStage(passes[i].stages), WorstStage(passes[i].stages)})
       -> "raises"
    [] OTHER -> "printed"

Reported == Report = "printed"

-----------------------------------------------------------------------------
(* A split run is as good as a whole one: wherever it is reported, no arm  *)
(* has run twice more than another, and over the passes done no arm has    *)
(* gone first more than once oftener than another.                         *)
FirstsOf(arm) ==
  Cardinality({k \in DOMAIN passes :
                 (k - 1) % Len(TwoArms) = 0 /\ passes[k].arm = arm})

Rotates ==
  /\ Abs(Len(Left) - Len(Right)) <= 1
  /\ Abs(FirstsOf("left") - FirstsOf("right")) <= 1

(* bench.py:161: with as many readings each, no p is below the floor, and  *)
(* none is above one.                                                      *)
FloorIsTheSmallest ==
  Reported /\ Len(Left) = Len(Right) =>
    LET p == PermutationP(Left, Right) IN
    AtMost(PFloor(Len(Left), Len(Right)), p) /\ p.num <= p.den

(* bench.py:227: a reading lands on the floor exactly when no reading of   *)
(* one arm sits inside the other: every one of one arm is below every one  *)
(* of the other, and neither touches.                                      *)
Below(s, t) == \A i \in DOMAIN s, j \in DOMAIN t : s[i] < t[j]

OnFloorMeansApart ==
  LET answer == Answer IN
  Reported /\ Len(Left) = Len(Right) /\ answer.p # NoP =>
    (OnFloor(answer) <=> Below(Left, Right) \/ Below(Right, Left))

(* Which arm is called the baseline does not decide the question.          *)
EitherArmAsBaseline ==
  Reported => Verdict(Right, Left).decided = Answer.decided

(* bench.py:113, 289: a report of both arms is refused only when some pass *)
(* did other work than another, a retried stage's work done twice          *)
(* included, and whichever ids the stages got.  Where a count of rows tells*)
(* the part of the query it is of, it is refused whenever one did, and what*)
(* is printed follows one part of the query through every pass.            *)
WorkOf(stages) ==
  [work \in {<<stages[i].of, stages[i].rows>> : i \in DOMAIN stages} |->
     Cardinality({i \in DOMAIN stages : <<stages[i].of, stages[i].rows>> = work})]

OtherWork ==
  LET works == {WorkOf(passes[i].stages) : i \in DOMAIN passes} IN
  \E here, there \in works : here # there

RowsTellThePart ==
  LET logged == UNION {{passes[i].stages[a] : a \in DOMAIN passes[i].stages} :
                         i \in DOMAIN passes}
  IN \A one, other \in logged : one.rows = other.rows => one.of = other.of

ComparedDidTheSameWork ==
  BothRan =>
    /\ Report = "not comparable" => OtherWork
    /\ RowsTellThePart =>
         /\ OtherWork => Report = "not comparable"
         /\ Reported =>
              \A i \in DOMAIN passes :
                CarryingStage(passes[i].stages).of = CarryingStage(passes[1].stages).of
=============================================================================
