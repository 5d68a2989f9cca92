------------------------------- MODULE Memory -------------------------------
(***************************************************************************)
(* src/sjp/memory.py: what the tasks of each stage spilled, and the report *)
(* `sjp spill` prints; and from src/sjp/model.py the stage's own totals    *)
(* beside the sums over its tasks.  Pure operators; Spill grows the log    *)
(* they are asked of.                                                      *)
(*                                                                         *)
(* An application is the sequence of its stage attempts in key order, each *)
(* [id, attempt, tasks, totals]: tasks are [memory, disk, peak], totals    *)
(* [memory, disk], where zero is an accumulable the log does not carry.    *)
(***************************************************************************)
EXTENDS Naturals, Sequences, FiniteSets

CONSTANTS
  None,              \* Python's None
  Recorded,          \* the properties the environment update recorded
  BudgetProperties   \* those a budget is worked out from

SPILLING == "spilling"
CLEAN == "clean"

(* Stage.values, total and largest; the largest of no tasks raises.        *)
Total(tasks, field) ==
  LET sum[i \in 0 .. Len(tasks)] == IF i = 0 THEN 0 ELSE sum[i - 1] + tasks[i][field]
  IN sum[Len(tasks)]

Largest(tasks, field) ==
  CHOOSE v \in {tasks[i][field] : i \in DOMAIN tasks} :
    \A i \in DOMAIN tasks : tasks[i][field] <= v

Ratio(num, den) == IF den = 0 THEN None ELSE [num |-> num, den |-> den]

Inflation(tasks) == Ratio(Total(tasks, "memory"), Total(tasks, "disk"))

Concentration(tasks) ==
  IF Total(tasks, "memory") = 0 THEN None
  ELSE Ratio(Largest(tasks, "memory"), Total(tasks, "memory"))

Outcome(tasks) ==
  IF Total(tasks, "memory") = 0 /\ Total(tasks, "disk") = 0 THEN CLEAN ELSE SPILLING

TasksSpilling(tasks) == Cardinality({i \in DOMAIN tasks : tasks[i].memory # 0})

Examine(stage) ==
  [stage |-> stage.id, outcome |-> Outcome(stage.tasks), tasks |-> Len(stage.tasks),
   spilling |-> TasksSpilling(stage.tasks),
   allInOne |-> /\ Outcome(stage.tasks) = SPILLING
                /\ TasksSpilling(stage.tasks) = 1 /\ Len(stage.tasks) > 1,
   inflation |-> Inflation(stage.tasks), concentration |-> Concentration(stage.tasks)]

(* Slip: the last attempt of a stage only.                                 *)
ScanOfLatest(app) ==
  LET latest(i) == \A j \in DOMAIN app : app[j].id = app[i].id => j <= i
      kept == SelectSeq([i \in DOMAIN app |-> [at |-> i, spill |-> Examine(app[i])]],
                        LAMBDA entry : latest(entry.at))
  IN [i \in DOMAIN kept |-> kept[i].spill]

Scan(app) == [i \in DOMAIN app |-> Examine(app[i])]

Budget == [known |-> BudgetProperties \subseteq Recorded,
           absent |-> BudgetProperties \ Recorded]

(* Slip: the stage at that position, which is its id when none was skipped.*)
StageAtPosition(app, id) == app[IF id < Len(app) THEN id + 1 ELSE Len(app)]

(* Application.stage: the first attempt of that id.                        *)
StageById(app, id) ==
  app[CHOOSE i \in DOMAIN app : app[i].id = id /\ \A j \in 1 .. i - 1 : app[j].id # id]

(* pressure_lines formats neither a ratio that is None nor the largest     *)
(* peak of no tasks.                                                       *)
PressureRaises(app) ==
  LET scan == Scan(app) IN
  \E i \in DOMAIN scan :
    \/ scan[i].outcome = SPILLING /\ None \in {scan[i].inflation, scan[i].concentration}
    \/ StageById(app, scan[i].stage).tasks = <<>>

(* A peak of zero is printed as one that says nothing.                     *)
PressureLines(app) ==
  LET scan == Scan(app) IN
  [budget |-> Budget,
   stages |-> [i \in DOMAIN scan |->
                 [spill |-> scan[i],
                  peak |-> Largest(StageById(app, scan[i].stage).tasks, "peak")]]]

-----------------------------------------------------------------------------
Metrics == {"memory", "disk"}      \* of the names in STAGE_TOTAL_FIELDS

(* Slip: a total the stage does not carry is not compared.                 *)
DisagreementsOfCarried(stage) ==
  {m \in Metrics : stage.totals[m] # 0 /\ Total(stage.tasks, m) # 0
                   /\ stage.totals[m] # Total(stage.tasks, m)}

Disagreements(stage) == {m \in Metrics : stage.totals[m] # Total(stage.tasks, m)}
=============================================================================
