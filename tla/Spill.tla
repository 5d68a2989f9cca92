-------------------------------- MODULE Spill --------------------------------
(***************************************************************************)
(* `sjp spill` and the totals of `sjp stages`, run again and again on a    *)
(* log that grows: stages are submitted, retried and completed, their      *)
(* tasks end, some after the stage did, and some of their lines are        *)
(* dropped on the way to the log.                                          *)
(***************************************************************************)
EXTENDS Memory

CONSTANTS
  StageIds,      \* ids of stages that ran; those of skipped ones are missing
  Retried,       \* the ids that may have a second attempt
  Sizes,         \* [memory, disk, peak] a task may end with
  MaxEnds,       \* tasks that end
  MaxDrops       \* of those, whose line is dropped

ASSUME SpillAssumption ==
  /\ StageIds \subseteq Nat /\ IsFiniteSet(StageIds) /\ Retried \subseteq StageIds
  /\ Sizes \subseteq [memory : Nat, disk : Nat, peak : Nat]

OK == 0
FOUND == 1
FAILED == 3

Keys == {k \in StageIds \X {0, 1} : k[2] = 0 \/ k[1] \in Retried}

NoTotals == [memory |-> 0, disk |-> 0]

VARIABLES
  told,     \* [Keys -> "none", "submitted" or "completed"], by its event in the log
  heard,    \* [Keys -> tasks whose line is in the log]
  lost,     \* [Keys -> tasks whose line was dropped before the stage completed]
  late,     \* the keys whose tasks went on ending after that
  totals,   \* [Keys -> what the stage's completion said they sum to]
  found     \* some `sjp spill` so far exited with 1

vars == <<told, heard, lost, late, totals, found>>

-----------------------------------------------------------------------------
KeyBefore(k, l) == k[1] < l[1] \/ (k[1] = l[1] /\ k[2] < l[2])

(* Sorted: a key's place is after as many as are before it.                *)
InOrder(K) ==
  [i \in 1 .. Cardinality(K) |->
     CHOOSE k \in K : Cardinality({l \in K : KeyBefore(l, k)}) = i - 1]

Mentioned == {k \in Keys : told[k] # "none"}

(* What build makes of the log: the attempts it mentions, in key order.    *)
App ==
  LET keys == InOrder(Mentioned) IN
  [i \in DOMAIN keys |-> [id |-> keys[i][1], attempt |-> keys[i][2],
                         tasks |-> heard[keys[i]], totals |-> totals[keys[i]]]]

(* spill: 1 when any attempt spilled; a log without stages is refused.     *)
Status(app) ==
  LET scan == Scan(app) IN
  IF app = <<>> \/ PressureRaises(app) THEN FAILED
  ELSE IF \E i \in DOMAIN scan : scan[i].outcome = SPILLING THEN FOUND ELSE OK

Reread == found' = (found \/ Status(App') = FOUND)

Init ==
  /\ told = [k \in Keys |-> "none"]
  /\ heard = [k \in Keys |-> <<>>]
  /\ lost = [k \in Keys |-> <<>>]
  /\ late = {}
  /\ totals = [k \in Keys |-> NoTotals]
  /\ found = FALSE

(* A second attempt follows the end of the first.                          *)
StageSubmitted(k) ==
  /\ told[k] = "none"
  /\ k[2] = 1 => told[<<k[1], 0>>] = "completed"
  /\ told' = [told EXCEPT ![k] = "submitted"]
  /\ UNCHANGED <<heard, lost, late, totals>>
  /\ Reread

Count(tasksOf) == Cardinality({k \in Keys \X (1 .. MaxEnds) : k[2] <= Len(tasksOf[k[1]])})

TaskEnds(k, task) ==
  /\ told[k] # "none"
  /\ Count(heard) + Count(lost) < MaxEnds
  /\ late' = IF told[k] = "completed" THEN late \cup {k} ELSE late
  /\ \/ heard' = [heard EXCEPT ![k] = Append(@, task)] /\ UNCHANGED lost
     \/ /\ Count(lost) < MaxDrops /\ told[k] = "submitted"
        /\ lost' = [lost EXCEPT ![k] = Append(@, task)] /\ UNCHANGED heard
  /\ UNCHANGED <<told, totals>>
  /\ Reread

(* The accumulables Spark summed over every task that ended, whether or    *)
(* not its line arrived.                                                   *)
StageCompleted(k) ==
  /\ told[k] = "submitted"
  /\ told' = [told EXCEPT ![k] = "completed"]
  /\ totals' = [totals EXCEPT ![k] = [m \in Metrics |-> Total(heard[k], m) + Total(lost[k], m)]]
  /\ UNCHANGED <<heard, lost, late>>
  /\ Reread

Next ==
  \E k \in Keys :
    \/ StageSubmitted(k) \/ StageCompleted(k) \/ \E task \in Sizes : TaskEnds(k, task)

Spec == Init /\ [][Next]_vars

-----------------------------------------------------------------------------
(* commands.py:308 "Exit 1 means this job spilled": once it exited 1, no   *)
(* longer log of the job makes it exit 0, whatever attempts follow.        *)
OnceSpilledNeverClean == found => Status(App) # OK

(* Where a report is printed and a stage was attempted once, the peak under*)
(* its name is that of its tasks, whatever ids were skipped before it.  For*)
(* a retried stage it is the first attempt's on every attempt's lines.     *)
PeakIsOfTheStage ==
  LET app == App IN
  app # <<>> /\ ~PressureRaises(app) =>
    \A i \in DOMAIN app :
      (\A j \in DOMAIN app : app[j].id = app[i].id => j = i) =>
        /\ app[i].tasks # <<>>
        /\ PressureLines(app).stages[i].peak = Largest(app[i].tasks, "peak")

(* model.py:470 "the stage total and the task sum are different numbers":  *)
(* on a completed stage none of whose tasks ended later, they differ in    *)
(* exactly the metrics that a task whose line was dropped had moved.       *)
TotalsCatchALoss ==
  LET app == App IN
  \A i \in DOMAIN app :
    LET k == <<app[i].id, app[i].attempt>> IN
    told[k] = "completed" /\ k \notin late =>
      Disagreements(app[i]) =
        {m \in Metrics : \E j \in DOMAIN lost[k] : lost[k][j][m] # 0}
=============================================================================
