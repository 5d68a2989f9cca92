------------------------------ MODULE Benchmark ------------------------------
(***************************************************************************)
(* scripts/benchmark.py, running a schedule.  Every run is a process of    *)
(* its own that writes one event log, as <id>.inprogress until Spark stops *)
(* and <id> after.  The driver tells its child's log from the rest by      *)
(* listing the directory before and after, and keeps what it has done in   *)
(* manifest.json, in that same directory.  A driver may be killed at any   *)
(* step; its child is not, and goes on writing beside the next driver's.   *)
(***************************************************************************)
EXTENDS Bench

CONSTANTS
  Arms,         \* the arms, in the order they were declared
  Passes,       \* passes of the schedule
  Limits,       \* values of --limit, zero for none
  None,         \* no log
  MaxCrashes,   \* drivers killed
  MaxFailures   \* children that fail

ASSUME ScheduleAssumption ==
  /\ Arms \in Seq(STRING)
  /\ Arms # <<>>
  /\ Passes \in Nat \ {0}

ASSUME LimitsAssumption == Limits \subseteq Nat

ASSUME NoLogAssumption == None \notin Nat

ASSUME BoundsAssumption == MaxCrashes \in Nat /\ MaxFailures \in Nat

VARIABLES
  manifest,   \* [kind, warm, runs]: the file manifest.json
  children,   \* every child spawned, by any driver: [arm, state, log]
  pc,         \* where the driver is, "idle" when there is none
  limit,      \* its --limit
  held,       \* the manifest it holds in memory: [warm, runs]
  done,       \* the runs it found recorded
  before,     \* the directory before its child was spawned
  status,     \* what the last driver exited with, -1 before it does
  crashes, failures

driver == <<pc, limit, held, done, before, status>>
vars == <<manifest, children, driver, crashes, failures>>

OK == 0
ERROR == 1
UNFINISHED == 3
KILLED == 137

Schedule == Order(Arms, Passes)

Blank == [warm |-> None, runs |-> <<>>]
Absent == [kind |-> "absent", warm |-> None, runs |-> <<>>]
Torn == [kind |-> "torn", warm |-> None, runs |-> <<>>]
Whole(record) == [kind |-> "whole", warm |-> record.warm, runs |-> record.runs]

(* os.listdir: a log is its number and the form its name has.              *)
Listing ==
  {<<n, children[n].log>> : n \in {m \in DOMAIN children : children[m].log # "none"}}
  \cup (IF manifest.kind = "absent" THEN {} ELSE {<<0, "manifest">>})

Init ==
  /\ manifest = Absent
  /\ children = <<>>
  /\ pc = "idle" /\ limit = 0 /\ held = Blank /\ done = 0 /\ before = {}
  /\ status = -1
  /\ crashes = 0 /\ failures = 0

-----------------------------------------------------------------------------
(* The driver: do_run and run_once.                                        *)

(* The schedule is resumed by running the same command again.              *)
Invoke(l) ==
  /\ pc = "idle"
  /\ status # OK
  /\ pc' = "load" /\ limit' = l /\ status' = -1
  /\ UNCHANGED <<manifest, children, held, done, before, crashes, failures>>

(* The process ends, and its memory with it.                               *)
Exit(code) ==
  /\ pc' = "idle" /\ status' = code
  /\ limit' = 0 /\ held' = Blank /\ done' = 0 /\ before' = {}

Load ==
  /\ pc = "load"
  /\ IF manifest.kind = "torn"
     THEN Exit(ERROR)
     ELSE /\ held' = [warm |-> manifest.warm, runs |-> manifest.runs]
          /\ done' = Len(manifest.runs)
          /\ pc' = "choose"
          /\ UNCHANGED <<limit, before, status>>
  /\ UNCHANGED <<manifest, children, crashes, failures>>

(* Slip: the limit counts from the start of the schedule.                  *)
StoppedFromStart == limit # 0 /\ Len(held.runs) >= limit

Stopped == limit # 0 /\ Len(held.runs) - done >= limit

MoreToDo ==
  held.warm = None \/ (Len(held.runs) < Len(Schedule) /\ ~Stopped)

List ==
  /\ pc = "choose"
  /\ MoreToDo
  /\ before' = Listing
  /\ pc' = "spawn"
  /\ UNCHANGED <<manifest, children, limit, held, done, status, crashes, failures>>

NextArm == IF held.warm = None THEN Warmup(Arms) ELSE Schedule[Len(held.runs) + 1]

Spawn ==
  /\ pc = "spawn"
  /\ children' = Append(children, [arm |-> NextArm, state |-> "starting", log |-> "none"])
  /\ pc' = "wait"
  /\ UNCHANGED <<manifest, limit, held, done, before, status, crashes, failures>>

Own == Len(children)

(* A run as the manifest keeps it: the arm asked for, the log taken for    *)
(* its child's, and the seconds its child took.                            *)
RunOf(n) == [arm |-> NextArm, log |-> n, seconds |-> Own]

(* Slip: the warmup is kept among the runs.                                *)
KeepAll(record, n) ==
  [warm |-> IF record.warm = None THEN n ELSE record.warm,
   runs |-> Append(record.runs, RunOf(n))]

Keep(record, n) ==
  IF record.warm = None
  THEN [record EXCEPT !.warm = n]
  ELSE [record EXCEPT !.runs = Append(@, RunOf(n))]

Fresh == Listing \ before

(* Slip: any name that appeared is taken for the child's.                  *)
AnyFresh == Fresh

(* The name taken for the child's log: the only one that appeared.         *)
Believed == IF Cardinality(Fresh) = 1 THEN Fresh ELSE {}

(* The child has ended and the directory is listed again.  check=True and  *)
(* the count of new names both raise out of the driver.                    *)
Collect ==
  /\ pc = "wait"
  /\ children[Own].state \in {"done", "failed"}
  /\ IF children[Own].state = "done" /\ Believed # {}
     THEN /\ \E name \in Believed : held' = Keep(held, name[1])
          /\ pc' = "save"
          /\ before' = {}
          /\ UNCHANGED <<limit, done, status>>
     ELSE Exit(ERROR)
  /\ UNCHANGED <<manifest, children, crashes, failures>>

(* save: open(path, "w") empties the file that dump then writes.           *)
Truncate ==
  /\ pc = "save"
  /\ manifest' = Torn
  /\ pc' = "write"
  /\ UNCHANGED <<children, limit, held, done, before, status, crashes, failures>>

Write ==
  /\ pc = "write"
  /\ manifest' = Whole(held)
  /\ pc' = "choose"
  /\ UNCHANGED <<children, limit, held, done, before, status, crashes, failures>>

(* Slip: every run that stops in good order is a success.                  *)
AlwaysOK(left) == OK

(* Slip: the count itself is the status.                                   *)
StatusIsLeft(left) == left

StatusOf(left) == IF left = 0 THEN OK ELSE UNFINISHED

Stop ==
  /\ pc = "choose"
  /\ ~MoreToDo
  /\ Exit(StatusOf(Len(Schedule) - Len(held.runs)))
  /\ UNCHANGED <<manifest, children, crashes, failures>>

Driver == Load \/ List \/ Spawn \/ Collect \/ Truncate \/ Write \/ Stop

Kill ==
  /\ pc # "idle"
  /\ crashes < MaxCrashes
  /\ crashes' = crashes + 1
  /\ Exit(KILLED)
  /\ UNCHANGED <<manifest, children, failures>>

-----------------------------------------------------------------------------
(* A child: sample.run in a process of its own.                            *)

Becomes(n, state, log) ==
  /\ children' = [children EXCEPT ![n] = [arm |-> @.arm, state |-> state, log |-> log]]
  /\ UNCHANGED <<manifest, driver, crashes>>

(* _session: Spark opens the log when its context starts.                  *)
OpenLog(n) ==
  /\ children[n].state = "starting"
  /\ Becomes(n, "running", "inprogress")
  /\ UNCHANGED failures

(* spark.stop() renames it.                                                *)
End(n) ==
  /\ children[n].state = "running"
  /\ Becomes(n, "done", "final")
  /\ UNCHANGED failures

(* No session, a job that raised after which Spark was still stopped, or a *)
(* process that was killed.                                                *)
Fail(n) ==
  /\ failures < MaxFailures
  /\ failures' = failures + 1
  /\ \/ children[n].state = "starting" /\ Becomes(n, "failed", "none")
     \/ children[n].state = "running" /\ Becomes(n, "failed", "final")
     \/ children[n].state = "running" /\ Becomes(n, "failed", "inprogress")

Child(n) == OpenLog(n) \/ End(n)

-----------------------------------------------------------------------------
Next ==
  \/ \E l \in Limits : Invoke(l)
  \/ Driver
  \/ Kill
  \/ \E n \in DOMAIN children : OpenLog(n) \/ End(n) \/ Fail(n)

Spec == Init /\ [][Next]_vars

FairSpec ==
  /\ Spec
  /\ WF_vars(\E l \in Limits : Invoke(l))
  /\ WF_vars(Driver)
  /\ WF_vars(\E n \in DOMAIN children : Child(n))

-----------------------------------------------------------------------------
ArmSet == {Arms[i] : i \in DOMAIN Arms}
Runs == Seq([arm : ArmSet, log : Nat, seconds : Nat])
Process == [arm : ArmSet,
            state : {"starting", "running", "done", "failed"},
            log : {"none", "inprogress", "final"}]
Records == [warm : Nat \cup {None}, runs : Runs]

Names == Nat \X {"inprogress", "final", "manifest"}

(* Every variable's type, and the schedule's end is never run past.        *)
TypeOK ==
  /\ manifest \in [kind : {"absent", "torn", "whole"},
                   warm : Nat \cup {None}, runs : Runs]
  /\ children \in Seq(Process)
  /\ pc \in {"idle", "load", "choose", "spawn", "wait", "save", "write"}
  /\ held \in Records
  /\ limit \in Limits \cup {0}
  /\ done \in Nat
  /\ \A name \in before : name \in Names
  /\ status \in {-1, OK, ERROR, UNFINISHED, KILLED}
  /\ crashes \in 0 .. MaxCrashes /\ failures \in 0 .. MaxFailures
  /\ Len(manifest.runs) <= Len(Schedule) /\ Len(held.runs) <= Len(Schedule)

(* benchmark.py:59 "Returns the log it wrote and the seconds it took":     *)
(* whatever else was writing there, each run is recorded under the         *)
(* finished log of the child that was timed, one of the arm asked for, and *)
(* no log is recorded twice or taken from the warmup.                      *)
Owned(record) ==
  /\ \A i \in DOMAIN record.runs :
       LET run == record.runs[i] IN
       /\ run.log = run.seconds
       /\ run.log \in DOMAIN children
       /\ children[run.log] = [arm |-> run.arm, state |-> "done", log |-> "final"]
       /\ record.warm # None /\ record.warm < run.log
       /\ \A j \in 1 .. i - 1 : record.runs[j].log < run.log
  /\ record.warm # None =>
       /\ record.warm \in DOMAIN children
       /\ children[record.warm].log = "final"

OwnLogs == Owned(manifest) /\ Owned(held)

(* A driver that exits 0 leaves a manifest a report can be built from: the *)
(* whole schedule, in the order that gives no arm the first place always,  *)
(* over however many invocations.                                          *)
CompleteMeansDone ==
  status = OK =>
    /\ manifest.kind = "whole" /\ manifest.warm # None
    /\ [i \in DOMAIN manifest.runs |-> manifest.runs[i].arm] = Schedule

(* An unreadable manifest that no driver is about to finish writing.       *)
Lost == manifest.kind = "torn" /\ pc # "write"

(* The manifest as a reader finds it; one being written is as good as      *)
(* written until its driver is killed.                                     *)
Recorded == IF pc = "write" THEN held ELSE [warm |-> manifest.warm, runs |-> manifest.runs]
RecordedArms == [i \in DOMAIN Recorded.runs |-> Recorded.runs[i].arm]

Split == INSTANCE SplitRun
  WITH readable <- ~Lost, warm <- Recorded.warm # None, runs <- RecordedArms

(* Split over any invocations, with drivers killed and children failing,   *)
(* the runs recorded are those of one uninterrupted schedule.              *)
ImplementsSplitRun == Split!SplitSpec

(* Running the command again until it exits 0 gets there, whatever --limit *)
(* each time, unless the manifest was lost.                                *)
Completes == <>(status = OK \/ Lost)
=============================================================================
