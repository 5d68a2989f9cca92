------------------------------ MODULE SparkLog ------------------------------
(***************************************************************************)
(* The other side of the file sjp reads: one Spark application posting     *)
(* listener events and writing them to its event log, a line at a time.    *)
(* Spark is not part of the repository.  Which events exist, what they     *)
(* carry and what may be missing is taken from the handlers of             *)
(* src/sjp/model.py, from what its comments say real logs look like, and   *)
(* from the logs under src/tests/fixtures.                                 *)
(*                                                                         *)
(* The number of an event in the order of posting stands for everything    *)
(* measured in it: times, byte counts, accumulator values.  Two events     *)
(* never carry the same one, so the profiler cannot mistake one for        *)
(* another without a property noticing.                                    *)
(***************************************************************************)
EXTENDS Naturals, Sequences, FiniteSets

CONSTANTS
  Stages,         \* stage ids, natural numbers
  Jobs,           \* job ids
  StagesOf,       \* [Jobs -> SUBSET Stages], "Stage IDs" of a job start
  Parents,        \* [Stages -> SUBSET Stages], "Parent IDs" of a stage
  AccIds,         \* accumulator ids
  Reports,        \* [Stages -> SUBSET AccIds], ids a completed stage reports, its own
  Executors,      \* executor ids
  CoresEach,      \* "Total Cores" of an executor
  Cpus,           \* cpus a task may ask for, 0 when the amount is not written
  Partitions,     \* bound on the tasks of one stage attempt
  MaxAttempts,    \* bound on the attempts of one stage
  MaxTries,       \* bound on the attempts of one task
  MaxPlans,       \* bound on the SQL executions
  MaxDriver,      \* bound on the driver accumulator updates
  MaxPosted,      \* bound on the events of one run
  Droppable,      \* names of the events the listener bus may drop
  MaxDrops        \* bound on the events it drops

ASSUME ConstantsAssumption ==
  /\ Stages \subseteq Nat
  /\ Parents \in [Stages -> SUBSET Stages]
  /\ Reports \in [Stages -> SUBSET AccIds]
  /\ \A s, u \in Stages : Reports[s] \cap Reports[u] # {} => s = u
  /\ CoresEach \in Nat
  /\ Cpus \subseteq Nat
  /\ MaxAttempts \in Nat
  /\ Partitions \in Nat

VARIABLES
  posted,         \* every event the application posted, in order
  log             \* the lines of the event log: posted, less the dropped ones

logVars == <<posted, log>>

Keys == Stages \X (0 .. MaxAttempts - 1)      \* (Stage ID, Stage Attempt ID)

-----------------------------------------------------------------------------
(* The events, by what the handlers read of them.                          *)

Info == [declared : Nat, parents : SUBSET Stages, submission : Nat,
         completion : Nat, failed : BOOLEAN, reports : SUBSET AccIds]

(* How a task attempt ends.  One lost with its executor has no metrics.     *)
Outcomes == {"ok", "failed", "lost"}

Event ==
  [ev : {"ApplicationStart", "ApplicationEnd", "EnvironmentUpdate"},
     at : Nat]
  \cup [ev : {"ExecutorAdded", "ExecutorRemoved"}, at : Nat,
         executor : Executors, cores : {CoresEach}]
  \cup [ev : {"ResourceProfileAdded"}, at : Nat, cpus : Cpus]
  \cup [ev : {"SQLExecutionStart"}, at : Nat, planned : BOOLEAN]
  \cup [ev : {"DriverAccumUpdates"}, at : Nat, id : AccIds]
  \cup [ev : {"JobStart"}, at : Nat, job : Jobs]
  \cup [ev : {"JobEnd"}, at : Nat, job : Jobs, ok : BOOLEAN]
  \cup [ev : {"StageSubmitted", "StageCompleted"}, at : Nat, key : Keys, info : Info]
  \cup [ev : {"TaskEnd"}, at : Nat, key : Keys, index : Nat, outcome : Outcomes]

Named(name) == {p \in DOMAIN posted : posted[p].ev = name}
Happened(name) == Named(name) # {}
About(name, key) == {p \in Named(name) : posted[p].key = key}

Submission(key) == posted[CHOOSE p \in About("StageSubmitted", key) : TRUE]
Ends(key, index) == {p \in About("TaskEnd", key) : posted[p].index = index}
Succeeded(key, index) == \E p \in Ends(key, index) : posted[p].outcome = "ok"
CompletedOk(stage) ==
  \E p \in Named("StageCompleted") :
    posted[p].key[1] = stage /\ ~posted[p].info.failed
Broken(key) == \E p \in About("StageCompleted", key) : posted[p].info.failed

Added(e) == \E p \in Named("ExecutorAdded") : posted[p].executor = e
Removed(e) == \E p \in Named("ExecutorRemoved") : posted[p].executor = e

-----------------------------------------------------------------------------
(* Posting.  The bus may drop an event.  A process that dies simply posts  *)
(* nothing more.                                                           *)

Now == Len(posted) + 1
Running == Happened("ApplicationStart") /\ ~Happened("ApplicationEnd")

Post(event) ==
  /\ Len(posted) < MaxPosted
  /\ ~Happened("ApplicationEnd")
  /\ posted' = Append(posted, event)
  /\ \/ log' = Append(log, event)
     \/ /\ event.ev \in Droppable
        /\ Len(posted) - Len(log) < MaxDrops
        /\ UNCHANGED log

(* Executors register one at a time; each id is used once.                 *)
PostExecutorAdded(e) ==
  /\ ~Added(e)
  /\ Post([ev |-> "ExecutorAdded", at |-> Now, executor |-> e, cores |-> CoresEach])

PostExecutorRemoved(e) ==
  /\ Running
  /\ Added(e) /\ ~Removed(e)
  /\ Post([ev |-> "ExecutorRemoved", at |-> Now, executor |-> e, cores |-> CoresEach])

PostSQLExecutionStart(planned) ==
  /\ Running
  /\ Cardinality(Named("SQLExecutionStart")) < MaxPlans
  /\ Post([ev |-> "SQLExecutionStart", at |-> Now, planned |-> planned])

PostDriverAccumUpdates(id) ==
  /\ Running
  /\ Happened("SQLExecutionStart")
  /\ Cardinality(Named("DriverAccumUpdates")) < MaxDriver
  /\ Post([ev |-> "DriverAccumUpdates", at |-> Now, id |-> id])

PostJobStart(job) ==
  /\ Running
  /\ ~\E p \in Named("JobStart") : posted[p].job = job
  /\ Post([ev |-> "JobStart", at |-> Now, job |-> job])

(* A stage waits for its parents.  A new attempt follows a failed one and  *)
(* may hold fewer tasks than the first, only the partitions still missing. *)
PostStageSubmitted(key, n) ==
  /\ Running
  /\ \E p \in Named("JobStart") : key[1] \in StagesOf[posted[p].job]
  /\ About("StageSubmitted", key) = {}
  /\ \A parent \in Parents[key[1]] : CompletedOk(parent)
  /\ key[2] > 0 => Broken(<<key[1], key[2] - 1>>)
  /\ Post([ev |-> "StageSubmitted", at |-> Now, key |-> key,
           info |-> [declared |-> n, parents |-> Parents[key[1]],
                     submission |-> Now, completion |-> 0,
                     failed |-> FALSE, reports |-> {}]])

(* Tasks end in any order.  A task of a failed attempt may still end after *)
(* the attempt was reported complete.                                      *)
PostTaskEnd(key, index, outcome) ==
  /\ Running
  /\ About("StageSubmitted", key) # {}
  /\ index < Submission(key).info.declared
  /\ ~Succeeded(key, index)
  /\ Cardinality(Ends(key, index)) < MaxTries
  /\ outcome = "lost" => \E e \in Executors : Removed(e)
  /\ Post([ev |-> "TaskEnd", at |-> Now, key |-> key, index |-> index,
           outcome |-> outcome])

PostStageCompleted(key, failed) ==
  /\ Running
  /\ About("StageSubmitted", key) # {}
  /\ About("StageCompleted", key) = {}
  /\ ~failed => \A i \in 0 .. Submission(key).info.declared - 1 : Succeeded(key, i)
  /\ Post([ev |-> "StageCompleted", at |-> Now, key |-> key,
           info |-> [Submission(key).info EXCEPT !.completion = Now,
                                                 !.failed = failed,
                                                 !.reports = Reports[key[1]]]])

PostJobEnd(job, ok) ==
  /\ Running
  /\ \E p \in Named("JobStart") : posted[p].job = job
  /\ ~\E p \in Named("JobEnd") : posted[p].job = job
  /\ ok => \A s \in StagesOf[job] : CompletedOk(s)
  /\ ~ok => \E s \in StagesOf[job] : Broken(<<s, MaxAttempts - 1>>)
  /\ Post([ev |-> "JobEnd", at |-> Now, job |-> job, ok |-> ok])

PostApplicationEnd ==
  /\ Running
  /\ Post([ev |-> "ApplicationEnd", at |-> Now])

-----------------------------------------------------------------------------
(* The first lines of every log.  The one that names the application may   *)
(* be missing from the file; one nobody has handed a cpu amount reads 0.   *)
Preamble(cpus) ==
  << [ev |-> "ResourceProfileAdded", at |-> 1, cpus |-> cpus],
     [ev |-> "EnvironmentUpdate", at |-> 2],
     [ev |-> "ApplicationStart", at |-> 3] >>

LogInit ==
  /\ \E cpus \in Cpus : posted = Preamble(cpus)
  /\ \/ log = posted
     \/ /\ MaxDrops > 0
        /\ log = SubSeq(posted, 1, 2)

LogNext ==
  \/ \E e \in Executors : PostExecutorAdded(e) \/ PostExecutorRemoved(e)
  \/ \E planned \in BOOLEAN : PostSQLExecutionStart(planned)
  \/ \E id \in AccIds : PostDriverAccumUpdates(id)
  \/ \E job \in Jobs : PostJobStart(job)
  \/ \E key \in Keys, n \in 1 .. Partitions : PostStageSubmitted(key, n)
  \/ \E key \in Keys, index \in 0 .. Partitions - 1, outcome \in Outcomes :
       PostTaskEnd(key, index, outcome)
  \/ \E key \in Keys, failed \in BOOLEAN : PostStageCompleted(key, failed)
  \/ \E job \in Jobs, ok \in BOOLEAN : PostJobEnd(job, ok)
  \/ PostApplicationEnd
=============================================================================
