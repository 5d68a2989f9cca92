------------------------------- MODULE Profile -------------------------------
(***************************************************************************)
(* src/sjp/model.py build(): one reader of a log that Spark may still be   *)
(* writing.  Each line is read and given to its handler (HANDLERS); at the *)
(* end of the file what the handlers gathered is frozen into an            *)
(* Application.  `state` is the code's _Build, `app` what build returns.   *)
(***************************************************************************)
EXTENDS SparkLog

CONSTANT None      \* Python's None

ASSUME NoneAssumption == None \notin Info

VARIABLES
  pos,     \* lines of the log read so far
  phase,   \* "reading", then how build ended
  state,   \* _Build
  app      \* the Application, None until there is one

readerVars == <<pos, phase, state, app>>
vars == <<logVars, readerVars>>

Task == [at : Nat, index : Nat, failed : BOOLEAN]
Job == [job : Jobs, submission : Nat, completion : Nat,
        result : {"none", "ok", "failed"}]

Empty == [start |-> 0, end |-> 0, properties |-> 0, cores |-> 0, cpus |-> 0,
          jobs |-> <<>>,
          submitted |-> [k \in Keys |-> None],
          completed |-> [k \in Keys |-> None],
          tasks |-> [k \in Keys |-> <<>>],
          driver |-> [id \in AccIds |-> 0],
          plans |-> 0,
          seen |-> {}]

-----------------------------------------------------------------------------
(* The handlers.  An instant or a value that was never read is 0.          *)

Line == log[pos + 1]

(* The line at pos is an event of this name; its handler makes the new     *)
(* state, and the name is remembered among those used.                     *)
Take(name, new) ==
  /\ phase = "reading"
  /\ pos < Len(log)
  /\ Line.ev = name
  /\ pos' = pos + 1
  /\ state' = [new EXCEPT !.seen = @ \cup {name}]
  /\ UNCHANGED <<logVars, phase, app>>

ApplicationStart ==
  Take("ApplicationStart", [state EXCEPT !.start = Line.at])

ApplicationEnd ==
  Take("ApplicationEnd", [state EXCEPT !.end = Line.at])

EnvironmentUpdate ==
  Take("EnvironmentUpdate", [state EXCEPT !.properties = Line.at])

ExecutorAdded ==
  Take("ExecutorAdded", [state EXCEPT !.cores = @ + Line.cores])

ResourceProfileAdded ==
  Take("ResourceProfileAdded", [state EXCEPT !.cpus = Line.cpus])

SQLExecutionStart ==
  Take("SQLExecutionStart",
       [state EXCEPT !.plans = IF Line.planned THEN @ + 1 ELSE @])

DriverAccumUpdates ==
  Take("DriverAccumUpdates", [state EXCEPT !.driver[Line.id] = Line.at])

JobStart ==
  Take("JobStart",
       [state EXCEPT !.jobs = Append(@, [job |-> Line.job, submission |-> Line.at,
                                         completion |-> 0, result |-> "none"])])

(* Slip: every job so far ends with this one.                              *)
EndedAnyJob(entry, event) ==
  [entry EXCEPT !.completion = event.at, !.result = IF event.ok THEN "ok" ELSE "failed"]

Ended(entry, event) ==
  IF entry.job = event.job
  THEN [entry EXCEPT !.completion = event.at,
                     !.result = IF event.ok THEN "ok" ELSE "failed"]
  ELSE entry

JobEnd ==
  Take("JobEnd",
       [state EXCEPT !.jobs = [i \in DOMAIN @ |-> Ended(@[i], Line)]])

StageSubmitted ==
  Take("StageSubmitted", [state EXCEPT !.submitted[Line.key] = Line.info])

StageCompleted ==
  Take("StageCompleted", [state EXCEPT !.completed[Line.key] = Line.info])

(* Slip: tasks grouped by stage id alone, so attempts of a stage run together. *)
TaskKeyStageOnly(event) == <<event.key[1], 0>>

TaskKey(event) == event.key

TaskOf(event) == [at |-> event.at, index |-> event.index,
                  failed |-> event.outcome # "ok"]

(* Slip: tasks held by index, so a task's later try takes the earlier's place. *)
TaskEndByIndex ==
  /\ pos < Len(log) /\ Line.ev = "TaskEnd" /\ Line.outcome # "lost"
  /\ LET Other(task) == task.index # Line.index IN
     Take("TaskEnd",
          [state EXCEPT !.tasks[Line.key] =
             Append(SelectSeq(@, Other), TaskOf(Line))])

TaskEnd ==
  /\ pos < Len(log) /\ Line.ev = "TaskEnd" /\ Line.outcome # "lost"
  /\ Take("TaskEnd", [state EXCEPT !.tasks[TaskKey(Line)] = Append(@, TaskOf(Line))])

(* "Task Metrics" is null: subscripting it raises out of build.            *)
TaskEndRaises ==
  /\ phase = "reading"
  /\ pos < Len(log)
  /\ Line.ev = "TaskEnd"
  /\ Line.outcome = "lost"
  /\ phase' = "raised"
  /\ UNCHANGED <<logVars, pos, state, app>>

(* No handler for this event: it is skipped.                               *)
Handled == {"ApplicationStart", "ApplicationEnd", "EnvironmentUpdate",
            "ExecutorAdded", "ResourceProfileAdded", "SQLExecutionStart",
            "DriverAccumUpdates", "JobStart", "JobEnd", "StageSubmitted",
            "StageCompleted", "TaskEnd"}

(* Slip: the line after a skipped one goes with it.                        *)
SkipTwo ==
  /\ phase = "reading"
  /\ pos < Len(log)
  /\ Line.ev \notin Handled
  /\ pos' = pos + 2
  /\ UNCHANGED <<logVars, phase, state, app>>

Skip ==
  /\ phase = "reading"
  /\ pos < Len(log)
  /\ Line.ev \notin Handled
  /\ pos' = pos + 1
  /\ UNCHANGED <<logVars, phase, state, app>>

-----------------------------------------------------------------------------
(* The end of the file.                                                    *)

(* Slip: a stage only its tasks speak of is no stage.                      *)
SeenKeysOfEvents == {k \in Keys : state.submitted[k] # None \/ state.completed[k] # None}

SeenKeys == {k \in Keys : \/ state.submitted[k] # None
                          \/ state.completed[k] # None
                          \/ state.tasks[k] # <<>>}

NoInfo == [declared |-> 0, parents |-> {}, submission |-> 0, completion |-> 0,
           failed |-> FALSE, reports |-> {}]

InfoOf(key) ==
  IF state.completed[key] # None THEN state.completed[key]
  ELSE IF state.submitted[key] # None THEN state.submitted[key]
  ELSE NoInfo

(* Slip: tasks left in the order they ended.                               *)
AsEnded(s) == s

(* sorted(tasks, key = index): stable, so tries of one task keep the order *)
(* in which they ended.                                                    *)
Precedes(s, p, q) == s[p].index < s[q].index \/ (s[p].index = s[q].index /\ p < q)

SortedByIndex(s) ==
  [i \in DOMAIN s |->
     s[CHOOSE p \in DOMAIN s : Cardinality({q \in DOMAIN s : Precedes(s, q, p)}) = i - 1]]

StageFrom(key) ==
  LET info == InfoOf(key) IN
  [declared |-> info.declared, parents |-> info.parents,
   submission |-> info.submission, completion |-> info.completion,
   failed |-> info.failed, tasks |-> SortedByIndex(state.tasks[key])]

(* Slip: the driver's values go in last.                                   *)
AccumulatorOfDriverLast(id) ==
  IF state.driver[id] # 0 THEN state.driver[id]
  ELSE LET reporting == {k \in SeenKeys : id \in InfoOf(k).reports} IN
       IF reporting = {} THEN 0 ELSE InfoOf(CHOOSE k \in reporting : TRUE).completion

(* The stages in key order: the last one whose totals hold the id wins,    *)
(* and any stage wins over the driver.                                     *)
KeyBefore(k, l) == k[1] < l[1] \/ (k[1] = l[1] /\ k[2] < l[2])

AccumulatorOf(id) ==
  LET reporting == {k \in SeenKeys : id \in InfoOf(k).reports} IN
  IF reporting = {} THEN state.driver[id]
  ELSE InfoOf(CHOOSE k \in reporting :
                \A l \in reporting : ~KeyBefore(k, l)).completion

Slots == IF state.cpus = 0 THEN state.cores ELSE state.cores \div state.cpus

Application ==
  [start |-> state.start, end |-> state.end, slots |-> Slots,
   jobs |-> state.jobs, plans |-> state.plans,
   stages |-> [k \in SeenKeys |-> StageFrom(k)],
   accumulators |-> [id \in AccIds |-> AccumulatorOf(id)]]

AtEnd == phase = "reading" /\ pos = Len(log)

Refuse ==
  /\ AtEnd
  /\ state.start = 0 \/ SeenKeys = {}
  /\ phase' = "refused"
  /\ UNCHANGED <<logVars, pos, state, app>>

Finish ==
  /\ AtEnd
  /\ state.start # 0
  /\ SeenKeys # {}
  /\ phase' = "built"
  /\ app' = Application
  /\ UNCHANGED <<logVars, pos, state>>

(* A line that is not JSON: the writer is part way through its next one,   *)
(* or died there.                                                          *)
Unreadable ==
  /\ AtEnd
  /\ Running
  /\ phase' = "unreadable"
  /\ UNCHANGED <<logVars, pos, state, app>>

-----------------------------------------------------------------------------
ReaderInit ==
  /\ pos = 0
  /\ phase = "reading"
  /\ state = Empty
  /\ app = None

ReaderNext ==
  \/ ApplicationStart \/ ApplicationEnd \/ EnvironmentUpdate
  \/ ExecutorAdded \/ ResourceProfileAdded
  \/ SQLExecutionStart \/ DriverAccumUpdates
  \/ JobStart \/ JobEnd
  \/ StageSubmitted \/ StageCompleted
  \/ TaskEnd \/ TaskEndRaises
  \/ Skip
  \/ Refuse \/ Finish \/ Unreadable

(* Spark goes on writing; once the reader is done it no longer matters.    *)
Write == phase = "reading" /\ LogNext /\ UNCHANGED readerVars

Init == LogInit /\ ReaderInit
Next == Write \/ ReaderNext

Spec == Init /\ [][Next]_vars

-----------------------------------------------------------------------------
(* What a reader of the answer relies on.                                  *)

Known == [start : Nat, end : Nat, properties : Nat, cores : Nat, cpus : Nat,
          jobs : Seq(Job),
          submitted : [Keys -> Info \cup {None}],
          completed : [Keys -> Info \cup {None}],
          tasks : [Keys -> Seq(Task)],
          driver : [AccIds -> Nat],
          plans : Nat,
          seen : SUBSET Handled]

(* The type of what _Build gathers, and of how far the reader got.         *)
TypeOK ==
  /\ posted \in Seq(Event) /\ log \in Seq(Event)
  /\ pos \in 0 .. Len(log)
  /\ phase \in {"reading", "built", "refused", "unreadable", "raised"}
  /\ state \in Known

(* Every TaskEnd line read so far is a task of its own (stage, attempt),   *)
(* once, and every task is one: attempts and siblings whose lines          *)
(* interleave are never mixed, merged or dropped by setdefault().append(). *)
Kept(task, key, p) ==
  log[p].ev = "TaskEnd" /\ log[p].key = key /\ task = TaskOf(log[p])

EveryEndKept ==
  \A p \in 1 .. pos : log[p].ev = "TaskEnd" =>
    \E i \in DOMAIN state.tasks[log[p].key] :
      Kept(state.tasks[log[p].key][i], log[p].key, p)

EveryTaskEnded ==
  \A k \in Keys : \A i \in DOMAIN state.tasks[k] :
    \E p \in 1 .. pos : Kept(state.tasks[k][i], k, p)

InOrderOfEnding ==
  \A k \in Keys : \A i, j \in DOMAIN state.tasks[k] :
    i < j => state.tasks[k][i].at < state.tasks[k][j].at

TasksConserved == EveryEndKept /\ EveryTaskEnded /\ InOrderOfEnding

(* The answer's stages are exactly those any line read mentions, each with *)
(* the tasks of its lines, in index order and, within one index, in the    *)
(* order the tries ended (the stable sort of _stage_from).                 *)
ReadFor(key) == {p \in 1 .. pos : log[p].ev = "TaskEnd" /\ log[p].key = key}

StagesCarryTheirTasks ==
  phase = "built" =>
    /\ DOMAIN app.stages =
         {k \in Keys : \E p \in 1 .. pos :
            /\ log[p].ev \in {"StageSubmitted", "StageCompleted", "TaskEnd"}
            /\ log[p].key = k}
    /\ \A k \in DOMAIN app.stages :
         LET tasks == app.stages[k].tasks IN
         /\ {tasks[i] : i \in DOMAIN tasks} = {TaskOf(log[p]) : p \in ReadFor(k)}
         /\ Len(tasks) = Cardinality(ReadFor(k))
         /\ \A i, j \in DOMAIN tasks : i < j =>
              \/ tasks[i].index < tasks[j].index
              \/ tasks[i].index = tasks[j].index /\ tasks[i].at < tasks[j].at

(* With nothing dropped, a job the answer shows succeeded has, for each of *)
(* its stages, an attempt in the answer that completed and did not fail.   *)
SucceededJobShowsItsStages ==
  phase = "built" /\ log = posted =>
    \A i \in DOMAIN app.jobs : app.jobs[i].result = "ok" =>
      \A s \in StagesOf[app.jobs[i].job] :
        \E k \in DOMAIN app.stages :
          /\ k[1] = s
          /\ app.stages[k].completion # 0 /\ ~app.stages[k].failed

(* An accumulator id reads as the last stage of the log reporting it, and  *)
(* as the driver's last update only when no stage does: two attempts of a  *)
(* stage report the same ids, and completion order is not driver order.    *)
LastAt(P) == log[CHOOSE p \in P : \A q \in P : q <= p].at

LatestReadingWins ==
  phase = "built" =>
    \A id \in AccIds :
      LET byStage == {p \in 1 .. pos : /\ log[p].ev = "StageCompleted"
                                       /\ id \in log[p].info.reports}
          byDriver == {p \in 1 .. pos : /\ log[p].ev = "DriverAccumUpdates"
                                        /\ log[p].id = id}
      IN app.accumulators[id] = IF byStage # {} THEN LastAt(byStage)
                                ELSE IF byDriver # {} THEN LastAt(byDriver)
                                ELSE 0

(* A refusal is one of two facts about the lines: no application start, or *)
(* nothing at all said of a stage.  Anything less is answered.             *)
RefusalIsHonest ==
  phase = "refused" =>
    \/ \A p \in 1 .. pos : log[p].ev # "ApplicationStart"
    \/ \A p \in 1 .. pos :
         log[p].ev \notin {"StageSubmitted", "StageCompleted", "TaskEnd"}

(* eventlog.py logs_under: "A half written log is a real thing to be       *)
(* handed."  What one answers is not taken back when the log is handed     *)
(* over again longer: it is still answered, has every stage and every task *)
(* it had, and of a stage it showed completed the rest of the record too,  *)
(* though a late task, another try or another attempt may have come since. *)
Keeps(earlier, later) ==
  /\ earlier.start # 0 => later.start # 0
  /\ DOMAIN earlier.stages \subseteq DOMAIN later.stages
  /\ \A k \in DOMAIN earlier.stages :
       LET was == earlier.stages[k]
           is  == later.stages[k]
       IN  /\ {was.tasks[i] : i \in DOMAIN was.tasks}
                \subseteq {is.tasks[i] : i \in DOMAIN is.tasks}
           /\ was.completion # 0 => was = [is EXCEPT !.tasks = was.tasks]

LongerLogKeepsTheAnswer ==
  [][phase = "reading" => Keeps(Application, Application')]_vars

-----------------------------------------------------------------------------
(* What the repository says of the answer and the answer does not keep.    *)

(* model.py:298, slots: "How many tasks can run at once."  Never more than *)
(* the cores of the executors that were alive together.                    *)
LiveCores(n) ==
  CoresEach * Cardinality({e \in Executors :
    /\ \E p \in 1 .. n : posted[p].ev = "ExecutorAdded" /\ posted[p].executor = e
    /\ ~\E p \in 1 .. n : posted[p].ev = "ExecutorRemoved" /\ posted[p].executor = e})

SlotsCanRun ==
  phase = "built" => \E n \in 0 .. Len(posted) : app.slots <= LiveCores(n)

(* commands.py:69 stage_lines: what the first line and each stage's lines  *)
(* subtract or take the middle of must be there, or it raises.             *)
StagesRenders ==
  /\ app.end # 0
  /\ \A k \in DOMAIN app.stages : /\ app.stages[k].completion # 0
                                  /\ app.stages[k].tasks # <<>>

(* docs/limitations.md: "`sjp stages` reports a stage that was submitted   *)
(* and never completed with whatever the log holds for it."                *)
StagesReportsWhateverIsThere == phase = "built" => StagesRenders
=============================================================================
