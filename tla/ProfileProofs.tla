---------------------------- MODULE ProfileProofs ----------------------------
(***************************************************************************)
(* What Profile keeps for every application, whatever the constants: the   *)
(* types, the conservation of tasks (TasksConserved), what a refusal means *)
(* (RefusalIsHonest), and what the answer carries: its stages' tasks       *)
(* (StagesCarryTheirTasks), the stages of a job that succeeded             *)
(* (SucceededJobShowsItsStages), the accumulators (LatestReadingWins), and *)
(* what it had when the log was shorter (LongerLogKeepsTheAnswer).         *)
(***************************************************************************)
EXTENDS Profile, Counting, SequenceTheorems

-----------------------------------------------------------------------------
(* An event that is posted has the shape its handler expects.              *)

LEMMA SubmissionInfo ==
  ASSUME posted \in Seq(Event), NEW key \in Keys, About("StageSubmitted", key) # {}
  PROVE  Submission(key).info \in Info
<1>1. Submission(key) \in Event /\ Submission(key).ev = "StageSubmitted"
  BY DEF Submission, About, Named
<1> QED BY <1>1 DEF Event

LEMMA PostType ==
  ASSUME posted \in Seq(Event), log \in Seq(Event), NEW event \in Event, Post(event)
  PROVE  posted' \in Seq(Event) /\ log' \in Seq(Event) /\ Len(log') >= Len(log)
BY DEF Post

LEMMA LogStep ==
  ASSUME posted \in Seq(Event), log \in Seq(Event), LogNext
  PROVE  \E event \in Event : event.at = Now /\ Post(event)
<1> USE ConstantsAssumption
<1> Now \in Nat BY DEF Now
<1>1. ASSUME NEW e \in Executors, PostExecutorAdded(e) \/ PostExecutorRemoved(e)
      PROVE  \E event \in Event : event.at = Now /\ Post(event)
  BY <1>1 DEF PostExecutorAdded, PostExecutorRemoved, Event
<1>2. ASSUME NEW planned \in BOOLEAN, PostSQLExecutionStart(planned)
      PROVE  \E event \in Event : event.at = Now /\ Post(event)
  BY <1>2 DEF PostSQLExecutionStart, Event
<1>3. ASSUME NEW id \in AccIds, PostDriverAccumUpdates(id)
      PROVE  \E event \in Event : event.at = Now /\ Post(event)
  BY <1>3 DEF PostDriverAccumUpdates, Event
<1>4. ASSUME NEW job \in Jobs, PostJobStart(job)
      PROVE  \E event \in Event : event.at = Now /\ Post(event)
  BY <1>4 DEF PostJobStart, Event
<1>5. ASSUME NEW key \in Keys, NEW n \in 1 .. Partitions, PostStageSubmitted(key, n)
      PROVE  \E event \in Event : event.at = Now /\ Post(event)
  <2> DEFINE info == [declared |-> n, parents |-> Parents[key[1]],
                      submission |-> Now, completion |-> 0,
                      failed |-> FALSE, reports |-> {}]
  <2>1. key[1] \in Stages BY DEF Keys
  <2>2. n \in Nat OBVIOUS
  <2>3. info \in Info BY <2>1, <2>2 DEF Info
  <2>4. [ev |-> "StageSubmitted", at |-> Now, key |-> key, info |-> info] \in Event
    BY <2>3 DEF Event
  <2> QED BY <1>5, <2>4 DEF PostStageSubmitted
<1>6. ASSUME NEW key \in Keys, NEW index \in 0 .. Partitions - 1,
             NEW outcome \in Outcomes, PostTaskEnd(key, index, outcome)
      PROVE  \E event \in Event : event.at = Now /\ Post(event)
  BY <1>6 DEF PostTaskEnd, Event
<1>7. ASSUME NEW key \in Keys, NEW failed \in BOOLEAN, PostStageCompleted(key, failed)
      PROVE  \E event \in Event : event.at = Now /\ Post(event)
  <2> DEFINE info == [Submission(key).info EXCEPT !.completion = Now,
                                                  !.failed = failed,
                                                  !.reports = Reports[key[1]]]
  <2>1. key[1] \in Stages BY DEF Keys
  <2>2. Submission(key).info \in Info BY <1>7, SubmissionInfo DEF PostStageCompleted
  <2>3. info \in Info BY <2>1, <2>2 DEF Info
  <2>4. [ev |-> "StageCompleted", at |-> Now, key |-> key, info |-> info] \in Event
    BY <2>3 DEF Event
  <2> QED BY <1>7, <2>4 DEF PostStageCompleted
<1>8. ASSUME NEW job \in Jobs, NEW ok \in BOOLEAN, PostJobEnd(job, ok)
      PROVE  \E event \in Event : event.at = Now /\ Post(event)
  BY <1>8 DEF PostJobEnd, Event
<1>9. ASSUME PostApplicationEnd
      PROVE  \E event \in Event : event.at = Now /\ Post(event)
  BY <1>9 DEF PostApplicationEnd, Event
<1> QED BY <1>1, <1>2, <1>3, <1>4, <1>5, <1>6, <1>7, <1>8, <1>9 DEF LogNext

-----------------------------------------------------------------------------
(* Types.  Each handler is typed by what its line is known to carry.       *)

(* The line at pos, when there is one, is an event of the log.             *)
LEMMA LineType ==
  ASSUME TypeOK, pos < Len(log)
  PROVE  Line \in Event /\ pos + 1 \in DOMAIN log /\ pos + 1 \in 0 .. Len(log)
BY DEF TypeOK, Line

LEMMA TakeType ==
  ASSUME TypeOK, NEW name \in Handled, NEW new \in Known, Take(name, new)
  PROVE  TypeOK'
<1>1. [new EXCEPT !.seen = @ \cup {name}] \in Known BY DEF Known
<1>2. state' \in Known BY <1>1 DEF Take
<1> QED BY <1>2, LineType DEF TypeOK, Take, logVars

LEMMA InitType == ASSUME Init PROVE TypeOK
<1> USE ConstantsAssumption
<1>1. PICK cpus \in Cpus : posted = Preamble(cpus) BY DEF Init, LogInit
<1>2. Preamble(cpus) \in Seq(Event) /\ Len(Preamble(cpus)) = 3
  BY DEF Preamble, Event
<1>3. log \in Seq(Event)
  <2>1. CASE log = posted BY <2>1, <1>1, <1>2
  <2>2. CASE log = SubSeq(posted, 1, 2) BY <2>2, <1>1, <1>2
  <2> QED BY <2>1, <2>2 DEF Init, LogInit
<1>4. Empty \in Known BY DEF Empty, Known
<1> QED BY <1>1, <1>2, <1>3, <1>4 DEF Init, ReaderInit, TypeOK

LEMMA WriteType == ASSUME TypeOK, Write PROVE TypeOK'
<1>1. PICK event \in Event : Post(event) BY LogStep DEF TypeOK, Write
<1>2. posted' \in Seq(Event) /\ log' \in Seq(Event) /\ Len(log') >= Len(log)
  BY <1>1, PostType DEF TypeOK
<1>3. pos \in 0 .. Len(log') BY <1>2 DEF TypeOK
<1> QED BY <1>2, <1>3 DEF TypeOK, Write, readerVars

LEMMA ReaderType == ASSUME TypeOK, ReaderNext PROVE TypeOK'
<1> USE ConstantsAssumption
<1>0. state \in Known BY DEF TypeOK
<1>1. CASE ApplicationStart
  <2>1. [state EXCEPT !.start = Line.at] \in Known
    BY <1>0, <1>1, LineType DEF ApplicationStart, Take, Known, Event
  <2> QED BY <1>1, <2>1, TakeType DEF ApplicationStart, Handled
<1>2. CASE ApplicationEnd
  <2>1. [state EXCEPT !.end = Line.at] \in Known
    BY <1>0, <1>2, LineType DEF ApplicationEnd, Take, Known, Event
  <2> QED BY <1>2, <2>1, TakeType DEF ApplicationEnd, Handled
<1>3. CASE EnvironmentUpdate
  <2>1. [state EXCEPT !.properties = Line.at] \in Known
    BY <1>0, <1>3, LineType DEF EnvironmentUpdate, Take, Known, Event
  <2> QED BY <1>3, <2>1, TakeType DEF EnvironmentUpdate, Handled
<1>4. CASE ExecutorAdded
  <2>1. Line.cores = CoresEach BY <1>4, LineType DEF ExecutorAdded, Take, Event
  <2> DEFINE cores == state.cores + Line.cores
  <2>2. cores \in Nat BY <1>0, <2>1 DEF Known
  <2> HIDE DEF cores
  <2>3. [state EXCEPT !.cores = cores] \in Known BY <1>0, <2>2 DEF Known
  <2> QED BY <1>4, <2>3, TakeType DEF ExecutorAdded, Handled, cores
<1>5. CASE ResourceProfileAdded
  <2>1. Line.cpus \in Nat BY <1>5, LineType DEF ResourceProfileAdded, Take, Event
  <2>2. [state EXCEPT !.cpus = Line.cpus] \in Known BY <1>0, <2>1 DEF Known
  <2> QED BY <1>5, <2>2, TakeType DEF ResourceProfileAdded, Handled
<1>6. CASE SQLExecutionStart
  <2> DEFINE plans == IF Line.planned THEN state.plans + 1 ELSE state.plans
  <2>1. plans \in Nat BY <1>0 DEF Known
  <2> HIDE DEF plans
  <2>2. [state EXCEPT !.plans = plans] \in Known BY <1>0, <2>1 DEF Known
  <2> QED BY <1>6, <2>2, TakeType DEF SQLExecutionStart, Handled, plans
<1>7. CASE DriverAccumUpdates
  <2>1. Line.at \in Nat BY <1>7, LineType DEF DriverAccumUpdates, Take, Event
  <2>2. [state EXCEPT !.driver[Line.id] = Line.at] \in Known BY <1>0, <2>1 DEF Known
  <2> QED BY <1>7, <2>2, TakeType DEF DriverAccumUpdates, Handled
<1>8. CASE JobStart
  <2> DEFINE job == [job |-> Line.job, submission |-> Line.at,
                     completion |-> 0, result |-> "none"]
  <2>1. job \in Job BY <1>8, LineType DEF JobStart, Take, Event, Job
  <2> DEFINE jobs == Append(state.jobs, job)
  <2>2. jobs \in Seq(Job) BY <1>0, <2>1, AppendProperties DEF Known
  <2> HIDE DEF jobs
  <2>3. [state EXCEPT !.jobs = jobs] \in Known BY <1>0, <2>2 DEF Known
  <2> QED BY <1>8, <2>3, TakeType DEF JobStart, Handled, jobs
<1>9. CASE JobEnd
  <2> DEFINE ended == [i \in DOMAIN state.jobs |-> Ended(state.jobs[i], Line)]
  <2>1. Line.at \in Nat BY <1>9, LineType DEF JobEnd, Take, Event
  <2>2. state.jobs \in Seq(Job) BY <1>0 DEF Known
  <2>3. ASSUME NEW i \in DOMAIN state.jobs PROVE Ended(state.jobs[i], Line) \in Job
    <3>1. state.jobs[i] \in Job BY <2>2
    <3>2. \A result \in {"ok", "failed"} :
            [state.jobs[i] EXCEPT !.completion = Line.at, !.result = result] \in Job
      BY <2>1, <3>1 DEF Job
    <3>3. (IF Line.ok THEN "ok" ELSE "failed") \in {"ok", "failed"} OBVIOUS
    <3> QED BY <3>1, <3>2, <3>3 DEF Ended
  <2>4. ended \in Seq(Job)
    <3>1. Len(state.jobs) \in Nat /\ DOMAIN state.jobs = 1 .. Len(state.jobs) BY <2>2
    <3>2. ended \in [1 .. Len(state.jobs) -> Job] BY <2>3, <3>1
    <3> QED BY <3>1, <3>2, SeqDef
  <2> HIDE DEF ended
  <2>5. [state EXCEPT !.jobs = ended] \in Known BY <1>0, <2>4 DEF Known
  <2>6. [state EXCEPT !.jobs = [i \in DOMAIN @ |-> Ended(@[i], Line)]]
          = [state EXCEPT !.jobs = ended] BY DEF ended
  <2> QED BY <1>9, <2>5, <2>6, TakeType DEF JobEnd, Handled
<1>10. CASE StageSubmitted
  <2>1. Line.info \in Info BY <1>10, LineType DEF StageSubmitted, Take, Event
  <2>2. [state EXCEPT !.submitted[Line.key] = Line.info] \in Known
    BY <1>0, <2>1 DEF Known
  <2> QED BY <1>10, <2>2, TakeType DEF StageSubmitted, Handled
<1>11. CASE StageCompleted
  <2>1. Line.info \in Info BY <1>11, LineType DEF StageCompleted, Take, Event
  <2>2. [state EXCEPT !.completed[Line.key] = Line.info] \in Known
    BY <1>0, <2>1 DEF Known
  <2> QED BY <1>11, <2>2, TakeType DEF StageCompleted, Handled
<1>12. CASE TaskEnd
  <2>1. TaskOf(Line) \in Task BY <1>12, LineType DEF TaskEnd, TaskOf, Event, Task
  <2>2. Line.key \in Keys BY <1>12, LineType DEF TaskEnd, Event
  <2> DEFINE tasks == [state.tasks EXCEPT ![Line.key] = Append(@, TaskOf(Line))]
  <2>3. tasks \in [Keys -> Seq(Task)] BY <1>0, <2>1, <2>2, AppendProperties DEF Known
  <2> HIDE DEF tasks
  <2>4. [state EXCEPT !.tasks = tasks] \in Known BY <1>0, <2>3 DEF Known
  <2>5. [state EXCEPT !.tasks[Line.key] = Append(@, TaskOf(Line))]
          = [state EXCEPT !.tasks = tasks]
    BY <1>0 DEF tasks, Known
  <2> QED BY <1>12, <2>4, <2>5, TakeType DEF TaskEnd, TaskKey, Handled
<1>13. CASE TaskEndRaises BY <1>13 DEF TaskEndRaises, TypeOK, logVars
<1>14. CASE Skip BY <1>14, LineType DEF Skip, TypeOK, logVars
<1>15. CASE Refuse \/ Finish \/ Unreadable
  BY <1>15 DEF Refuse, Finish, Unreadable, TypeOK, logVars
<1> QED BY <1>1, <1>2, <1>3, <1>4, <1>5, <1>6, <1>7, <1>8, <1>9, <1>10, <1>11,
           <1>12, <1>13, <1>14, <1>15 DEF ReaderNext

(* Whatever Spark writes and wherever the reader catches it, what _Build   *)
(* holds has its type and the reader has not run past the log.             *)
THEOREM TypeCorrect == Spec => []TypeOK
<1>1. TypeOK /\ [Next]_vars => TypeOK'
  <2> SUFFICES ASSUME TypeOK, [Next]_vars PROVE TypeOK' OBVIOUS
  <2>1. CASE Write BY <2>1, WriteType
  <2>2. CASE ReaderNext BY <2>2, ReaderType
  <2>3. CASE UNCHANGED vars BY <2>3 DEF vars, logVars, readerVars, TypeOK
  <2> QED BY <2>1, <2>2, <2>3 DEF Next
<1> QED BY InitType, <1>1, PTL DEF Spec

-----------------------------------------------------------------------------
(* Conservation of tasks.  TasksConserved alone is not inductive: that a   *)
(* new task ends after all those already held needs the lines of the log   *)
(* to be in the order they were posted, which the writer keeps whatever is *)
(* dropped.                                                                *)

LogInOrder ==
  /\ \A p \in DOMAIN log : log[p].at <= Len(posted)
  /\ \A p, q \in DOMAIN log : p < q => log[p].at < log[q].at

Ledger == TypeOK /\ LogInOrder /\ TasksConserved

LEMMA EventAt == \A event \in Event : event.at \in Nat
BY DEF Event

LEMMA InitLedger == ASSUME Init PROVE LogInOrder /\ TasksConserved
<1>1. PICK cpus \in Cpus : posted = Preamble(cpus) BY DEF Init, LogInit
<1>2. Len(posted) = 3 /\ \A p \in 1 .. 3 : posted[p].at = p
  BY <1>1 DEF Preamble
<1>3. LogInOrder
  <2>1. CASE log = posted BY <2>1, <1>1, <1>2 DEF LogInOrder, Preamble
  <2>2. CASE log = SubSeq(posted, 1, 2)
    <3>1. DOMAIN log = 1 .. 2 /\ \A p \in 1 .. 2 : log[p] = posted[p]
      BY <2>2, <1>1 DEF Preamble
    <3> QED BY <3>1, <1>2 DEF LogInOrder
  <2> QED BY <2>1, <2>2 DEF Init, LogInit
<1>4. pos = 0 /\ \A k \in Keys : state.tasks[k] = <<>>
  BY DEF Init, ReaderInit, Empty
<1>5. TasksConserved
  BY <1>4 DEF TasksConserved, EveryEndKept, EveryTaskEnded, InOrderOfEnding
<1> QED BY <1>3, <1>5

(* Writing leaves the lines already read as they are.                      *)
LEMMA WriteLedger ==
  ASSUME Ledger, Write
  PROVE  LogInOrder' /\ TasksConserved'
<1>1. PICK event \in Event : event.at = Now /\ Post(event)
  BY LogStep DEF Write, Ledger, TypeOK
<1>2. /\ Len(log') \in Nat /\ Len(log) <= Len(log')
      /\ \A p \in DOMAIN log : log'[p] = log[p]
      /\ \A p \in DOMAIN log' : p \in DOMAIN log \/ (p = Len(log) + 1 /\ log'[p] = event)
      /\ Len(posted') = Len(posted) + 1
  <2>1. posted \in Seq(Event) /\ log \in Seq(Event) BY DEF Ledger, TypeOK
  <2>2. Len(posted') = Len(posted) + 1 BY <1>1, <2>1 DEF Post
  <2>3. CASE log' = log BY <2>1, <2>2, <2>3
  <2>4. CASE log' = Append(log, event) BY <2>1, <2>2, <2>4
  <2> QED BY <1>1, <2>3, <2>4 DEF Post
<1>3. LogInOrder'
  <2>1. \A p \in DOMAIN log' : log'[p].at <= Len(posted')
    BY <1>1, <1>2, EventAt DEF Now, Ledger, LogInOrder, TypeOK
  <2>2. \A p, q \in DOMAIN log' : p < q => log'[p].at < log'[q].at
    BY <1>1, <1>2, EventAt DEF Now, Ledger, LogInOrder, TypeOK
  <2> QED BY <2>1, <2>2 DEF LogInOrder
<1>4. pos' = pos /\ state' = state /\ pos \in 0 .. Len(log)
  BY DEF Write, readerVars, Ledger, TypeOK
<1>5. \A p \in 1 .. pos : log'[p] = log[p] BY <1>2, <1>4 DEF Ledger, TypeOK
<1> QED BY <1>3, <1>4, <1>5
        DEF Ledger, TasksConserved, EveryEndKept, EveryTaskEnded, InOrderOfEnding, Kept

(* A step that reads a line of no task, or ends the reading.               *)
LEMMA OtherLedger ==
  ASSUME Ledger, UNCHANGED logVars, state'.tasks = state.tasks,
         \/ pos' = pos
         \/ pos < Len(log) /\ pos' = pos + 1 /\ Line.ev # "TaskEnd"
  PROVE  LogInOrder' /\ TasksConserved'
<1>1. LogInOrder' BY DEF Ledger, LogInOrder, logVars
<1>2. log' = log /\ pos \in Nat /\ pos <= pos' BY DEF logVars, Ledger, TypeOK
<1>3. EveryEndKept'
  BY <1>2 DEF Ledger, TasksConserved, EveryEndKept, Kept, Line
<1>4. EveryTaskEnded'
  <2> SUFFICES ASSUME NEW k \in Keys, NEW i \in DOMAIN state.tasks[k]
               PROVE  \E p \in 1 .. pos' : Kept(state.tasks[k][i], k, p)
    BY <1>2 DEF EveryTaskEnded, Kept
  <2>1. PICK p \in 1 .. pos : Kept(state.tasks[k][i], k, p)
    BY DEF Ledger, TasksConserved, EveryTaskEnded
  <2> QED BY <2>1, <1>2 DEF Ledger, TypeOK
<1>5. InOrderOfEnding' BY DEF Ledger, TasksConserved, InOrderOfEnding
<1> QED BY <1>1, <1>3, <1>4, <1>5 DEF TasksConserved

(* The handler of a task's end adds its task at the end of its own list.   *)
LEMMA TaskEndLedger ==
  ASSUME Ledger, TaskEnd
  PROVE  LogInOrder' /\ TasksConserved'
<1> DEFINE key == Line.key
           old == state.tasks[key]
<1>1. LogInOrder' BY DEF Ledger, LogInOrder, TaskEnd, Take, logVars
<1>2. /\ log' = log /\ pos \in Nat /\ pos' = pos + 1 /\ pos' \in DOMAIN log
      /\ Line = log[pos'] /\ Line.ev = "TaskEnd" /\ Line.at \in Nat
      /\ \A p \in 1 .. pos' : p \in DOMAIN log /\ log[p].at \in Nat
  BY EventAt DEF TaskEnd, Take, logVars, Ledger, TypeOK, Line
<1>3. key \in Keys BY <1>2, LineType DEF TaskEnd, Ledger, Event
<1>4. \A k \in Keys : state.tasks[k] \in Seq(Task) BY DEF Ledger, TypeOK, Known
<1>5. /\ state'.tasks[key] = Append(old, TaskOf(Line))
      /\ \A k \in Keys \ {key} : state'.tasks[k] = state.tasks[k]
  BY <1>3 DEF TaskEnd, Take, TaskKey, Ledger, TypeOK, Known
<1>6. /\ Len(old) \in Nat /\ DOMAIN old = 1 .. Len(old)
      /\ DOMAIN state'.tasks[key] = 1 .. Len(old) + 1
      /\ state'.tasks[key][Len(old) + 1] = TaskOf(Line)
      /\ \A i \in DOMAIN old : state'.tasks[key][i] = old[i]
  <2>1. old \in Seq(Task) BY <1>3, <1>4
  <2> DEFINE new == TaskOf(Line)
  <2>2. state'.tasks[key] = Append(old, new) BY <1>5
  <2> HIDE DEF old, new, key
  <2>3. /\ Len(old) \in Nat /\ DOMAIN old = 1 .. Len(old)
        /\ DOMAIN Append(old, new) = 1 .. Len(old) + 1
        /\ Append(old, new)[Len(old) + 1] = new
        /\ \A i \in DOMAIN old : Append(old, new)[i] = old[i]
    BY <2>1
  <2> QED BY <2>2, <2>3 DEF new
<1> HIDE DEF key, old
<1>7. EveryEndKept'
  <2> SUFFICES ASSUME NEW p \in 1 .. pos', log[p].ev = "TaskEnd"
               PROVE  \E i \in DOMAIN state'.tasks[log[p].key] :
                        Kept(state'.tasks[log[p].key][i], log[p].key, p)
    BY <1>2 DEF EveryEndKept, Kept
  <2>1. CASE p = pos'
    <3>1. log[p].key = key /\ Kept(TaskOf(Line), key, p)
      BY <2>1, <1>2 DEF key, Kept
    <3> QED BY <3>1, <1>6
  <2>2. CASE p # pos'
    <3>1. PICK i \in DOMAIN state.tasks[log[p].key] :
            Kept(state.tasks[log[p].key][i], log[p].key, p)
      BY <2>2, <1>2 DEF Ledger, TasksConserved, EveryEndKept
    <3>2. log[p].key \in Keys
      <4>1. log[p] \in Event BY <1>2 DEF Ledger, TypeOK
      <4> QED BY <4>1 DEF Event
    <3>3. CASE log[p].key = key BY <3>1, <3>3, <1>6 DEF old
    <3>4. CASE log[p].key # key BY <3>1, <3>2, <3>4, <1>5
    <3> QED BY <3>3, <3>4
  <2> QED BY <2>1, <2>2
<1>8. EveryTaskEnded'
  <2> SUFFICES ASSUME NEW k \in Keys, NEW i \in DOMAIN state'.tasks[k]
               PROVE  \E p \in 1 .. pos' : Kept(state'.tasks[k][i], k, p)
    BY <1>2 DEF EveryTaskEnded, Kept
  <2>1. CASE k = key /\ i = Len(old) + 1
    BY <2>1, <1>2, <1>6 DEF Kept, key
  <2>2. CASE k # key \/ i # Len(old) + 1
    <3>1. i \in DOMAIN state.tasks[k] /\ state'.tasks[k][i] = state.tasks[k][i]
      BY <2>2, <1>5, <1>6 DEF old
    <3>2. PICK p \in 1 .. pos : Kept(state.tasks[k][i], k, p)
      BY <3>1 DEF Ledger, TasksConserved, EveryTaskEnded
    <3> QED BY <3>1, <3>2, <1>2
  <2> QED BY <2>1, <2>2
<1>9. InOrderOfEnding'
  <2>1. \A i \in DOMAIN old : old[i].at < Line.at
    <3> SUFFICES ASSUME NEW i \in DOMAIN old PROVE old[i].at < Line.at OBVIOUS
    <3>1. PICK p \in 1 .. pos : Kept(old[i], key, p)
      BY <1>3 DEF Ledger, TasksConserved, EveryTaskEnded, old
    <3>2. old[i].at = log[p].at BY <3>1 DEF Kept, TaskOf
    <3>3. log[p].at < log[pos'].at BY <1>2 DEF Ledger, LogInOrder
    <3> QED BY <3>2, <3>3, <1>2
  <2>2. TaskOf(Line).at = Line.at BY DEF TaskOf
  <2> SUFFICES ASSUME NEW k \in Keys, NEW i \in DOMAIN state'.tasks[k],
                      NEW j \in DOMAIN state'.tasks[k], i < j
               PROVE  state'.tasks[k][i].at < state'.tasks[k][j].at
    BY DEF InOrderOfEnding
  <2>3. CASE k # key
    BY <2>3, <1>5 DEF Ledger, TasksConserved, InOrderOfEnding
  <2>4. CASE k = key /\ j = Len(old) + 1
    BY <2>1, <2>2, <2>4, <1>6
  <2>5. CASE k = key /\ j # Len(old) + 1
    <3>1. i \in DOMAIN old /\ j \in DOMAIN old BY <2>5, <1>6
    <3> QED BY <3>1, <2>5, <1>6, <1>3 DEF Ledger, TasksConserved, InOrderOfEnding, old
  <2> QED BY <2>3, <2>4, <2>5
<1> QED BY <1>1, <1>7, <1>8, <1>9 DEF TasksConserved

LEMMA ReaderLedger ==
  ASSUME Ledger, ReaderNext
  PROVE  LogInOrder' /\ TasksConserved'
<1>0. state \in Known BY DEF Ledger, TypeOK
<1>2. CASE TaskEnd BY <1>2, TaskEndLedger
<1>3. CASE TaskEndRaises \/ Refuse \/ Finish \/ Unreadable
  BY <1>3, OtherLedger DEF TaskEndRaises, Refuse, Finish, Unreadable
<1>4. CASE Skip BY <1>4, OtherLedger DEF Skip, Handled
<1>5. CASE ~(TaskEnd \/ TaskEndRaises \/ Refuse \/ Finish \/ Unreadable \/ Skip)
  <2>1. /\ UNCHANGED logVars /\ pos < Len(log) /\ pos' = pos + 1
        /\ Line.ev # "TaskEnd" /\ state'.tasks = state.tasks
    BY <1>0, <1>5
       DEF ReaderNext, ApplicationStart, ApplicationEnd, EnvironmentUpdate,
           ExecutorAdded, ResourceProfileAdded, SQLExecutionStart,
           DriverAccumUpdates, JobStart, JobEnd, StageSubmitted, StageCompleted,
           Take, Known
  <2> QED BY <2>1, OtherLedger
<1> QED BY <1>2, <1>3, <1>4, <1>5

(* However attempts, siblings and late task ends interleave in the log,    *)
(* and whatever the bus drops, the tasks the profiler holds are exactly    *)
(* the task ends it has read, each under its own stage and attempt, once,  *)
(* in the order they ended.                                                *)
THEOREM TasksAreConserved == Spec => []TasksConserved
<1>1. Init => Ledger BY InitType, InitLedger DEF Ledger
<1>2. Ledger /\ [Next]_vars => Ledger'
  <2> SUFFICES ASSUME Ledger, [Next]_vars PROVE LogInOrder' /\ TasksConserved'
    <3>1. TypeOK /\ [Next]_vars => TypeOK'
      BY WriteType, ReaderType
         DEF Next, vars, logVars, readerVars, TypeOK
    <3> QED BY <3>1 DEF Ledger
  <2>1. CASE Write BY <2>1, WriteLedger
  <2>2. CASE ReaderNext BY <2>2, ReaderLedger
  <2>3. CASE UNCHANGED vars BY <2>3, OtherLedger DEF vars, readerVars
  <2> QED BY <2>1, <2>2, <2>3 DEF Next
<1>3. Ledger => TasksConserved BY DEF Ledger
<1> QED BY <1>1, <1>2, <1>3, PTL DEF Spec

-----------------------------------------------------------------------------
(* Refusals.  What a refusal says of the lines is read off the state, so   *)
(* every line that names the application or a stage must have left a mark  *)
(* there that no later line takes away.                                    *)

Marks(event, known) ==
  /\ event.ev = "ApplicationStart" => known.start # 0
  /\ event.ev = "StageSubmitted" => known.submitted[event.key] # None
  /\ event.ev = "StageCompleted" => known.completed[event.key] # None

Heard ==
  /\ \A p \in DOMAIN log : log[p].at # 0
  /\ \A p \in 1 .. pos : Marks(log[p], state)
  /\ RefusalIsHonest

LEMMA InitHeard == ASSUME Init PROVE Heard
<1>1. PICK cpus \in Cpus : posted = Preamble(cpus) BY DEF Init, LogInit
<1>2. \A p \in 1 .. 3 : posted[p].at # 0
  BY <1>1 DEF Preamble
<1>3. \A p \in DOMAIN log : log[p].at # 0
  <2>1. CASE log = posted BY <2>1, <1>1, <1>2 DEF Preamble
  <2>2. CASE log = SubSeq(posted, 1, 2)
    <3>1. DOMAIN log = 1 .. 2 /\ \A p \in 1 .. 2 : log[p] = posted[p]
      BY <2>2, <1>1 DEF Preamble
    <3> QED BY <3>1, <1>2
  <2> QED BY <2>1, <2>2 DEF Init, LogInit
<1> QED BY <1>3 DEF Init, ReaderInit, Heard, RefusalIsHonest

LEMMA WriteHeard == ASSUME Ledger, Heard, Write PROVE Heard'
<1>1. PICK event \in Event : event.at = Now /\ Post(event)
  BY LogStep DEF Write, Ledger, TypeOK
<1>2. posted \in Seq(Event) /\ log \in Seq(Event) BY DEF Ledger, TypeOK
<1>3. event.at # 0 BY <1>1, <1>2 DEF Now
<1>4. /\ \A p \in DOMAIN log : p \in DOMAIN log' /\ log'[p] = log[p]
      /\ \A p \in DOMAIN log' : p \in DOMAIN log \/ log'[p] = event
  <2>1. CASE log' = log BY <2>1
  <2>2. CASE log' = Append(log, event) BY <1>2, <2>2
  <2> QED BY <1>1, <2>1, <2>2 DEF Post
<1>5. /\ pos' = pos /\ state' = state /\ phase' = "reading"
      /\ \A p \in 1 .. pos : p \in DOMAIN log
  BY <1>2 DEF Write, readerVars, Ledger, TypeOK
<1>6. \A p \in DOMAIN log' : log'[p].at # 0 BY <1>3, <1>4 DEF Heard
<1>7. \A p \in 1 .. pos : Marks(log'[p], state') BY <1>4, <1>5 DEF Heard, Marks
<1> QED BY <1>5, <1>6, <1>7 DEF Heard, RefusalIsHonest

(* A line is read, its mark made, and the marks there were kept.           *)
LEMMA LineHeard ==
  ASSUME Ledger, Heard, UNCHANGED logVars, pos' = pos + 1,
         phase = "reading", phase' = "reading",
         Marks(log[pos'], state'),
         state.start # 0 => state'.start # 0,
         \A k \in Keys : /\ state.submitted[k] # None => state'.submitted[k] # None
                         /\ state.completed[k] # None => state'.completed[k] # None
  PROVE  Heard'
<1>1. /\ log' = log /\ pos \in Nat /\ log \in Seq(Event)
      /\ \A p \in 1 .. pos : p \in DOMAIN log
  BY DEF logVars, Ledger, TypeOK
<1>2. ASSUME NEW p \in 1 .. pos' PROVE Marks(log'[p], state')
  <2>1. CASE p = pos' BY <1>1, <2>1
  <2>2. CASE p # pos'
    <3>1. Marks(log[p], state) /\ p \in DOMAIN log BY <1>1, <2>2 DEF Heard
    <3>2. log[p].ev \in {"StageSubmitted", "StageCompleted"} => log[p].key \in Keys
      BY <1>1, <3>1 DEF Event
    <3> QED BY <1>1, <3>1, <3>2 DEF Marks
  <2> QED BY <2>1, <2>2
<1> QED BY <1>1, <1>2 DEF Heard, RefusalIsHonest

(* No stage seen: no line read spoke of one.                               *)
LEMMA RefuseHeard == ASSUME Ledger, Heard, Refuse PROVE Heard'
<1>1. /\ log' = log /\ pos' = pos /\ state' = state /\ log \in Seq(Event)
      /\ \A p \in 1 .. pos : p \in DOMAIN log
  BY DEF Refuse, logVars, Ledger, TypeOK
<1>2. CASE state.start = 0
  <2>1. \A p \in 1 .. pos : log[p].ev # "ApplicationStart"
    BY <1>2 DEF Heard, Marks
  <2> QED BY <1>1, <2>1 DEF Heard, Marks, RefusalIsHonest
<1>3. CASE SeenKeys = {}
  <2>1. ASSUME NEW p \in 1 .. pos,
               log[p].ev \in {"StageSubmitted", "StageCompleted", "TaskEnd"}
        PROVE  FALSE
    <3>1. log[p].key \in Keys BY <1>1, <2>1 DEF Event
    <3>2. CASE log[p].ev = "StageSubmitted"
      BY <1>3, <3>1, <3>2 DEF Heard, Marks, SeenKeys
    <3>3. CASE log[p].ev = "StageCompleted"
      BY <1>3, <3>1, <3>3 DEF Heard, Marks, SeenKeys
    <3>4. CASE log[p].ev = "TaskEnd"
      <4>1. DOMAIN state.tasks[log[p].key] # {}
        BY <3>4 DEF Ledger, TasksConserved, EveryEndKept
      <4>2. state.tasks[log[p].key] = <<>> BY <1>3, <3>1 DEF SeenKeys
      <4> QED BY <4>1, <4>2
    <3> QED BY <2>1, <3>2, <3>3, <3>4
  <2> QED BY <1>1, <2>1 DEF Heard, Marks, RefusalIsHonest
<1> QED BY <1>2, <1>3 DEF Refuse

LEMMA ReaderHeard == ASSUME Ledger, Heard, ReaderNext PROVE Heard'
<1>0. state \in Known /\ log \in Seq(Event) BY DEF Ledger, TypeOK
<1>1. CASE Refuse BY <1>1, RefuseHeard
<1>2. CASE TaskEndRaises \/ Finish \/ Unreadable
  <2>1. /\ log' = log /\ pos' = pos /\ state' = state
        /\ phase' \in {"raised", "built", "unreadable"}
    BY <1>2 DEF TaskEndRaises, Finish, Unreadable, logVars
  <2> QED BY <2>1 DEF Heard, Marks, RefusalIsHonest
<1>3. CASE Skip
  <2>1. /\ UNCHANGED logVars /\ pos' = pos + 1 /\ state' = state
        /\ phase = "reading" /\ phase' = "reading" /\ log' = log
        /\ log[pos'].ev \notin Handled
    BY <1>3 DEF Skip, Line, logVars
  <2>2. Marks(log[pos'], state') BY <2>1 DEF Marks, Handled
  <2> QED BY <2>1, <2>2, LineHeard
<1>4. CASE ~(Refuse \/ TaskEndRaises \/ Finish \/ Unreadable \/ Skip)
  <2>1. /\ UNCHANGED logVars /\ log' = log /\ pos < Len(log) /\ pos' = pos + 1
        /\ phase = "reading" /\ phase' = "reading" /\ Line = log[pos']
    BY <1>4
       DEF ReaderNext, ApplicationStart, ApplicationEnd, EnvironmentUpdate,
           ExecutorAdded, ResourceProfileAdded, SQLExecutionStart,
           DriverAccumUpdates, JobStart, JobEnd, StageSubmitted, StageCompleted,
           TaskEnd, Take, Line, logVars
  <2>2. Line \in Event /\ Line.at # 0
    BY <2>1, LineType DEF Ledger, Heard, Line
  <2>3. CASE ApplicationStart
    <3>1. Line.ev = "ApplicationStart" /\ state'.start = Line.at
          /\ state'.submitted = state.submitted /\ state'.completed = state.completed
      BY <1>0, <2>3 DEF ApplicationStart, Take, Known
    <3>2. Marks(log[pos'], state') BY <2>1, <2>2, <3>1 DEF Marks
    <3> QED BY <2>1, <2>2, <3>1, <3>2, LineHeard
  <2>4. CASE StageSubmitted
    <3>1. /\ Line.ev = "StageSubmitted" /\ Line.key \in Keys /\ Line.info # None
          /\ state'.start = state.start /\ state'.completed = state.completed
          /\ state'.submitted = [state.submitted EXCEPT ![Line.key] = Line.info]
      BY <1>0, <2>2, <2>4, NoneAssumption DEF StageSubmitted, Take, Known, Event
    <3>2. \A k \in Keys : state'.submitted[k]
                            = IF k = Line.key THEN Line.info ELSE state.submitted[k]
      BY <1>0, <3>1 DEF Known
    <3>3. Marks(log[pos'], state') BY <2>1, <3>1, <3>2 DEF Marks
    <3> QED BY <2>1, <3>1, <3>2, <3>3, LineHeard
  <2>5. CASE StageCompleted
    <3>1. /\ Line.ev = "StageCompleted" /\ Line.key \in Keys /\ Line.info # None
          /\ state'.start = state.start /\ state'.submitted = state.submitted
          /\ state'.completed = [state.completed EXCEPT ![Line.key] = Line.info]
      BY <1>0, <2>2, <2>5, NoneAssumption DEF StageCompleted, Take, Known, Event
    <3>2. \A k \in Keys : state'.completed[k]
                            = IF k = Line.key THEN Line.info ELSE state.completed[k]
      BY <1>0, <3>1 DEF Known
    <3>3. Marks(log[pos'], state') BY <2>1, <3>1, <3>2 DEF Marks
    <3> QED BY <2>1, <3>1, <3>2, <3>3, LineHeard
  <2>6. CASE ~(ApplicationStart \/ StageSubmitted \/ StageCompleted)
    <3>1. /\ Line.ev \notin {"ApplicationStart", "StageSubmitted", "StageCompleted"}
          /\ state'.start = state.start /\ state'.submitted = state.submitted
          /\ state'.completed = state.completed
      BY <1>0, <1>4, <2>6
         DEF ReaderNext, ApplicationEnd, EnvironmentUpdate, ExecutorAdded,
             ResourceProfileAdded, SQLExecutionStart, DriverAccumUpdates, JobStart,
             JobEnd, TaskEnd, Take, Known
    <3>2. Marks(log[pos'], state') BY <2>1, <3>1 DEF Marks
    <3> QED BY <2>1, <3>1, <3>2, LineHeard
  <2> QED BY <2>3, <2>4, <2>5, <2>6
<1> QED BY <1>1, <1>2, <1>3, <1>4

(* build refuses a log (UnexpectedLog) only when no line it read names the *)
(* application, or none speaks of a stage, whatever the bus dropped and    *)
(* wherever the log was cut.                                               *)
THEOREM RefusalsAreHonest == Spec => []RefusalIsHonest
<1>1. Init => Ledger /\ Heard BY InitType, InitLedger, InitHeard DEF Ledger
<1>2. Ledger /\ Heard /\ [Next]_vars => Ledger' /\ Heard'
  <2> SUFFICES ASSUME Ledger, Heard, [Next]_vars PROVE Ledger' /\ Heard' OBVIOUS
  <2>1. CASE Write
    BY <2>1, WriteType, WriteLedger, WriteHeard DEF Ledger
  <2>2. CASE ReaderNext
    BY <2>2, ReaderType, ReaderLedger, ReaderHeard DEF Ledger
  <2>3. CASE UNCHANGED vars
    <3>1. TypeOK' BY <2>3 DEF vars, logVars, readerVars, Ledger, TypeOK
    <3>2. LogInOrder' /\ TasksConserved' BY <2>3, OtherLedger DEF vars, readerVars
    <3>3. Heard'
      BY <2>3 DEF vars, logVars, readerVars, Heard, Marks, RefusalIsHonest
    <3> QED BY <3>1, <3>2, <3>3 DEF Ledger
  <2> QED BY <2>1, <2>2, <2>3 DEF Next
<1>3. Heard => RefusalIsHonest BY DEF Heard
<1> QED BY <1>1, <1>2, <1>3, PTL DEF Spec

-----------------------------------------------------------------------------
(* Sorting by rank.  A task's rank is how many precede it; Precedes is a   *)
(* strict total order of positions, so ranks are all different and, there  *)
(* being as many ranks as tasks, each is taken.                            *)

Below(s, p) == {q \in DOMAIN s : Precedes(s, q, p)}
Rank(s, p) == Cardinality(Below(s, p))

LEMMA PrecedesIsAnOrder ==
  ASSUME NEW s \in Seq(Task)
  PROVE  /\ \A p \in DOMAIN s : ~Precedes(s, p, p)
         /\ \A p, q \in DOMAIN s : p # q => Precedes(s, p, q) \/ Precedes(s, q, p)
         /\ \A p, q, r \in DOMAIN s :
              Precedes(s, p, q) /\ Precedes(s, q, r) => Precedes(s, p, r)
<1>1. \A p \in DOMAIN s : p \in Nat
  OBVIOUS
<1>2. \A p \in DOMAIN s : s[p].index \in Nat
  <2>1. \A p \in DOMAIN s : s[p] \in Task OBVIOUS
  <2> QED BY <2>1 DEF Task
<1> QED BY <1>1, <1>2 DEF Precedes

LEMMA TasksAreRanked ==
  ASSUME NEW s \in Seq(Task)
  PROVE  /\ \A p \in DOMAIN s : Rank(s, p) \in 0 .. Len(s) - 1
         /\ \A p, q \in DOMAIN s : Precedes(s, p, q) => Rank(s, p) < Rank(s, q)
         /\ \A p, q \in DOMAIN s : Rank(s, p) = Rank(s, q) => p = q
         /\ \A i \in DOMAIN s : \E p \in DOMAIN s : Rank(s, p) = i - 1
<1> DEFINE D == DOMAIN s
           R == {pq \in D \X D : Precedes(s, pq[1], pq[2])}
<1>1. Len(s) \in Nat /\ D = 1 .. Len(s) /\ IsFiniteSet(D) /\ Cardinality(D) = Len(s)
  <2>1. Len(s) \in Nat /\ D = 1 .. Len(s) OBVIOUS
  <2>2. IsFiniteSet(1 .. Len(s)) /\ Cardinality(1 .. Len(s)) = Len(s)
    BY <2>1, FirstNumbers
  <2> QED BY <2>1, <2>2, Zenon
<1>2. ASSUME NEW p \in D, NEW q \in D PROVE <<p, q>> \in R <=> Precedes(s, p, q)
  <2> HIDE DEF D
  <2> QED OBVIOUS
<1>3. OrderOf(D, R)
  <2> HIDE DEF R
  <2> QED BY <1>2, PrecedesIsAnOrder DEF OrderOf
<1>4. \A p \in D : Rank(s, p) = RankIn(D, R, p)
  <2>1. \A p \in D : Below(s, p) = BeforeIn(D, R, p) BY <1>2 DEF Below, BeforeIn
  <2> QED BY <2>1 DEF Rank, RankIn
<1> HIDE DEF D, R
<1>5. /\ Cardinality(D) \in Nat
      /\ \A x \in D : RankIn(D, R, x) \in 0 .. Cardinality(D) - 1
      /\ \A x, y \in D : RankIn(D, R, x) = RankIn(D, R, y) => x = y
      /\ \A r \in 0 .. Cardinality(D) - 1 : \E x \in D : RankIn(D, R, x) = r
  BY <1>1, <1>3, RanksAreTaken
<1>6. \A p, q \in D : <<p, q>> \in R => RankIn(D, R, p) < RankIn(D, R, q)
  BY <1>1, <1>3, RankFollowsOrder
<1>7. \A i \in D : i - 1 \in 0 .. Len(s) - 1 BY <1>1
<1>8. \A i \in D : \E p \in D : Rank(s, p) = i - 1
  <2>1. TAKE i \in D
  <2>2. PICK p \in D : RankIn(D, R, p) = i - 1 BY <1>1, <1>5, <1>7
  <2> QED BY <1>4, <2>2
<1>9. /\ \A p \in D : Rank(s, p) \in 0 .. Len(s) - 1
      /\ \A p, q \in D : Rank(s, p) = Rank(s, q) => p = q
  BY <1>1, <1>4, <1>5
<1>10. \A p, q \in D : Precedes(s, p, q) => Rank(s, p) < Rank(s, q)
  BY <1>2, <1>4, <1>6
<1> QED BY <1>8, <1>9, <1>10 DEF D

(* What sorted(tasks, key = index) returns: the tasks it was given, each   *)
(* once, by index and, within an index, in the order they came.            *)
LEMMA SortedIsStable ==
  ASSUME NEW s \in Seq(Task),
         \A i, j \in DOMAIN s : i < j => s[i].at < s[j].at
  PROVE  LET t == SortedByIndex(s) IN
         /\ DOMAIN t = DOMAIN s /\ Len(t) = Len(s)
         /\ {t[i] : i \in DOMAIN t} = {s[i] : i \in DOMAIN s}
         /\ \A i, j \in DOMAIN t : i < j =>
              \/ t[i].index < t[j].index
              \/ t[i].index = t[j].index /\ t[i].at < t[j].at
<1> DEFINE D == DOMAIN s
           t == SortedByIndex(s)
           at(i) == CHOOSE p \in D : Rank(s, p) = i - 1
<1>0. Len(s) \in Nat /\ D = 1 .. Len(s) OBVIOUS
<1>1. \A i \in D : at(i) \in D /\ Rank(s, at(i)) = i - 1
  BY TasksAreRanked
<1>2. t = [i \in D |-> s[at(i)]]
  BY DEF SortedByIndex, Rank, Below
<1> HIDE DEF at
<1>3. DOMAIN t = D /\ \A i \in D : t[i] = s[at(i)]
  BY <1>2
<1>4. Len(t) = Len(s)
  BY <1>0, <1>2
<1> HIDE DEF t
<1>5. {t[i] : i \in D} = {s[i] : i \in D}
  <2>1. ASSUME NEW p \in D PROVE s[p] \in {t[i] : i \in D}
    <3>1. Rank(s, p) \in 0 .. Len(s) - 1 BY TasksAreRanked
    <3>2. Rank(s, p) + 1 \in D /\ (Rank(s, p) + 1) - 1 = Rank(s, p) BY <1>0, <3>1
    <3>3. at(Rank(s, p) + 1) = p BY <1>1, <3>2, TasksAreRanked
    <3> QED BY <1>3, <3>2, <3>3
  <2>2. ASSUME NEW i \in D PROVE t[i] \in {s[p] : p \in D}
    BY <1>1, <1>3
  <2> QED BY <2>1, <2>2
<1>6. ASSUME NEW i \in D, NEW j \in D, i < j
      PROVE  \/ t[i].index < t[j].index
             \/ t[i].index = t[j].index /\ t[i].at < t[j].at
  <2>1. at(i) \in D /\ at(j) \in D /\ Rank(s, at(i)) < Rank(s, at(j))
    BY <1>0, <1>1, <1>6
  <2>2. ~Precedes(s, at(j), at(i)) /\ at(i) # at(j)
    <3>1. Rank(s, at(i)) \in Nat /\ Rank(s, at(j)) \in Nat BY <1>0, <1>1
    <3>2. ~(Rank(s, at(j)) < Rank(s, at(i))) BY <2>1, <3>1
    <3>3. at(i) # at(j) BY <2>1, <3>1
    <3> QED BY <2>1, <3>2, <3>3, TasksAreRanked
  <2>3. Precedes(s, at(i), at(j))
    BY <2>1, <2>2, PrecedesIsAnOrder
  <2>4. s[at(i)].index < s[at(j)].index
          \/ (s[at(i)].index = s[at(j)].index /\ s[at(i)].at < s[at(j)].at)
    BY <2>1, <2>3 DEF Precedes
  <2> QED BY <1>3, <2>4
<1> QED BY <1>3, <1>4, <1>5, <1>6 DEF t

-----------------------------------------------------------------------------
(* The tasks held for a stage and the lines they come from are one to one: *)
(* every task has its line, every line its task, and neither two, since no *)
(* two lines and no two tasks carry one instant.                           *)

LEMMA ATaskALine ==
  ASSUME Ledger, NEW k \in Keys
  PROVE  LET tasks == state.tasks[k] IN
         /\ {tasks[i] : i \in DOMAIN tasks} = {TaskOf(log[p]) : p \in ReadFor(k)}
         /\ Len(tasks) = Cardinality(ReadFor(k))
<1> DEFINE tasks == state.tasks[k]
           D == DOMAIN tasks
           L == ReadFor(k)
           f == [p \in L |-> CHOOSE i \in D : Kept(tasks[i], k, p)]
<1>0. /\ tasks \in Seq(Task) /\ pos \in Nat
      /\ \A p \in 1 .. pos : p \in DOMAIN log /\ p \in Nat /\ log[p] \in Event
  BY DEF Ledger, TypeOK, Known
<1>1. \A p \in L : p \in 1 .. pos /\ log[p].ev = "TaskEnd" /\ log[p].key = k
  BY DEF ReadFor
<1>2. \A p \in L : \E i \in D : Kept(tasks[i], k, p)
  BY <1>1 DEF Ledger, TasksConserved, EveryEndKept
<1>3. \A i \in D : \E p \in L : Kept(tasks[i], k, p)
  BY DEF Ledger, TasksConserved, EveryTaskEnded, ReadFor, Kept
<1>4. ASSUME NEW p \in L, NEW q \in L, TaskOf(log[p]) = TaskOf(log[q])
      PROVE  p = q
  <2>1. log[p].at = log[q].at BY <1>4 DEF TaskOf
  <2>2. p \in DOMAIN log /\ q \in DOMAIN log /\ p \in Nat /\ q \in Nat
    BY <1>0, <1>1
  <2>3. log[p].at \in Nat BY <1>0, <1>1, EventAt
  <2> QED BY <2>1, <2>2, <2>3 DEF Ledger, LogInOrder
<1>5. ASSUME NEW i \in D, NEW j \in D, tasks[i] = tasks[j]
      PROVE  i = j
  <2>1. i \in Nat /\ j \in Nat BY <1>0
  <2>2. tasks[i] \in Task BY <1>0
  <2>3. tasks[i].at \in Nat BY <2>2 DEF Task
  <2> QED BY <1>5, <2>1, <2>3 DEF Ledger, TasksConserved, InOrderOfEnding
<1>6. \A p \in L : f[p] \in D /\ Kept(tasks[f[p]], k, p)
  BY <1>2
<1> HIDE DEF f, L, D, tasks
<1>7. f \in [L -> D]
  BY <1>6 DEF f
<1>8. f \in Injection(L, D)
  BY <1>4, <1>6, <1>7 DEF Kept, Injection, IsInjective
<1>9. f \in Surjection(L, D)
  BY <1>3, <1>5, <1>6, <1>7 DEF Kept, Surjection
<1>10. IsFiniteSet(L)
  <2>1. IsFiniteSet(1 .. pos) BY <1>0, FS_Interval
  <2>2. L \in SUBSET (1 .. pos) BY <1>1
  <2> QED BY <2>1, <2>2, FS_Subset
<1>11. Cardinality(D) = Cardinality(L)
  BY <1>8, <1>9, <1>10, FS_Bijection DEF Bijection, ExistsBijection
<1>12. Cardinality(D) = Len(tasks)
  <2>1. Len(tasks) \in Nat /\ D = 1 .. Len(tasks) BY <1>0 DEF D
  <2>2. Cardinality(1 .. Len(tasks)) = Len(tasks) BY <2>1, FirstNumbers
  <2> QED BY <2>1, <2>2, Zenon
<1>13. {tasks[i] : i \in D} = {TaskOf(log[p]) : p \in L}
  BY <1>2, <1>3 DEF Kept
<1> QED BY <1>11, <1>12, <1>13 DEF D, L, tasks

-----------------------------------------------------------------------------
(* A stage is seen for a line that spoke of it: the other half of Heard.   *)

SpokeOf(name, k) == \E p \in 1 .. pos : log[p].ev = name /\ log[p].key = k

Spoken ==
  \A k \in Keys :
    /\ state.submitted[k] # None => SpokeOf("StageSubmitted", k)
    /\ state.completed[k] # None => SpokeOf("StageCompleted", k)

LEMMA SeenIsSpokenOf ==
  ASSUME Ledger, Heard, Spoken
  PROVE  SeenKeys = {k \in Keys : \E p \in 1 .. pos :
                       /\ log[p].ev \in {"StageSubmitted", "StageCompleted", "TaskEnd"}
                       /\ log[p].key = k}
<1>1. ASSUME NEW k \in SeenKeys
      PROVE  \E p \in 1 .. pos :
               /\ log[p].ev \in {"StageSubmitted", "StageCompleted", "TaskEnd"}
               /\ log[p].key = k
  <2>1. k \in Keys BY DEF SeenKeys
  <2>2. CASE state.submitted[k] # None \/ state.completed[k] # None
    BY <2>1, <2>2 DEF Spoken, SpokeOf
  <2>3. CASE state.tasks[k] # <<>>
    <3>1. state.tasks[k] \in Seq(Task) BY <2>1 DEF Ledger, TypeOK, Known
    <3>2. 1 \in DOMAIN state.tasks[k] BY <2>3, <3>1
    <3> QED BY <2>1, <3>2 DEF Ledger, TasksConserved, EveryTaskEnded, Kept
  <2> QED BY <2>2, <2>3 DEF SeenKeys
<1>2. ASSUME NEW k \in Keys, NEW p \in 1 .. pos, log[p].key = k,
             log[p].ev \in {"StageSubmitted", "StageCompleted", "TaskEnd"}
      PROVE  k \in SeenKeys
  <2>1. CASE log[p].ev # "TaskEnd"
    BY <1>2, <2>1 DEF Heard, Marks, SeenKeys
  <2>2. CASE log[p].ev = "TaskEnd"
    <3>1. DOMAIN state.tasks[k] # {}
      BY <1>2, <2>2 DEF Ledger, TasksConserved, EveryEndKept
    <3> QED BY <3>1 DEF SeenKeys
  <2> QED BY <2>1, <2>2
<1> QED BY <1>1, <1>2 DEF SeenKeys

LEMMA WriteSpoken == ASSUME Ledger, Spoken, Write PROVE Spoken'
<1>1. PICK event \in Event : event.at = Now /\ Post(event)
  BY LogStep DEF Write, Ledger, TypeOK
<1>2. /\ pos' = pos /\ state' = state
      /\ \A p \in 1 .. pos : log'[p] = log[p]
  BY <1>1 DEF Post, Write, readerVars, Ledger, TypeOK
<1> QED BY <1>2 DEF Spoken, SpokeOf

(* A line is read, and only what it speaks of is newly seen.               *)
LEMMA LineSpoken ==
  ASSUME Ledger, Spoken, log' = log, pos' = pos + 1,
         \A k \in Keys :
           /\ state'.submitted[k] # None =>
                \/ state.submitted[k] # None
                \/ log[pos'].ev = "StageSubmitted" /\ log[pos'].key = k
           /\ state'.completed[k] # None =>
                \/ state.completed[k] # None
                \/ log[pos'].ev = "StageCompleted" /\ log[pos'].key = k
  PROVE  Spoken'
<1>1. pos \in Nat /\ pos' \in 1 .. pos' /\ 1 .. pos \subseteq 1 .. pos'
  BY DEF Ledger, TypeOK
<1>2. ASSUME NEW k \in Keys, state'.submitted[k] # None
      PROVE  SpokeOf("StageSubmitted", k)'
  BY <1>1, <1>2 DEF Spoken, SpokeOf
<1>3. ASSUME NEW k \in Keys, state'.completed[k] # None
      PROVE  SpokeOf("StageCompleted", k)'
  BY <1>1, <1>3 DEF Spoken, SpokeOf
<1> QED BY <1>2, <1>3 DEF Spoken

LEMMA ReaderSpoken == ASSUME Ledger, Spoken, ReaderNext PROVE Spoken'
<1>0. state \in Known BY DEF Ledger, TypeOK
<1>1. CASE TaskEndRaises \/ Refuse \/ Finish \/ Unreadable
  BY <1>1 DEF TaskEndRaises, Refuse, Finish, Unreadable, logVars, Spoken, SpokeOf
<1>2. CASE Skip
  BY <1>2, LineSpoken DEF Skip, logVars
<1>3. CASE ~(TaskEndRaises \/ Refuse \/ Finish \/ Unreadable \/ Skip)
  <2>1. log' = log /\ pos' = pos + 1 /\ Line = log[pos'] /\ pos < Len(log)
    BY <1>3
       DEF ReaderNext, ApplicationStart, ApplicationEnd, EnvironmentUpdate,
           ExecutorAdded, ResourceProfileAdded, SQLExecutionStart,
           DriverAccumUpdates, JobStart, JobEnd, StageSubmitted, StageCompleted,
           TaskEnd, Take, Line, logVars
  <2>2. CASE StageSubmitted
    <3>1. /\ log[pos'].ev = "StageSubmitted"
          /\ state'.completed = state.completed
          /\ state'.submitted = [state.submitted EXCEPT ![Line.key] = Line.info]
      BY <1>0, <2>1, <2>2 DEF StageSubmitted, Take, Known
    <3>2. \A k \in Keys : k # Line.key => state'.submitted[k] = state.submitted[k]
      BY <1>0, <3>1 DEF Known
    <3> QED BY <2>1, <3>1, <3>2, LineSpoken
  <2>3. CASE StageCompleted
    <3>1. /\ log[pos'].ev = "StageCompleted"
          /\ state'.submitted = state.submitted
          /\ state'.completed = [state.completed EXCEPT ![Line.key] = Line.info]
      BY <1>0, <2>1, <2>3 DEF StageCompleted, Take, Known
    <3>2. \A k \in Keys : k # Line.key => state'.completed[k] = state.completed[k]
      BY <1>0, <3>1 DEF Known
    <3> QED BY <2>1, <3>1, <3>2, LineSpoken
  <2>4. CASE ~(StageSubmitted \/ StageCompleted)
    <3>1. state'.submitted = state.submitted /\ state'.completed = state.completed
      BY <1>0, <1>3, <2>4
         DEF ReaderNext, ApplicationStart, ApplicationEnd, EnvironmentUpdate,
             ExecutorAdded, ResourceProfileAdded, SQLExecutionStart,
             DriverAccumUpdates, JobStart, JobEnd, TaskEnd, Take, Known
    <3> QED BY <2>1, <3>1, LineSpoken
  <2> QED BY <2>2, <2>3, <2>4
<1> QED BY <1>1, <1>2, <1>3

-----------------------------------------------------------------------------
(* The answer.                                                             *)

Complete == Ledger /\ Heard /\ Spoken

(* What a stage of the answer carries, of the lines L.                     *)
Carries(tasks, L, lines) ==
  /\ {tasks[i] : i \in DOMAIN tasks} = {TaskOf(lines[p]) : p \in L}
  /\ Len(tasks) = Cardinality(L)
  /\ \A i, j \in DOMAIN tasks : i < j =>
       \/ tasks[i].index < tasks[j].index
       \/ tasks[i].index = tasks[j].index /\ tasks[i].at < tasks[j].at

SpokenOf(lines, upto) ==
  {k \in Keys : \E p \in 1 .. upto :
     /\ lines[p].ev \in {"StageSubmitted", "StageCompleted", "TaskEnd"}
     /\ lines[p].key = k}

EndsOf(k, lines, upto) == {p \in 1 .. upto : lines[p].ev = "TaskEnd" /\ lines[p].key = k}

Answered(stages, lines, upto) ==
  /\ DOMAIN stages = SpokenOf(lines, upto)
  /\ \A k \in DOMAIN stages : Carries(stages[k].tasks, EndsOf(k, lines, upto), lines)

LEMMA WhatIsAnswered ==
  StagesCarryTheirTasks <=> (phase = "built" => Answered(app.stages, log, pos))
BY DEF StagesCarryTheirTasks, Answered, Carries, SpokenOf, EndsOf, ReadFor

LEMMA CompleteStep == ASSUME Complete, [Next]_vars PROVE Complete'
<1>1. CASE Write
  BY <1>1, WriteType, WriteLedger, WriteHeard, WriteSpoken DEF Complete, Ledger
<1>2. CASE ReaderNext
  BY <1>2, ReaderType, ReaderLedger, ReaderHeard, ReaderSpoken DEF Complete, Ledger
<1>3. CASE UNCHANGED vars
  <2>1. TypeOK' BY <1>3 DEF vars, logVars, readerVars, Complete, Ledger, TypeOK
  <2>2. LogInOrder' /\ TasksConserved'
    BY <1>3, OtherLedger DEF vars, readerVars, Complete
  <2>3. Heard' /\ Spoken'
    BY <1>3 DEF vars, logVars, readerVars, Complete, Heard, Marks, RefusalIsHonest,
                Spoken, SpokeOf
  <2> QED BY <2>1, <2>2, <2>3 DEF Complete, Ledger
<1> QED BY <1>1, <1>2, <1>3 DEF Next

LEMMA FinishCarries ==
  ASSUME Complete, Finish
  PROVE  StagesCarryTheirTasks'
<1>1. /\ log' = log /\ pos' = pos /\ app'.stages = [k \in SeenKeys |-> StageFrom(k)]
  BY DEF Finish, logVars, Application
<1>2. SeenKeys = SpokenOf(log, pos)
  BY SeenIsSpokenOf DEF Complete, SpokenOf
<1>3. ASSUME NEW k \in SeenKeys
      PROVE  Carries(app'.stages[k].tasks, ReadFor(k), log)
  <2> DEFINE held == state.tasks[k]
             t == SortedByIndex(held)
  <2>1. k \in Keys BY DEF SeenKeys
  <2>2. app'.stages[k].tasks = t BY <1>1 DEF StageFrom
  <2>3. held \in Seq(Task) BY <2>1 DEF Complete, Ledger, TypeOK, Known
  <2>4. \A i, j \in DOMAIN held : i < j => held[i].at < held[j].at
    BY <2>1 DEF Complete, Ledger, TasksConserved, InOrderOfEnding
  <2>5. /\ Len(t) = Len(held)
        /\ {t[i] : i \in DOMAIN t} = {held[i] : i \in DOMAIN held}
        /\ \A i, j \in DOMAIN t : i < j =>
             \/ t[i].index < t[j].index
             \/ t[i].index = t[j].index /\ t[i].at < t[j].at
    BY <2>3, <2>4, SortedIsStable
  <2>6. /\ {held[i] : i \in DOMAIN held} = {TaskOf(log[p]) : p \in ReadFor(k)}
        /\ Len(held) = Cardinality(ReadFor(k))
    BY <2>1, ATaskALine DEF Complete
  <2> HIDE DEF t, held
  <2>7. {t[i] : i \in DOMAIN t} = {TaskOf(log[p]) : p \in ReadFor(k)}
    BY <2>5, <2>6, Zenon
  <2>8. Carries(t, ReadFor(k), log) BY <2>5, <2>6, <2>7 DEF Carries
  <2> QED BY <2>2, <2>8
<1>4. \A k : ReadFor(k) = EndsOf(k, log, pos) BY DEF ReadFor, EndsOf
<1>5. DOMAIN app'.stages = SeenKeys BY <1>1
<1>6. Answered(app'.stages, log', pos')
  BY <1>1, <1>2, <1>3, <1>4, <1>5 DEF Answered
<1>7. Answered(app.stages, log, pos)' BY <1>6 DEF Answered, SpokenOf, EndsOf, Carries
<1> QED BY <1>7, WhatIsAnswered, PTL

(* Until it is built there is no answer; once it is, nothing moves it.     *)
LEMMA OtherCarries ==
  ASSUME Complete, StagesCarryTheirTasks, [Next]_vars, ~Finish
  PROVE  StagesCarryTheirTasks'
<1>1. CASE Write BY <1>1 DEF Write, readerVars, StagesCarryTheirTasks
<1>2. CASE ReaderNext
  <2>1. phase' # "built"
    BY <1>2
       DEF ReaderNext, ApplicationStart, ApplicationEnd, EnvironmentUpdate,
           ExecutorAdded, ResourceProfileAdded, SQLExecutionStart,
           DriverAccumUpdates, JobStart, JobEnd, StageSubmitted, StageCompleted,
           TaskEnd, Take, TaskEndRaises, Skip, Refuse, Unreadable
  <2> QED BY <2>1 DEF StagesCarryTheirTasks
<1>3. CASE UNCHANGED vars
  <2>1. /\ log' = log /\ pos' = pos /\ app' = app /\ phase' = phase
    BY <1>3 DEF vars, logVars, readerVars
  <2>2. phase' = "built" => Answered(app'.stages, log', pos')
    BY <2>1, WhatIsAnswered
  <2>3. (phase = "built" => Answered(app.stages, log, pos))'
    BY <2>2 DEF Answered, SpokenOf, EndsOf, Carries
  <2> QED BY <2>3, WhatIsAnswered, PTL
<1> QED BY <1>1, <1>2, <1>3 DEF Next

(* The answer's stages are exactly those a line spoke of, and each carries *)
(* the tasks of its own lines, as many as there are, sorted as _stage_from *)
(* sorts them, however attempts and siblings interleave in the log.        *)
THEOREM AnswerCarriesItsTasks == Spec => []StagesCarryTheirTasks
<1>1. Init => Complete /\ StagesCarryTheirTasks
  <2> SUFFICES ASSUME Init PROVE Complete /\ StagesCarryTheirTasks OBVIOUS
  <2>1. Ledger /\ Heard BY InitType, InitLedger, InitHeard DEF Ledger
  <2>2. Spoken BY DEF Init, ReaderInit, Empty, Spoken
  <2>3. StagesCarryTheirTasks BY DEF Init, ReaderInit, StagesCarryTheirTasks
  <2> QED BY <2>1, <2>2, <2>3 DEF Complete
<1>2. Complete /\ StagesCarryTheirTasks /\ [Next]_vars
        => Complete' /\ StagesCarryTheirTasks'
  BY CompleteStep, FinishCarries, OtherCarries
<1> QED BY <1>1, <1>2, PTL DEF Spec
-----------------------------------------------------------------------------
(* What an application posts, in order.                                    *)

Completes(lines, key) ==
  \E p \in DOMAIN lines : lines[p].ev = "StageCompleted" /\ lines[p].key = key

CompletesOk(lines, s) ==
  \E p \in DOMAIN lines :
    lines[p].ev = "StageCompleted" /\ lines[p].key[1] = s /\ ~lines[p].info.failed

OfAStage(event) == event.ev \in {"StageSubmitted", "StageCompleted"}

(* An event fits after the lines there are as the n-th.                    *)
Follows(event, n, lines) ==
  /\ event.at = n
  /\ event.ev = "StageSubmitted" => event.info.reports = {} /\ event.info.completion = 0
  /\ event.ev = "StageCompleted" =>
       /\ event.info.completion = n
       /\ event.info.reports = Reports[event.key[1]]
       /\ ~Completes(lines, event.key)
  /\ OfAStage(event) =>
       \A b \in 0 .. event.key[2] - 1 : Completes(lines, <<event.key[1], b>>)
  /\ event.ev = "JobEnd" /\ event.ok => \A s \in StagesOf[event.job] : CompletesOk(lines, s)

(* Events are numbered; a stage completes once in an attempt and its       *)
(* attempts complete in order; a job that succeeds has its stages.         *)
Sound(lines) ==
  /\ \A p \in DOMAIN lines :
       /\ lines[p].at = p
       /\ lines[p].ev = "StageSubmitted" =>
            lines[p].info.reports = {} /\ lines[p].info.completion = 0
       /\ lines[p].ev = "StageCompleted" =>
            /\ lines[p].info.completion = p
            /\ lines[p].info.reports = Reports[lines[p].key[1]]
       /\ OfAStage(lines[p]) =>
            \A b \in 0 .. lines[p].key[2] - 1 : Completes(lines, <<lines[p].key[1], b>>)
       /\ lines[p].ev = "JobEnd" /\ lines[p].ok =>
            \A s \in StagesOf[lines[p].job] : CompletesOk(lines, s)
  /\ \A p, q \in DOMAIN lines :
       (/\ p < q
        /\ lines[p].ev = "StageCompleted" /\ lines[q].ev = "StageCompleted"
        /\ lines[p].key[1] = lines[q].key[1]) => lines[p].key[2] < lines[q].key[2]

LogIsPosted ==
  \A p \in DOMAIN log : log[p].at \in DOMAIN posted /\ log[p] = posted[log[p].at]

LEMMA KeyType ==
  /\ \A key \in Keys : key = <<key[1], key[2]>> /\ key[1] \in Stages /\ key[2] \in Nat
  /\ \A event \in Event : (OfAStage(event) \/ event.ev = "TaskEnd") => event.key \in Keys
<1>1. \A key \in Keys : key = <<key[1], key[2]>> /\ key[1] \in Stages /\ key[2] \in Nat
  BY ConstantsAssumption DEF Keys
<1>2. \A event \in Event : (OfAStage(event) \/ event.ev = "TaskEnd") => event.key \in Keys
  BY DEF Event, OfAStage
<1> QED BY <1>1, <1>2

LEMMA WhatIsPosted ==
  ASSUME posted \in Seq(Event), log \in Seq(Event), Sound(posted), LogNext
  PROVE  \E event : Post(event) /\ Follows(event, Now, posted)
<1> DEFINE Goal == \E event : Post(event) /\ Follows(event, Now, posted)
<1>1. ASSUME NEW event, Post(event), event.at = Now, ~OfAStage(event), event.ev # "JobEnd"
      PROVE  Goal
  BY <1>1 DEF Follows, OfAStage
<1>2. ASSUME NEW key \in Keys, NEW p \in DOMAIN posted,
             posted[p].ev = "StageSubmitted" \/ posted[p].ev = "StageCompleted",
             posted[p].key = key, NEW b \in 0 .. key[2] - 1
      PROVE  Completes(posted, <<key[1], b>>)
  BY <1>2 DEF Sound, OfAStage
<1>3. ASSUME NEW key \in Keys, NEW n \in 1 .. Partitions, PostStageSubmitted(key, n)
      PROVE  Goal
  <2> DEFINE event == [ev |-> "StageSubmitted", at |-> Now, key |-> key,
                       info |-> [declared |-> n, parents |-> Parents[key[1]],
                                 submission |-> Now, completion |-> 0,
                                 failed |-> FALSE, reports |-> {}]]
  <2>1. Post(event) /\ (key[2] > 0 => Broken(<<key[1], key[2] - 1>>))
    BY <1>3 DEF PostStageSubmitted
  <2>2. ASSUME NEW b \in 0 .. key[2] - 1 PROVE Completes(posted, <<key[1], b>>)
    <3>1. key[2] \in Nat /\ key[2] > 0 /\ key[1] \in Stages /\ key[2] <= MaxAttempts - 1
      BY KeyType, ConstantsAssumption DEF Keys
    <3> DEFINE last == <<key[1], key[2] - 1>>
    <3>2. last \in Keys /\ last[1] = key[1] /\ last[2] = key[2] - 1
      BY <3>1, ConstantsAssumption DEF Keys
    <3>3. PICK p \in DOMAIN posted : posted[p].ev = "StageCompleted" /\ posted[p].key = last
      BY <2>1, <3>1 DEF Broken, About, Named
    <3>4. CASE b = key[2] - 1 BY <3>3, <3>4 DEF Completes
    <3>5. CASE b # key[2] - 1
      <4>1. b \in 0 .. last[2] - 1 BY <3>1, <3>2, <3>5
      <4> HIDE DEF last
      <4> QED BY <1>2, <3>2, <3>3, <4>1
    <3> QED BY <3>4, <3>5
  <2>3. Follows(event, Now, posted) BY <2>2 DEF Follows, OfAStage
  <2> QED BY <2>1, <2>3
<1>4. ASSUME NEW key \in Keys, NEW failed \in BOOLEAN, PostStageCompleted(key, failed)
      PROVE  Goal
  <2> DEFINE info == [Submission(key).info EXCEPT !.completion = Now,
                                                  !.failed = failed,
                                                  !.reports = Reports[key[1]]]
             event == [ev |-> "StageCompleted", at |-> Now, key |-> key, info |-> info]
  <2>1. /\ Post(event) /\ About("StageSubmitted", key) # {}
        /\ About("StageCompleted", key) = {}
    BY <1>4 DEF PostStageCompleted
  <2>2. info.completion = Now /\ info.reports = Reports[key[1]]
    <3>1. Submission(key).info \in Info BY <2>1, SubmissionInfo
    <3> QED BY <3>1 DEF Info
  <2>3. ~Completes(posted, key) BY <2>1 DEF Completes, About, Named
  <2>4. PICK p \in DOMAIN posted : posted[p].ev = "StageSubmitted" /\ posted[p].key = key
    BY <2>1 DEF About, Named
  <2>5. \A b \in 0 .. key[2] - 1 : Completes(posted, <<key[1], b>>) BY <1>2, <2>4
  <2> HIDE DEF info
  <2>6. Follows(event, Now, posted) BY <2>2, <2>3, <2>5 DEF Follows, OfAStage
  <2> QED BY <2>1, <2>6
<1>5. ASSUME NEW job \in Jobs, NEW ok \in BOOLEAN, PostJobEnd(job, ok) PROVE Goal
  <2> DEFINE event == [ev |-> "JobEnd", at |-> Now, job |-> job, ok |-> ok]
  <2>1. Post(event) /\ (ok => \A s \in StagesOf[job] : CompletedOk(s))
    BY <1>5 DEF PostJobEnd
  <2>2. ok => \A s \in StagesOf[job] : CompletesOk(posted, s)
    BY <2>1 DEF CompletedOk, CompletesOk, Named
  <2>3. Follows(event, Now, posted) BY <2>2 DEF Follows, OfAStage
  <2> QED BY <2>1, <2>3
<1>6. ASSUME NEW e \in Executors, PostExecutorAdded(e) \/ PostExecutorRemoved(e) PROVE Goal
  BY <1>1, <1>6 DEF PostExecutorAdded, PostExecutorRemoved, OfAStage
<1>7. ASSUME NEW planned \in BOOLEAN, PostSQLExecutionStart(planned) PROVE Goal
  BY <1>1, <1>7 DEF PostSQLExecutionStart, OfAStage
<1>8. ASSUME NEW id \in AccIds, PostDriverAccumUpdates(id) PROVE Goal
  BY <1>1, <1>8 DEF PostDriverAccumUpdates, OfAStage
<1>9. ASSUME NEW job \in Jobs, PostJobStart(job) PROVE Goal
  BY <1>1, <1>9 DEF PostJobStart, OfAStage
<1>10. ASSUME NEW key \in Keys, NEW index \in 0 .. Partitions - 1,
              NEW outcome \in Outcomes, PostTaskEnd(key, index, outcome)
       PROVE  Goal
  BY <1>1, <1>10 DEF PostTaskEnd, OfAStage
<1>11. ASSUME PostApplicationEnd PROVE Goal
  BY <1>1, <1>11 DEF PostApplicationEnd, OfAStage
<1> HIDE DEF Goal
<1>12. Goal
  BY <1>3, <1>4, <1>5, <1>6, <1>7, <1>8, <1>9, <1>10, <1>11 DEF LogNext
<1> QED BY <1>12 DEF Goal

LEMMA StaysSound ==
  ASSUME posted \in Seq(Event), Sound(posted), NEW event \in Event,
         Follows(event, Len(posted) + 1, posted)
  PROVE  Sound(Append(posted, event))
<1> DEFINE n == Len(posted) + 1
           more == Append(posted, event)
<1>1. /\ n \in Nat /\ DOMAIN more = 1 .. n /\ more[n] = event
      /\ DOMAIN posted = 1 .. n - 1
      /\ \A p \in DOMAIN posted : p \in DOMAIN more /\ more[p] = posted[p] /\ p < n
      /\ \A p \in DOMAIN more : p = n \/ p \in DOMAIN posted
  OBVIOUS
<1> HIDE DEF more, n
<1>2. \A key : Completes(posted, key) => Completes(more, key) BY <1>1 DEF Completes
<1>3. \A s : CompletesOk(posted, s) => CompletesOk(more, s) BY <1>1 DEF CompletesOk
<1>4. Follows(event, n, posted) BY DEF n
<1>5. ASSUME NEW p \in DOMAIN more
      PROVE  /\ more[p].at = p
             /\ more[p].ev = "StageSubmitted" =>
                  more[p].info.reports = {} /\ more[p].info.completion = 0
             /\ more[p].ev = "StageCompleted" =>
                  /\ more[p].info.completion = p
                  /\ more[p].info.reports = Reports[more[p].key[1]]
             /\ OfAStage(more[p]) =>
                  \A b \in 0 .. more[p].key[2] - 1 : Completes(more, <<more[p].key[1], b>>)
             /\ more[p].ev = "JobEnd" /\ more[p].ok =>
                  \A s \in StagesOf[more[p].job] : CompletesOk(more, s)
  <2>1. CASE p = n BY <1>1, <1>2, <1>3, <1>4, <2>1 DEF Follows
  <2>2. CASE p \in DOMAIN posted BY <1>1, <1>2, <1>3, <2>2 DEF Sound
  <2> QED BY <1>1, <2>1, <2>2
<1>6. ASSUME NEW p \in DOMAIN more, NEW q \in DOMAIN more, p < q,
             more[p].ev = "StageCompleted", more[q].ev = "StageCompleted",
             more[p].key[1] = more[q].key[1]
      PROVE  more[p].key[2] < more[q].key[2]
  <2>1. p \in DOMAIN posted /\ more[p] = posted[p] BY <1>1, <1>6
  <2>2. CASE q \in DOMAIN posted BY <1>1, <1>6, <2>1, <2>2 DEF Sound
  <2>3. CASE q = n
    <3>1. posted[p] \in Event BY <2>1
    <3> DEFINE a == posted[p].key
               b == event.key
    <3>2. /\ posted[p].ev = "StageCompleted" /\ event.ev = "StageCompleted" /\ a[1] = b[1]
      BY <1>1, <1>6, <2>1, <2>3
    <3>3. a \in Keys /\ b \in Keys BY <3>1, <3>2, KeyType DEF OfAStage
    <3>4. ~Completes(posted, b) BY <1>4, <3>2 DEF Follows
    <3>5. Completes(posted, a) BY <2>1, <3>2 DEF Completes
    <3>6. \A c \in 0 .. a[2] - 1 : Completes(posted, <<a[1], c>>)
      BY <2>1, <3>2 DEF Sound, OfAStage
    <3> HIDE DEF a, b
    <3>7. a = <<a[1], a[2]>> /\ b = <<b[1], b[2]>> /\ a[2] \in Nat /\ b[2] \in Nat
      BY <3>3, KeyType
    <3>8. a[2] # b[2] BY <3>2, <3>4, <3>5, <3>7
    <3>9. ~(b[2] < a[2])
      <4> SUFFICES ASSUME b[2] < a[2] PROVE FALSE OBVIOUS
      <4>1. b[2] \in 0 .. a[2] - 1 BY <3>7
      <4>2. Completes(posted, <<a[1], b[2]>>) BY <3>6, <4>1
      <4> QED BY <3>2, <3>4, <3>7, <4>2
    <3>10. a[2] < b[2] BY <3>7, <3>8, <3>9
    <3> QED BY <1>1, <2>1, <2>3, <3>10 DEF a, b
  <2> QED BY <1>1, <2>2, <2>3
<1>7. Sound(more) BY <1>5, <1>6 DEF Sound
<1> QED BY <1>7 DEF more

LEMMA TheLastAppended ==
  ASSUME NEW S, NEW s \in Seq(S), NEW x
  PROVE  Append(s, x)[Len(s) + 1] = x
<1> DEFINE T == S \cup {x}
<1>1. s \in Seq(T) BY SeqMonotonic
<1>2. x \in T OBVIOUS
<1> HIDE DEF T
<1> QED BY <1>1, <1>2

(* The writer keeps to this whatever it posts and whatever is dropped.     *)
LEMMA WriteSound ==
  ASSUME Ledger, Sound(posted), LogIsPosted, Write
  PROVE  Sound(posted') /\ LogIsPosted'
<1>1. posted \in Seq(Event) /\ log \in Seq(Event) /\ LogNext BY DEF Ledger, TypeOK, Write
<1>2. PICK event : Post(event) /\ Follows(event, Now, posted) BY <1>1, WhatIsPosted
<1>3. PICK other \in Event : Post(other) BY <1>1, LogStep
<1>4. posted' = Append(posted, event) /\ posted' = Append(posted, other) BY <1>2, <1>3 DEF Post
<1>11. \A x : Append(posted, x)[Len(posted) + 1] = x BY <1>1, TheLastAppended
<1>12. Append(posted, event)[Len(posted) + 1] = event BY <1>11
<1>13. Append(posted, other)[Len(posted) + 1] = other BY <1>11
<1>5. event = other /\ event \in Event BY <1>3, <1>4, <1>12, <1>13, Zenon
<1>6. Sound(posted') BY <1>1, <1>2, <1>4, <1>5, StaysSound DEF Now
<1>7. /\ Len(posted) \in Nat /\ DOMAIN posted = 1 .. Len(posted)
      /\ DOMAIN posted' = 1 .. Len(posted) + 1 /\ posted'[Len(posted) + 1] = event
      /\ \A p \in DOMAIN posted : p \in DOMAIN posted' /\ posted'[p] = posted[p]
  BY <1>1, <1>4, <1>5
<1>8. /\ event.at = Len(posted) + 1 /\ Len(posted) + 1 \in DOMAIN posted'
  BY <1>2, <1>7 DEF Follows, Now
<1>9. \A p \in DOMAIN log' : (p \in DOMAIN log /\ log'[p] = log[p]) \/ log'[p] = event
  <2>1. CASE log' = log BY <2>1
  <2>2. CASE log' = Append(log, event) BY <1>1, <1>5, <2>2
  <2> QED BY <1>2, <2>1, <2>2 DEF Post
<1>10. LogIsPosted' BY <1>7, <1>8, <1>9 DEF LogIsPosted
<1> QED BY <1>6, <1>10

LEMMA InitSound == ASSUME Init PROVE Sound(posted) /\ LogIsPosted
<1>1. PICK cpus \in Cpus : posted = Preamble(cpus) BY DEF Init, LogInit
<1>2. /\ DOMAIN posted = 1 .. 3 /\ \A p \in 1 .. 3 : posted[p].at = p
      /\ \A p \in 1 .. 3 : posted[p].ev \in {"ResourceProfileAdded", "EnvironmentUpdate",
                                             "ApplicationStart"}
  BY <1>1 DEF Preamble
<1>3. Sound(posted) BY <1>2 DEF Sound, OfAStage
<1>4. LogIsPosted
  <2>1. CASE log = posted BY <1>2, <2>1 DEF LogIsPosted
  <2>2. CASE log = SubSeq(posted, 1, 2)
    <3>1. DOMAIN log = 1 .. 2 /\ \A p \in 1 .. 2 : log[p] = posted[p]
      BY <1>1, <2>2 DEF Preamble
    <3> QED BY <1>2, <3>1 DEF LogIsPosted
  <2> QED BY <2>1, <2>2 DEF Init, LogInit
<1> QED BY <1>3, <1>4

-----------------------------------------------------------------------------
(* Where in the lines what the reader holds was read.                      *)

ReadAt(lines, n, name, p) == p \in 1 .. n /\ lines[p].ev = name

Read ==
  /\ \A k \in Keys :
       /\ state.submitted[k] # None =>
            \E p : ReadAt(log, pos, "StageSubmitted", p) /\ log[p].key = k /\ log[p].info = state.submitted[k]
       /\ state.completed[k] # None =>
            \E p : ReadAt(log, pos, "StageCompleted", p) /\ log[p].key = k /\ log[p].info = state.completed[k]
  /\ \A id \in AccIds :
       /\ state.driver[id] # 0 =>
            \E p : ReadAt(log, pos, "DriverAccumUpdates", p) /\ log[p].id = id /\ log[p].at = state.driver[id]
       /\ \A p : ReadAt(log, pos, "DriverAccumUpdates", p) /\ log[p].id = id => log[p].at <= state.driver[id]
  /\ \A i \in DOMAIN state.jobs : state.jobs[i].result = "ok" =>
       \E p : ReadAt(log, pos, "JobEnd", p) /\ log[p].ok /\ log[p].job = state.jobs[i].job

(* Nothing an answer was made of changes after it.                         *)
Final == phase = "built" => pos = Len(log) /\ app = Application

(* A line is read, and what is new in the state is read from it.           *)
LEMMA LineRead ==
  ASSUME Ledger, Read, log' = log, pos' = pos + 1, pos < Len(log),
         \A k \in Keys :
           /\ \/ state'.submitted[k] = state.submitted[k]
              \/ Line.ev = "StageSubmitted" /\ Line.key = k /\ Line.info = state'.submitted[k]
           /\ \/ state'.completed[k] = state.completed[k]
              \/ Line.ev = "StageCompleted" /\ Line.key = k /\ Line.info = state'.completed[k],
         \A id \in AccIds :
           IF Line.ev = "DriverAccumUpdates" /\ Line.id = id
           THEN state'.driver[id] = Line.at ELSE state'.driver[id] = state.driver[id],
         \A i \in DOMAIN state'.jobs : state'.jobs[i].result = "ok" =>
           \/ /\ i \in DOMAIN state.jobs /\ state.jobs[i].result = "ok"
              /\ state'.jobs[i].job = state.jobs[i].job
           \/ Line.ev = "JobEnd" /\ Line.ok /\ Line.job = state'.jobs[i].job
  PROVE  Read'
<1>1. /\ pos \in Nat /\ pos' \in 1 .. pos' /\ 1 .. pos \subseteq 1 .. pos'
      /\ 1 .. pos \subseteq DOMAIN log /\ pos' \in DOMAIN log /\ Line = log[pos']
      /\ \A p \in 1 .. pos' : p \in 1 .. pos \/ p = pos'
  BY DEF Ledger, TypeOK, Line
<1>2. \A name, p : ReadAt(log, pos, name, p) => ReadAt(log', pos', name, p)
  BY <1>1 DEF ReadAt
<1>3. \A name : Line.ev = name => ReadAt(log', pos', name, pos')
  BY <1>1 DEF ReadAt
<1>4. \A name, p : ReadAt(log', pos', name, p) => ReadAt(log, pos, name, p) \/ (p = pos' /\ Line.ev = name)
  BY <1>1 DEF ReadAt
<1>5. ASSUME NEW k \in Keys, state'.submitted[k] # None
      PROVE  \E p : ReadAt(log', pos', "StageSubmitted", p) /\ log'[p].key = k
                    /\ log'[p].info = state'.submitted[k]
  <2>1. CASE state'.submitted[k] = state.submitted[k]
    <3>1. PICK p : ReadAt(log, pos, "StageSubmitted", p) /\ log[p].key = k
                   /\ log[p].info = state.submitted[k]
      BY <1>5, <2>1 DEF Read
    <3> QED BY <1>2, <2>1, <3>1
  <2>2. CASE Line.ev = "StageSubmitted" /\ Line.key = k /\ Line.info = state'.submitted[k]
    BY <1>1, <1>3, <2>2
  <2> QED BY <2>1, <2>2
<1>6. ASSUME NEW k \in Keys, state'.completed[k] # None
      PROVE  \E p : ReadAt(log', pos', "StageCompleted", p) /\ log'[p].key = k
                    /\ log'[p].info = state'.completed[k]
  <2>1. CASE state'.completed[k] = state.completed[k]
    <3>1. PICK p : ReadAt(log, pos, "StageCompleted", p) /\ log[p].key = k
                   /\ log[p].info = state.completed[k]
      BY <1>6, <2>1 DEF Read
    <3> QED BY <1>2, <2>1, <3>1
  <2>2. CASE Line.ev = "StageCompleted" /\ Line.key = k /\ Line.info = state'.completed[k]
    BY <1>1, <1>3, <2>2
  <2> QED BY <2>1, <2>2
<1>7. ASSUME NEW id \in AccIds
      PROVE  /\ state'.driver[id] # 0 =>
                  \E p : ReadAt(log', pos', "DriverAccumUpdates", p) /\ log'[p].id = id
                         /\ log'[p].at = state'.driver[id]
             /\ \A p : ReadAt(log', pos', "DriverAccumUpdates", p) /\ log'[p].id = id =>
                         log'[p].at <= state'.driver[id]
  <2>1. CASE Line.ev = "DriverAccumUpdates" /\ Line.id = id
    <3>1. state'.driver[id] = Line.at BY <2>1
    <3>2. \A p \in 1 .. pos : log[p].at < Line.at
      <4>1. \A p \in 1 .. pos : p \in DOMAIN log /\ p < pos' BY <1>1
      <4> QED BY <1>1, <4>1 DEF Ledger, LogInOrder
    <3>3. \A p \in 1 .. pos' : log[p].at \in Nat
      <4>1. \A p \in 1 .. pos' : log[p] \in Event BY <1>1 DEF Ledger, TypeOK
      <4> QED BY <4>1, EventAt
    <3>4. \A p \in 1 .. pos' : log'[p].at <= state'.driver[id] BY <1>1, <3>1, <3>2, <3>3
    <3>5. \A p : ReadAt(log', pos', "DriverAccumUpdates", p) => p \in 1 .. pos' BY DEF ReadAt
    <3> QED BY <1>1, <1>3, <2>1, <3>1, <3>4, <3>5
  <2>2. CASE ~(Line.ev = "DriverAccumUpdates" /\ Line.id = id)
    <3>1. state'.driver[id] = state.driver[id] BY <2>2
    <3>2. \A p : ReadAt(log', pos', "DriverAccumUpdates", p) /\ log'[p].id = id =>
                   ReadAt(log, pos, "DriverAccumUpdates", p) /\ log[p].id = id
      BY <1>1, <1>4, <2>2
    <3> QED BY <1>2, <3>1, <3>2 DEF Read
  <2> QED BY <2>1, <2>2
<1>8. ASSUME NEW i \in DOMAIN state'.jobs, state'.jobs[i].result = "ok"
      PROVE  \E p : ReadAt(log', pos', "JobEnd", p) /\ log'[p].ok /\ log'[p].job = state'.jobs[i].job
  <2>1. CASE /\ i \in DOMAIN state.jobs /\ state.jobs[i].result = "ok"
             /\ state'.jobs[i].job = state.jobs[i].job
    <3>1. PICK p : ReadAt(log, pos, "JobEnd", p) /\ log[p].ok /\ log[p].job = state.jobs[i].job
      BY <2>1 DEF Read
    <3> QED BY <1>2, <2>1, <3>1
  <2>2. CASE Line.ev = "JobEnd" /\ Line.ok /\ Line.job = state'.jobs[i].job
    BY <1>1, <1>3, <2>2
  <2> QED BY <1>8, <2>1, <2>2
<1> QED BY <1>5, <1>6, <1>7, <1>8 DEF Read

LEMMA ReaderRead == ASSUME Ledger, Read, ReaderNext PROVE Read'
<1>0. state \in Known BY DEF Ledger, TypeOK
<1>1. CASE TaskEndRaises \/ Refuse \/ Finish \/ Unreadable
  <2>1. log' = log /\ pos' = pos /\ state' = state
    BY <1>1 DEF TaskEndRaises, Refuse, Finish, Unreadable, logVars
  <2> QED BY <2>1 DEF Read
<1>2. CASE ~(TaskEndRaises \/ Refuse \/ Finish \/ Unreadable)
  <2>1. log' = log /\ pos' = pos + 1 /\ pos < Len(log)
    BY <1>2
       DEF ReaderNext, ApplicationStart, ApplicationEnd, EnvironmentUpdate,
           ExecutorAdded, ResourceProfileAdded, SQLExecutionStart,
           DriverAccumUpdates, JobStart, JobEnd, StageSubmitted, StageCompleted,
           TaskEnd, Take, Skip, logVars
  <2>2. Line \in Event BY <2>1, LineType DEF Ledger
  <2>3. CASE StageSubmitted
    <3>1. /\ Line.ev = "StageSubmitted"
          /\ state'.completed = state.completed /\ state'.driver = state.driver
          /\ state'.jobs = state.jobs
          /\ state'.submitted = [state.submitted EXCEPT ![Line.key] = Line.info]
      BY <1>0, <2>3 DEF StageSubmitted, Take, Known
    <3>2. \A k \in Keys : state'.submitted[k]
                            = IF k = Line.key THEN Line.info ELSE state.submitted[k]
      BY <1>0, <3>1 DEF Known
    <3> QED BY <2>1, <3>1, <3>2, LineRead
  <2>4. CASE StageCompleted
    <3>1. /\ Line.ev = "StageCompleted"
          /\ state'.submitted = state.submitted /\ state'.driver = state.driver
          /\ state'.jobs = state.jobs
          /\ state'.completed = [state.completed EXCEPT ![Line.key] = Line.info]
      BY <1>0, <2>4 DEF StageCompleted, Take, Known
    <3>2. \A k \in Keys : state'.completed[k]
                            = IF k = Line.key THEN Line.info ELSE state.completed[k]
      BY <1>0, <3>1 DEF Known
    <3> QED BY <2>1, <3>1, <3>2, LineRead
  <2>5. CASE DriverAccumUpdates
    <3>1. /\ Line.ev = "DriverAccumUpdates"
          /\ state'.submitted = state.submitted /\ state'.completed = state.completed
          /\ state'.jobs = state.jobs
          /\ state'.driver = [state.driver EXCEPT ![Line.id] = Line.at]
      BY <1>0, <2>5 DEF DriverAccumUpdates, Take, Known
    <3>2. \A id \in AccIds : state'.driver[id]
                               = IF id = Line.id THEN Line.at ELSE state.driver[id]
      BY <1>0, <3>1 DEF Known
    <3> QED BY <2>1, <3>1, <3>2, LineRead
  <2>6. CASE JobStart
    <3> DEFINE entry == [job |-> Line.job, submission |-> Line.at,
                         completion |-> 0, result |-> "none"]
    <3>1. /\ Line.ev = "JobStart"
          /\ state'.submitted = state.submitted /\ state'.completed = state.completed
          /\ state'.driver = state.driver
          /\ state'.jobs = Append(state.jobs, entry)
      BY <1>0, <2>6 DEF JobStart, Take, Known
    <3>2. entry \in Job /\ entry.result # "ok"
      BY <2>2, <3>1 DEF Event, Job
    <3>3. state.jobs \in Seq(Job) BY <1>0 DEF Known
    <3> HIDE DEF entry
    <3>4. \A i \in DOMAIN state'.jobs :
            \/ i \in DOMAIN state.jobs /\ state'.jobs[i] = state.jobs[i]
            \/ state'.jobs[i] = entry
      BY <3>1, <3>2, <3>3
    <3>5. \A i \in DOMAIN state'.jobs : state'.jobs[i].result = "ok" =>
            /\ i \in DOMAIN state.jobs /\ state.jobs[i].result = "ok"
            /\ state'.jobs[i].job = state.jobs[i].job
      BY <3>2, <3>4
    <3> QED BY <2>1, <3>1, <3>5, LineRead
  <2>7. CASE JobEnd
    <3>1. /\ Line.ev = "JobEnd"
          /\ state'.submitted = state.submitted /\ state'.completed = state.completed
          /\ state'.driver = state.driver
          /\ state'.jobs = [i \in DOMAIN state.jobs |-> Ended(state.jobs[i], Line)]
      BY <1>0, <2>7 DEF JobEnd, Take, Known
    <3>2. ASSUME NEW i \in DOMAIN state.jobs, state'.jobs[i].result = "ok"
          PROVE  \/ state.jobs[i].result = "ok" /\ state'.jobs[i].job = state.jobs[i].job
                 \/ Line.ok /\ Line.job = state'.jobs[i].job
      <4>1. state.jobs[i] \in Job BY <1>0 DEF Known
      <4>2. state'.jobs[i] = Ended(state.jobs[i], Line) BY <3>1
      <4> QED BY <3>2, <4>1, <4>2 DEF Ended, Job
    <3>3. DOMAIN state'.jobs = DOMAIN state.jobs BY <3>1
    <3> QED BY <2>1, <3>1, <3>2, <3>3, LineRead
  <2>8. CASE ~(StageSubmitted \/ StageCompleted \/ DriverAccumUpdates \/ JobStart \/ JobEnd)
    <3>1. /\ Line.ev # "DriverAccumUpdates" /\ state'.jobs = state.jobs
          /\ state'.submitted = state.submitted /\ state'.completed = state.completed
          /\ state'.driver = state.driver
      BY <1>0, <1>2, <2>8
         DEF ReaderNext, ApplicationStart, ApplicationEnd, EnvironmentUpdate,
             ExecutorAdded, ResourceProfileAdded, SQLExecutionStart, TaskEnd, Take,
             Known, Skip, Handled
    <3> QED BY <2>1, <3>1, LineRead
  <2> QED BY <2>3, <2>4, <2>5, <2>6, <2>7, <2>8
<1> QED BY <1>1, <1>2

LEMMA WriteRead == ASSUME Ledger, Read, Write PROVE Read'
<1>1. PICK event \in Event : event.at = Now /\ Post(event)
  BY LogStep DEF Write, Ledger, TypeOK
<1>2. /\ pos' = pos /\ state' = state
      /\ \A p \in 1 .. pos : log'[p] = log[p]
  BY <1>1 DEF Post, Write, readerVars, Ledger, TypeOK
<1> QED BY <1>2 DEF Read, ReadAt

LEMMA FinalStep == ASSUME Final, [Next]_vars PROVE Final'
<1>1. CASE Write BY <1>1 DEF Write, readerVars, Final
<1>2. CASE Finish
  <2>1. /\ phase' = "built" /\ app' = Application /\ pos' = pos /\ log' = log
        /\ pos = Len(log)
    BY <1>2 DEF Finish, AtEnd, logVars
  <2>3. state' = state BY <1>2 DEF Finish
  <2>2. Application' = Application
    BY <2>3 DEF Application, SeenKeys, StageFrom, InfoOf, SortedByIndex, Precedes,
                AccumulatorOf, KeyBefore, Slots
  <2> QED BY <2>1, <2>2 DEF Final
<1>3. CASE ReaderNext /\ ~Finish
  <2>1. phase' # "built"
    BY <1>3
       DEF ReaderNext, ApplicationStart, ApplicationEnd, EnvironmentUpdate,
           ExecutorAdded, ResourceProfileAdded, SQLExecutionStart,
           DriverAccumUpdates, JobStart, JobEnd, StageSubmitted, StageCompleted,
           TaskEnd, Take, TaskEndRaises, Skip, Refuse, Unreadable
  <2> QED BY <2>1 DEF Final
<1>4. CASE UNCHANGED vars
  <2>1. /\ log' = log /\ pos' = pos /\ app' = app /\ phase' = phase /\ state' = state
    BY <1>4 DEF vars, logVars, readerVars
  <2>2. Application' = Application
    BY <2>1 DEF Application, SeenKeys, StageFrom, InfoOf, SortedByIndex, Precedes,
                AccumulatorOf, KeyBefore, Slots
  <2> QED BY <2>1, <2>2 DEF Final
<1> QED BY <1>1, <1>2, <1>3, <1>4 DEF Next

(* All that is known of a reader, its state and the lines it read.         *)
Informed == Complete /\ Sound(posted) /\ LogIsPosted /\ Read /\ Final

LEMMA InformedInit == ASSUME Init PROVE Informed
<1>1. Complete
  <2>1. Ledger /\ Heard BY InitType, InitLedger, InitHeard DEF Ledger
  <2>2. Spoken BY DEF Init, ReaderInit, Empty, Spoken
  <2> QED BY <2>1, <2>2 DEF Complete
<1>2. Read BY DEF Init, ReaderInit, Empty, Read, ReadAt
<1>3. Final BY DEF Init, ReaderInit, Final
<1>4. Sound(posted) /\ LogIsPosted BY InitSound
<1> QED BY <1>1, <1>2, <1>3, <1>4, Zenon DEF Informed

LEMMA StillSound == ASSUME Sound(posted), posted' = posted PROVE Sound(posted)'
BY SMTT(20) DEF Sound, Completes, CompletesOk, OfAStage

LEMMA InformedStep == ASSUME Informed, [Next]_vars PROVE Informed'
<1>1. Complete' /\ Final' BY CompleteStep, FinalStep DEF Informed
<1>2. CASE Write
  <2>1. Ledger BY DEF Informed, Complete
  <2>2. Sound(posted') /\ LogIsPosted' /\ Read' BY <1>2, <2>1, WriteSound, WriteRead DEF Informed
  <2>3. Sound(posted)' BY <2>2 DEF Sound, Completes, CompletesOk, OfAStage
  <2> QED BY <1>1, <2>2, <2>3 DEF Informed
<1>3. CASE ReaderNext
  <2>1. Ledger BY DEF Informed, Complete
  <2>2. posted' = posted /\ log' = log
    BY <1>3
       DEF ReaderNext, ApplicationStart, ApplicationEnd, EnvironmentUpdate,
           ExecutorAdded, ResourceProfileAdded, SQLExecutionStart,
           DriverAccumUpdates, JobStart, JobEnd, StageSubmitted, StageCompleted,
           TaskEnd, Take, TaskEndRaises, Skip, Refuse, Finish, Unreadable, logVars
  <2>3. Sound(posted)' BY <2>2, StillSound DEF Informed
  <2>4. LogIsPosted' BY <2>2 DEF Informed, LogIsPosted
  <2> QED BY <1>1, <1>3, <2>1, <2>3, <2>4, ReaderRead DEF Informed
<1>4. CASE UNCHANGED vars
  <2>1. /\ posted' = posted /\ log' = log /\ pos' = pos /\ state' = state
    BY <1>4 DEF vars, logVars, readerVars
  <2>4. posted' = posted BY <2>1
  <2>2. Sound(posted)' BY <2>4, StillSound DEF Informed
  <2>3. LogIsPosted' /\ Read' BY <2>1 DEF Informed, LogIsPosted, Read
  <2> QED BY <1>1, <2>2, <2>3 DEF Informed
<1> QED BY <1>2, <1>3, <1>4 DEF Next

-----------------------------------------------------------------------------
(* What the answer says of stages and accumulators.                        *)

(* What was posted, said of the lines there are: some may be missing.      *)
LEMMA LinesAreSound ==
  ASSUME Informed
  PROVE  /\ \A p \in DOMAIN log :
              /\ log[p] \in Event /\ log[p].at \in Nat /\ log[p].at # 0
              /\ log[p].ev = "StageSubmitted" =>
                   log[p].info.reports = {} /\ log[p].info.completion = 0
              /\ log[p].ev = "StageCompleted" =>
                   /\ log[p].info.completion = log[p].at
                   /\ log[p].info.reports = Reports[log[p].key[1]]
         /\ \A p, q \in DOMAIN log : p < q =>
              /\ log[p].at < log[q].at
              /\ (/\ log[p].ev = "StageCompleted" /\ log[q].ev = "StageCompleted"
                  /\ log[p].key[1] = log[q].key[1]) => log[p].key[2] < log[q].key[2]
<1>1. Ledger /\ Heard /\ LogIsPosted /\ Sound(posted) BY DEF Informed, Complete
<1>2. ASSUME NEW p \in DOMAIN log
      PROVE  /\ log[p] \in Event /\ log[p].at \in Nat /\ log[p].at # 0
             /\ log[p].at \in DOMAIN posted /\ log[p] = posted[log[p].at]
  <2>1. log[p] \in Event BY <1>1 DEF Ledger, TypeOK
  <2> QED BY <1>1, <2>1, EventAt DEF Heard, LogIsPosted
<1>3. ASSUME NEW p \in DOMAIN log
      PROVE  /\ log[p].ev = "StageSubmitted" =>
                  log[p].info.reports = {} /\ log[p].info.completion = 0
             /\ log[p].ev = "StageCompleted" =>
                  /\ log[p].info.completion = log[p].at
                  /\ log[p].info.reports = Reports[log[p].key[1]]
  BY <1>1, <1>2 DEF Sound
<1>4. ASSUME NEW p \in DOMAIN log, NEW q \in DOMAIN log, p < q
      PROVE  /\ log[p].at < log[q].at
             /\ (/\ log[p].ev = "StageCompleted" /\ log[q].ev = "StageCompleted"
                 /\ log[p].key[1] = log[q].key[1]) => log[p].key[2] < log[q].key[2]
  <2>1. log[p].at < log[q].at BY <1>1, <1>4 DEF Ledger, LogInOrder
  <2>2. /\ log[p].at \in DOMAIN posted /\ log[p] = posted[log[p].at]
        /\ log[q].at \in DOMAIN posted /\ log[q] = posted[log[q].at]
    BY <1>2
  <2>3. \A a, b \in DOMAIN posted :
          (/\ a < b
           /\ posted[a].ev = "StageCompleted" /\ posted[b].ev = "StageCompleted"
           /\ posted[a].key[1] = posted[b].key[1]) => posted[a].key[2] < posted[b].key[2]
    BY <1>1 DEF Sound
  <2> QED BY <2>1, <2>2, <2>3
<1> QED BY <1>2, <1>3, <1>4

(* A stage attempt's completion is in the state as its one line has it.    *)
LEMMA CompletionIsRead ==
  ASSUME Informed, NEW k \in Keys
  PROVE  /\ state.completed[k] # None =>
              \E p \in 1 .. pos : /\ log[p].ev = "StageCompleted" /\ log[p].key = k
                                  /\ log[p].info = state.completed[k]
         /\ \A p \in 1 .. pos : log[p].ev = "StageCompleted" /\ log[p].key = k =>
              /\ state.completed[k] = log[p].info /\ state.completed[k] # None
              /\ k \in SeenKeys /\ InfoOf(k) = log[p].info
<1>1. Ledger /\ Heard /\ Read BY DEF Informed, Complete
<1>2. state.completed[k] # None =>
        \E p \in 1 .. pos : /\ log[p].ev = "StageCompleted" /\ log[p].key = k
                            /\ log[p].info = state.completed[k]
  BY <1>1 DEF Read, ReadAt
<1>3. ASSUME NEW p \in 1 .. pos, log[p].ev = "StageCompleted", log[p].key = k
      PROVE  /\ state.completed[k] = log[p].info /\ state.completed[k] # None
             /\ k \in SeenKeys /\ InfoOf(k) = log[p].info
  <2>1. state.completed[k] # None BY <1>1, <1>3 DEF Heard, Marks
  <2>2. PICK q \in 1 .. pos : /\ log[q].ev = "StageCompleted" /\ log[q].key = k
                              /\ log[q].info = state.completed[k]
    BY <1>2, <2>1
  <2>3. p \in DOMAIN log /\ q \in DOMAIN log /\ p \in Nat /\ q \in Nat
    BY <1>1 DEF Ledger, TypeOK
  <2>4. k[2] \in Nat BY KeyType
  <2>5. ~(p < q) /\ ~(q < p) BY <1>3, <2>2, <2>3, <2>4, LinesAreSound
  <2>6. p = q BY <2>3, <2>5
  <2> QED BY <2>1, <2>2, <2>6 DEF SeenKeys, InfoOf
<1> QED BY <1>2, <1>3

LEMMA JobsShowTheirStages ==
  ASSUME Informed PROVE SucceededJobShowsItsStages
<1> SUFFICES ASSUME phase = "built", log = posted,
                    NEW i \in DOMAIN app.jobs, app.jobs[i].result = "ok",
                    NEW s \in StagesOf[app.jobs[i].job]
             PROVE  \E k \in DOMAIN app.stages :
                      /\ k[1] = s
                      /\ app.stages[k].completion # 0 /\ ~app.stages[k].failed
  BY DEF SucceededJobShowsItsStages
<1>1. /\ app.jobs = state.jobs /\ app.stages = [k \in SeenKeys |-> StageFrom(k)]
      /\ pos = Len(log)
  BY DEF Informed, Final, Application
<1>2. Read /\ Sound(posted) /\ Ledger BY DEF Informed, Complete
<1>3. PICK p : ReadAt(log, pos, "JobEnd", p) /\ log[p].ok /\ log[p].job = app.jobs[i].job
  BY <1>1, <1>2 DEF Read
<1>4. log \in Seq(Event) /\ DOMAIN log = 1 .. pos BY <1>1, <1>2 DEF Ledger, TypeOK
<1>5. p \in DOMAIN posted /\ posted[p].ev = "JobEnd" BY <1>3, <1>4 DEF ReadAt
<1>6. CompletesOk(posted, s) BY <1>2, <1>3, <1>5 DEF Sound
<1>7. PICK q \in 1 .. pos : /\ log[q].ev = "StageCompleted" /\ log[q].key[1] = s
                            /\ ~log[q].info.failed
  BY <1>4, <1>6 DEF CompletesOk
<1> DEFINE k == log[q].key
<1>8. k \in Keys
  <2>1. q \in DOMAIN log BY <1>4
  <2>2. log[q] \in Event BY <2>1, LinesAreSound
  <2> QED BY <1>7, <2>2, KeyType DEF OfAStage
<1>9. k \in SeenKeys /\ InfoOf(k) = log[q].info BY <1>7, <1>8, CompletionIsRead
<1>10. log[q].info.completion # 0 BY <1>4, <1>7, LinesAreSound
<1>11. k \in DOMAIN app.stages /\ app.stages[k] = StageFrom(k) BY <1>1, <1>9
<1>12. StageFrom(k).completion = InfoOf(k).completion /\ StageFrom(k).failed = InfoOf(k).failed
  BY DEF StageFrom
<1> QED BY <1>7, <1>9, <1>10, <1>11, <1>12

(* With nothing dropped, a job the answer shows succeeded has in it, for   *)
(* each of its stages, an attempt that completed and did not fail: build   *)
(* neither loses a completion to a later attempt nor ends the wrong job.   *)
THEOREM SucceededJobsAreShown == Spec => []SucceededJobShowsItsStages
<1>1. Init => Informed BY InformedInit
<1>2. Informed /\ [Next]_vars => Informed' BY InformedStep
<1>3. Informed => SucceededJobShowsItsStages BY JobsShowTheirStages
<1> QED BY <1>1, <1>2, <1>3, PTL DEF Spec

LEMMA TheLast ==
  ASSUME pos \in Nat, NEW P \in SUBSET (1 .. pos), P # {}
  PROVE  \E p \in P : (\A q \in P : q <= p) /\ LastAt(P) = log[p].at
<1>1. P \in SUBSET Nat /\ \A m \in P : m <= pos OBVIOUS
<1>2. PICK n \in P : \A m \in P : m <= n BY <1>1, HasLargest
<1> DEFINE p == CHOOSE p \in P : \A q \in P : q <= p
<1>3. p \in P /\ \A q \in P : q <= p BY <1>2
<1>4. LastAt(P) = log[p].at BY DEF LastAt
<1> QED BY <1>3, <1>4

StagesOn(id) == {p \in 1 .. pos : log[p].ev = "StageCompleted" /\ id \in log[p].info.reports}
DriversOn(id) == {p \in 1 .. pos : log[p].ev = "DriverAccumUpdates" /\ log[p].id = id}
Reporting(id) == {k \in SeenKeys : id \in InfoOf(k).reports}

(* Only a completion reports anything.                                     *)
LEMMA WhoReports ==
  ASSUME Informed, NEW id \in AccIds
  PROVE  /\ \A k \in Reporting(id) : \E p \in StagesOn(id) : log[p].key = k
         /\ \A p \in StagesOn(id) : /\ log[p].key \in Reporting(id)
                                    /\ InfoOf(log[p].key) = log[p].info
<1>1. Ledger /\ Read BY DEF Informed, Complete
<1>2. \A p \in 1 .. pos : p \in DOMAIN log BY <1>1 DEF Ledger, TypeOK
<1>3. ASSUME NEW k \in Reporting(id) PROVE \E p \in StagesOn(id) : log[p].key = k
  <2>1. k \in Keys /\ id \in InfoOf(k).reports BY DEF Reporting, SeenKeys
  <2>2. CASE state.completed[k] # None
    <3>1. PICK p \in 1 .. pos : /\ log[p].ev = "StageCompleted" /\ log[p].key = k
                                /\ log[p].info = state.completed[k]
      BY <2>1, <2>2, CompletionIsRead
    <3>2. InfoOf(k) = log[p].info BY <2>2, <3>1 DEF InfoOf
    <3> QED BY <2>1, <3>1, <3>2 DEF StagesOn
  <2>3. CASE state.completed[k] = None /\ state.submitted[k] # None
    <3>1. PICK p : /\ ReadAt(log, pos, "StageSubmitted", p) /\ log[p].key = k
                   /\ log[p].info = state.submitted[k]
      BY <1>1, <2>1, <2>3 DEF Read
    <3>2. InfoOf(k) = log[p].info BY <2>3, <3>1 DEF InfoOf
    <3>3. log[p].info.reports = {} BY <1>2, <3>1, LinesAreSound DEF ReadAt
    <3> QED BY <2>1, <3>2, <3>3
  <2>4. CASE state.completed[k] = None /\ state.submitted[k] = None
    BY <2>1, <2>4 DEF InfoOf, NoInfo
  <2> QED BY <2>2, <2>3, <2>4
<1>4. ASSUME NEW p \in StagesOn(id)
      PROVE  log[p].key \in Reporting(id) /\ InfoOf(log[p].key) = log[p].info
  <2>1. p \in 1 .. pos /\ log[p].ev = "StageCompleted" /\ id \in log[p].info.reports
    BY DEF StagesOn
  <2>2. log[p] \in Event BY <1>2, <2>1, LinesAreSound
  <2>3. log[p].key \in Keys BY <2>1, <2>2, KeyType DEF OfAStage
  <2>4. log[p].key \in SeenKeys /\ InfoOf(log[p].key) = log[p].info
    BY <2>1, <2>3, CompletionIsRead
  <2> QED BY <2>1, <2>4 DEF Reporting
<1> QED BY <1>3, <1>4

LEMMA StageReadingWins ==
  ASSUME Informed, NEW id \in AccIds, StagesOn(id) # {}
  PROVE  AccumulatorOf(id) = LastAt(StagesOn(id))
<1>1. Ledger BY DEF Informed, Complete
<1>2. /\ pos \in Nat /\ \A p \in 1 .. pos : p \in DOMAIN log /\ p \in Nat
  BY <1>1 DEF Ledger, TypeOK
<1>3. StagesOn(id) \in SUBSET (1 .. pos) BY DEF StagesOn
<1>4. PICK p \in StagesOn(id) : (\A q \in StagesOn(id) : q <= p)
                                /\ LastAt(StagesOn(id)) = log[p].at
  BY <1>2, <1>3, TheLast
<1> DEFINE k == log[p].key
<1>5. k \in Reporting(id) /\ InfoOf(k) = log[p].info BY WhoReports
<1>6. /\ \A q \in StagesOn(id) : q \in 1 .. pos /\ log[q].ev = "StageCompleted"
                                 /\ id \in log[q].info.reports
      /\ \A l \in Reporting(id) : l \in Keys
  BY DEF StagesOn, Reporting, SeenKeys
<1>7. ASSUME NEW l \in Reporting(id), l # k
      PROVE  KeyBefore(l, k) /\ ~KeyBefore(k, l)
  <2>1. PICK q \in StagesOn(id) : log[q].key = l BY WhoReports
  <2>2. p \in DOMAIN log /\ q \in DOMAIN log /\ p \in Nat /\ q \in Nat BY <1>2, <1>6
  <2>3. q < p BY <1>4, <1>7, <2>1, <2>2
  <2>4. id \in Reports[k[1]] /\ id \in Reports[l[1]] BY <1>6, <2>1, <2>2, LinesAreSound
  <2>5. k \in Keys /\ l \in Keys BY <1>5, <1>6
  <2>6. k[1] \in Stages /\ l[1] \in Stages /\ k[2] \in Nat /\ l[2] \in Nat
    BY <2>5, KeyType
  <2>7. k[1] = l[1] /\ k[1] \in Nat BY <2>4, <2>6, ConstantsAssumption
  <2>8. l[2] < k[2] BY <1>6, <2>1, <2>2, <2>3, <2>7, LinesAreSound
  <2> QED BY <2>6, <2>7, <2>8 DEF KeyBefore
<1>8. ~KeyBefore(k, k)
  <2>1. k \in Keys BY <1>5, <1>6
  <2>2. k[1] \in Nat /\ k[2] \in Nat BY <2>1, KeyType, ConstantsAssumption
  <2> QED BY <2>2 DEF KeyBefore
<1> DEFINE Last(m) == \A l \in Reporting(id) : ~KeyBefore(m, l)
<1> HIDE DEF k
<1>9. Last(k) BY <1>7, <1>8
<1>10. \A m \in Reporting(id) : Last(m) => m = k BY <1>5, <1>7
<1>11. (CHOOSE m \in Reporting(id) : Last(m)) = k BY <1>5, <1>9, <1>10
<1>12. AccumulatorOf(id) = InfoOf(k).completion
  BY <1>5, <1>11 DEF AccumulatorOf, Reporting
<1>13. log[p].info.completion = log[p].at BY <1>2, <1>6, LinesAreSound
<1> QED BY <1>4, <1>5, <1>12, <1>13

LEMMA DriverReadingWins ==
  ASSUME Informed, NEW id \in AccIds, StagesOn(id) = {}
  PROVE  AccumulatorOf(id) = IF DriversOn(id) # {} THEN LastAt(DriversOn(id)) ELSE 0
<1>1. Ledger /\ Read BY DEF Informed, Complete
<1>2. pos \in Nat /\ state \in Known /\ \A p \in 1 .. pos : p \in DOMAIN log
  BY <1>1 DEF Ledger, TypeOK
<1>3. Reporting(id) = {} BY WhoReports
<1>4. AccumulatorOf(id) = state.driver[id] BY <1>3 DEF AccumulatorOf, Reporting
<1>5. state.driver[id] # 0 => \E p \in DriversOn(id) : log[p].at = state.driver[id]
  BY <1>1 DEF Read, ReadAt, DriversOn
<1>6. CASE DriversOn(id) = {} BY <1>4, <1>5, <1>6
<1>7. CASE DriversOn(id) # {}
  <2>1. DriversOn(id) \in SUBSET (1 .. pos) BY DEF DriversOn
  <2>2. PICK p \in DriversOn(id) : (\A q \in DriversOn(id) : q <= p)
                                   /\ LastAt(DriversOn(id)) = log[p].at
    BY <1>2, <1>7, <2>1, TheLast
  <2>3. p \in DOMAIN log /\ log[p].at \in Nat /\ log[p].at # 0
    BY <1>2, <2>1, LinesAreSound
  <2>4. log[p].at <= state.driver[id] BY <1>1 DEF Read, ReadAt, DriversOn
  <2>5. state.driver[id] \in Nat BY <1>2 DEF Known
  <2>6. PICK q \in DriversOn(id) : log[q].at = state.driver[id]
    BY <1>5, <2>3, <2>4, <2>5
  <2>7. q \in DOMAIN log /\ q \in Nat /\ p \in Nat /\ q <= p BY <1>2, <2>1, <2>2
  <2>8. log[q].at <= log[p].at BY <2>3, <2>5, <2>6, <2>7, LinesAreSound
  <2> QED BY <1>4, <1>7, <2>2, <2>3, <2>4, <2>5, <2>6, <2>8
<1> QED BY <1>6, <1>7

(* An accumulator reads as the last stage line reporting it, and as the    *)
(* driver's last update only when none does, although build walks stages   *)
(* by key and not as their lines came, and driver updates before stages.   *)
THEOREM LatestReadingIsKept == Spec => []LatestReadingWins
<1>1. Init => Informed BY InformedInit
<1>2. Informed /\ [Next]_vars => Informed' BY InformedStep
<1>3. Informed => LatestReadingWins
  <2> SUFFICES ASSUME Informed, phase = "built", NEW id \in AccIds
               PROVE  app.accumulators[id]
                        = IF StagesOn(id) # {} THEN LastAt(StagesOn(id))
                          ELSE IF DriversOn(id) # {} THEN LastAt(DriversOn(id))
                          ELSE 0
    BY DEF LatestReadingWins, StagesOn, DriversOn
  <2>1. app.accumulators[id] = AccumulatorOf(id) BY DEF Informed, Final, Application
  <2> QED BY <2>1, StageReadingWins, DriverReadingWins
<1> QED BY <1>1, <1>2, <1>3, PTL DEF Spec

-----------------------------------------------------------------------------
(* A log handed over again when it is longer.                              *)

(* A submission shows no end: a record with one is the completion's.       *)
LEMMA EndsAreOfCompletions ==
  ASSUME Informed, NEW k \in Keys, InfoOf(k).completion # 0
  PROVE  state.completed[k] # None /\ InfoOf(k) = state.completed[k]
<1>1. CASE state.completed[k] # None BY <1>1 DEF InfoOf
<1>2. CASE state.completed[k] = None /\ state.submitted[k] # None
  <2>1. Read /\ Ledger BY DEF Informed, Complete
  <2>2. PICK p : /\ ReadAt(log, pos, "StageSubmitted", p) /\ log[p].key = k
                 /\ log[p].info = state.submitted[k]
    BY <1>2, <2>1 DEF Read
  <2>3. p \in DOMAIN log /\ log[p].ev = "StageSubmitted"
    BY <2>1, <2>2 DEF ReadAt, Ledger, TypeOK
  <2>4. log[p].info.completion = 0 BY <2>3, LinesAreSound
  <2>5. InfoOf(k) = log[p].info BY <1>2, <2>2 DEF InfoOf
  <2> QED BY <2>4, <2>5
<1>3. CASE state.completed[k] = None /\ state.submitted[k] = None
  BY <1>3 DEF InfoOf, NoInfo
<1> QED BY <1>1, <1>2, <1>3

(* The tasks of a stage in the answer are those held for it.               *)
AnsweredAsHeld ==
  \A k \in Keys :
    LET held == state.tasks[k]
        t    == StageFrom(k).tasks
    IN  {t[i] : i \in DOMAIN t} = {held[i] : i \in DOMAIN held}

LEMMA AnsweredTasks == Ledger => AnsweredAsHeld
<1> SUFFICES ASSUME Ledger, NEW k \in Keys
             PROVE  LET held == state.tasks[k]
                        t    == StageFrom(k).tasks
                    IN  {t[i] : i \in DOMAIN t} = {held[i] : i \in DOMAIN held}
  BY DEF AnsweredAsHeld
<1> DEFINE held == state.tasks[k]
<1>1. held \in Seq(Task) BY DEF Ledger, TypeOK, Known
<1>2. \A i, j \in DOMAIN held : i < j => held[i].at < held[j].at
  BY DEF Ledger, TasksConserved, InOrderOfEnding
<1>3. StageFrom(k).tasks = SortedByIndex(held) BY DEF StageFrom
<1> HIDE DEF held
<1>4. LET t == SortedByIndex(held) IN
      {t[i] : i \in DOMAIN t} = {held[i] : i \in DOMAIN held}
  BY <1>1, <1>2, SortedIsStable
<1> QED BY <1>3, <1>4 DEF held

(* A step that forgets nothing the reader holds.                           *)
ForgetsNothing ==
  /\ state.start # 0 => state'.start # 0
  /\ \A k \in Keys :
       /\ state.submitted[k] # None => state'.submitted[k] # None
       /\ state.completed[k] # None => state'.completed[k] = state.completed[k]
       /\ \A i \in DOMAIN state.tasks[k] :
            \E j \in DOMAIN state'.tasks[k] : state'.tasks[k][j] = state.tasks[k][i]

LEMMA NothingIsTakenBack ==
  ASSUME Informed, Informed', ForgetsNothing
  PROVE  Keeps(Application, Application')
<1>1. Ledger /\ AnsweredAsHeld /\ AnsweredAsHeld'
  <2>1. Ledger /\ Ledger' BY DEF Informed, Complete
  <2> QED BY <2>1, AnsweredTasks, PTL
<1>2. /\ Application.start = state.start /\ Application'.start = state'.start
      /\ Application.stages = [k \in SeenKeys |-> StageFrom(k)]
      /\ Application'.stages = [k \in SeenKeys' |-> StageFrom(k)']
  BY DEF Application
<1>3. ASSUME NEW k \in SeenKeys PROVE k \in SeenKeys'
  <2>1. k \in Keys BY DEF SeenKeys
  <2>2. CASE state.tasks[k] # <<>>
    <3>1. state.tasks[k] \in Seq(Task) BY <1>1, <2>1 DEF Ledger, TypeOK, Known
    <3>2. DOMAIN state.tasks[k] # {}
      <4>1. Len(state.tasks[k]) \in Nat \ {0} BY <2>2, <3>1, EmptySeq
      <4>2. DOMAIN state.tasks[k] = 1 .. Len(state.tasks[k]) BY <3>1, LenProperties
      <4>3. 1 \in 1 .. Len(state.tasks[k]) BY <4>1
      <4> QED BY <4>2, <4>3
    <3>3. DOMAIN state'.tasks[k] # {} BY <2>1, <3>2 DEF ForgetsNothing
    <3>4. state'.tasks[k] # <<>> BY <3>3
    <3> QED BY <2>1, <3>4 DEF SeenKeys
  <2>3. CASE state.submitted[k] # None \/ state.completed[k] # None
    BY <2>1, <2>3 DEF SeenKeys, ForgetsNothing
  <2> QED BY <2>2, <2>3 DEF SeenKeys
<1>4. ASSUME NEW k \in SeenKeys
      PROVE  LET was == StageFrom(k)
                 is  == StageFrom(k)'
             IN  {was.tasks[i] : i \in DOMAIN was.tasks}
                   \subseteq {is.tasks[i] : i \in DOMAIN is.tasks}
  <2> DEFINE was == StageFrom(k).tasks
             is == StageFrom(k)'.tasks
             held == state.tasks[k]
             more == state'.tasks[k]
  <2>1. k \in Keys BY DEF SeenKeys
  <2>2. {was[i] : i \in DOMAIN was} = {held[i] : i \in DOMAIN held}
    BY <1>1, <2>1 DEF AnsweredAsHeld
  <2>4. {is[i] : i \in DOMAIN is} = {more[i] : i \in DOMAIN more}
    BY <1>1, <2>1 DEF AnsweredAsHeld
  <2>5. \A i \in DOMAIN held : \E j \in DOMAIN more : more[j] = held[i]
    BY <2>1 DEF ForgetsNothing
  <2> HIDE DEF was, is, held, more
  <2>6. {was[i] : i \in DOMAIN was} \subseteq {is[i] : i \in DOMAIN is}
    BY <2>2, <2>4, <2>5
  <2> QED BY <2>6 DEF was, is
<1>5. ASSUME NEW k \in SeenKeys, StageFrom(k).completion # 0
      PROVE  StageFrom(k) = [StageFrom(k)' EXCEPT !.tasks = StageFrom(k).tasks]
  <2>1. k \in Keys BY DEF SeenKeys
  <2>2. InfoOf(k).completion # 0 BY <1>5 DEF StageFrom
  <2>3. state.completed[k] # None /\ InfoOf(k) = state.completed[k]
    BY <2>1, <2>2, EndsAreOfCompletions
  <2>4. state'.completed[k] # None /\ state'.completed[k] = InfoOf(k)
    BY <2>1, <2>3 DEF ForgetsNothing
  <2>5. InfoOf(k)' = InfoOf(k) BY <2>4 DEF InfoOf
  <2> QED BY <2>5 DEF StageFrom
<1>6. /\ DOMAIN Application.stages = SeenKeys /\ DOMAIN Application'.stages = SeenKeys'
      /\ \A k \in SeenKeys : /\ Application.stages[k] = StageFrom(k)
                             /\ Application'.stages[k] = StageFrom(k)'
  BY <1>2, <1>3
<1>7. Application.start # 0 => Application'.start # 0 BY <1>2 DEF ForgetsNothing
<1> QED
  <2> DEFINE before == Application
             after  == Application'
  <2>1. before.start # 0 => after.start # 0 BY <1>7
  <2>2. DOMAIN before.stages \subseteq DOMAIN after.stages BY <1>3, <1>6
  <2>3. ASSUME NEW k \in DOMAIN before.stages
        PROVE  LET was == before.stages[k]
                   is  == after.stages[k]
               IN  /\ {was.tasks[i] : i \in DOMAIN was.tasks}
                        \subseteq {is.tasks[i] : i \in DOMAIN is.tasks}
                   /\ was.completion # 0 => was = [is EXCEPT !.tasks = was.tasks]
    <3>1. k \in SeenKeys /\ before.stages[k] = StageFrom(k) /\ after.stages[k] = StageFrom(k)'
      BY <1>6
    <3> HIDE DEF before, after
    <3> QED BY <1>4, <1>5, <3>1
  <2> QED BY <2>1, <2>2, <2>3 DEF Keeps

(* No line read twice: a completion is not written over by another.        *)
LEMMA CompletionIsNew ==
  ASSUME Informed, StageCompleted
  PROVE  Line.key \in Keys /\ state.completed[Line.key] = None
<1>1. /\ pos \in Nat /\ pos + 1 \in DOMAIN log /\ Line = log[pos + 1]
      /\ Line.ev = "StageCompleted" /\ \A p \in 1 .. pos : p \in DOMAIN log /\ p < pos + 1
  BY DEF StageCompleted, Take, Line, Informed, Complete, Ledger, TypeOK
<1>2. Line.key \in Keys
  <2>1. Line \in Event BY <1>1, LinesAreSound
  <2> QED BY <1>1, <2>1, KeyType DEF OfAStage
<1>3. ASSUME state.completed[Line.key] # None PROVE FALSE
  <2>1. PICK p \in 1 .. pos : log[p].ev = "StageCompleted" /\ log[p].key = Line.key
    BY <1>2, <1>3, CompletionIsRead
  <2>2. log[p].key[2] < Line.key[2] BY <1>1, <2>1, LinesAreSound
  <2>3. Line.key[2] \in Nat BY <1>2, KeyType
  <2> QED BY <2>1, <2>2, <2>3
<1> QED BY <1>2, <1>3

LEMMA StepForgetsNothing ==
  ASSUME Informed, Next PROVE ForgetsNothing
<1>0. state \in Known BY DEF Informed, Complete, Ledger, TypeOK
<1>1. CASE state' = state BY <1>1 DEF ForgetsNothing
<1>2. CASE ApplicationStart
  <2>1. pos + 1 \in DOMAIN log /\ Line = log[pos + 1]
    BY <1>2 DEF ApplicationStart, Take, Line, Informed, Complete, Ledger, TypeOK
  <2>2. Line.at # 0 BY <2>1, LinesAreSound
  <2>3. /\ state'.start = Line.at /\ state'.submitted = state.submitted
        /\ state'.completed = state.completed /\ state'.tasks = state.tasks
    BY <1>0, <1>2 DEF ApplicationStart, Take, Known
  <2> QED BY <2>2, <2>3 DEF ForgetsNothing
<1>3. CASE StageSubmitted
  <2>1. Line \in Event /\ Line.ev = "StageSubmitted"
    BY <1>3, LineType DEF StageSubmitted, Take, Informed, Complete, Ledger
  <2>2. /\ Line.key \in Keys /\ Line.info # None
        /\ state'.start = state.start /\ state'.completed = state.completed
        /\ state'.tasks = state.tasks
        /\ state'.submitted = [state.submitted EXCEPT ![Line.key] = Line.info]
    BY <1>0, <1>3, <2>1, NoneAssumption DEF StageSubmitted, Take, Known, Event
  <2>3. \A k \in Keys : state'.submitted[k]
                          = IF k = Line.key THEN Line.info ELSE state.submitted[k]
    BY <1>0, <2>2 DEF Known
  <2> QED BY <2>2, <2>3 DEF ForgetsNothing
<1>4. CASE StageCompleted
  <2>1. Line.key \in Keys /\ state.completed[Line.key] = None
    BY <1>4, CompletionIsNew
  <2>2. /\ state'.start = state.start /\ state'.submitted = state.submitted
        /\ state'.tasks = state.tasks
        /\ state'.completed = [state.completed EXCEPT ![Line.key] = Line.info]
    BY <1>0, <1>4 DEF StageCompleted, Take, Known
  <2>3. \A k \in Keys : k # Line.key => state'.completed[k] = state.completed[k]
    BY <1>0, <2>2 DEF Known
  <2> QED BY <2>1, <2>2, <2>3 DEF ForgetsNothing
<1>5. CASE TaskEnd
  <2>1. Line \in Event /\ Line.ev = "TaskEnd"
    BY <1>5, LineType DEF TaskEnd, Take, Informed, Complete, Ledger
  <2> DEFINE key == Line.key
             old == state.tasks[key]
             new == TaskOf(Line)
  <2>2. key \in Keys BY <2>1, KeyType
  <2>3. /\ state'.start = state.start /\ state'.submitted = state.submitted
        /\ state'.completed = state.completed
        /\ state'.tasks = [state.tasks EXCEPT ![key] = Append(old, new)]
    BY <1>0, <1>5 DEF TaskEnd, Take, TaskKey, Known
  <2>4. /\ state'.tasks[key] = Append(old, new)
        /\ \A k \in Keys : k # key => state'.tasks[k] = state.tasks[k]
    BY <1>0, <2>2, <2>3 DEF Known
  <2>5. old \in Seq(Task) BY <1>0, <2>2 DEF Known
  <2> HIDE DEF key, new
  <2>6. \A i \in DOMAIN old : i \in DOMAIN Append(old, new) /\ Append(old, new)[i] = old[i]
    <3> HIDE DEF old
    <3> QED BY <2>5
  <2>7. ASSUME NEW k \in Keys, NEW i \in DOMAIN state.tasks[k]
        PROVE  \E j \in DOMAIN state'.tasks[k] : state'.tasks[k][j] = state.tasks[k][i]
    <3>1. CASE k = key BY <2>4, <2>6, <3>1
    <3>2. CASE k # key BY <2>4, <3>2
    <3> QED BY <3>1, <3>2
  <2> QED BY <2>3, <2>7 DEF ForgetsNothing
<1>6. CASE ~(ApplicationStart \/ StageSubmitted \/ StageCompleted \/ TaskEnd) /\ state' # state
  <2>1. /\ state'.start = state.start /\ state'.submitted = state.submitted
        /\ state'.completed = state.completed /\ state'.tasks = state.tasks
    BY <1>0, <1>6
       DEF Next, Write, readerVars, ReaderNext, ApplicationEnd, EnvironmentUpdate,
           ExecutorAdded, ResourceProfileAdded, SQLExecutionStart, DriverAccumUpdates,
           JobStart, JobEnd, TaskEndRaises, Skip, Refuse, Finish, Unreadable, Take, Known
  <2> QED BY <2>1 DEF ForgetsNothing
<1> QED BY <1>1, <1>2, <1>3, <1>4, <1>5, <1>6

(* What an unfinished log is answered with is never taken back by a longer *)
(* one: build answers it still, with every stage and task it had and each  *)
(* completed stage's record as it was, whatever came or was dropped since. *)
THEOREM LongerLogsKeepTheAnswer == Spec => LongerLogKeepsTheAnswer
<1>1. Init => Informed BY InformedInit
<1>2. Informed /\ [Next]_vars => Informed' BY InformedStep
<1>3. Informed /\ Informed' /\ [Next]_vars
        => [phase = "reading" => Keeps(Application, Application')]_vars
  BY StepForgetsNothing, NothingIsTakenBack
<1> QED BY <1>1, <1>2, <1>3, PTL DEF Spec, LongerLogKeepsTheAnswer
=============================================================================
