# A TLA+ model of spark-job-profiler

`sjp` reads the event log of one Spark application, builds a model of its jobs,
stages and tasks, and answers questions about it: which stages skewed, what
spilled, how a shuffle should be sized. `scripts/benchmark.py` runs the sample
jobs over and over to find out whether a change of layout was worth anything.
This directory holds TLA+ modules of the parts where something can go wrong
between two steps, the TLC configurations that check them on small instances,
and TLAPS proofs of what matters most for instances of any size.

Paths below are relative to the repository (`src/` in the maps of
`PROJECT.json`).

## 1. Inventory

| Component | State it keeps | Operations | Talks to | What is hard |
|---|---|---|---|---|
| `sjp/eventlog.py`, `sjp/model.py`: reader and `build` | position in the file; `_Build` (jobs, submissions, completions, tasks by stage attempt, driver accumulators, plans, cores); the frozen `Application` | one handler per listener event, then `build`'s end | the log Spark is writing; every command reads its `Application` | interleaved attempts and siblings, retries, dropped events, truncated and half-written logs, executors lost |
| `sjp/eventlog.py`: `inventory` | none | list a store, count each file's events, say which events no handler will find | the directory captures write and rename in | a file that grew, was renamed or cannot be read between the listing and its turn |
| `sjp/skew.py` | none (pure) | `judge`, `scan`, `counts`, `exit_status`, `ranked`, `worst`, `refuse_unmeasured` | `Stage` values; the skew command | zero medians, short stages, floors, ties; two orderings of one list |
| `sjp/cli.py`, `sjp/commands.py` | output buffer, exit status | `main`, one function per command | everything; the shell's pipe | the pipe cut at any line, the status being read as an answer |
| `sjp/bench.py` | none (pure) | `schedule`, `p_floor`, `permutation_p`, `verdict`, comparability of passes | event logs of the runs; the driver | unequal counts, ties, fairness of the order |
| `scripts/benchmark.py` | `manifest.json`, the directory of logs, the driver's memory, a child process | `do_run`, `run_once`, `load`, `save`, `do_report` | one child (`jobs/sample.py`) per run | killed drivers, orphaned children, failing children, a schedule split over invocations |
| `jobs/sample.py` | a Spark session, its event log, the names it found before | `run` | the log directory | two captures into one directory, one that dies or raises half way |
| `sjp/plan.py`, `sjp/layout.py` | none (pure) | plan tree reader; shuffle sizing, candidates, decisions, the report and its status | plans, accumulators and stages of the `Application`; whoever sets `spark.sql.shuffle.partitions` by it | stages found by byte counts, retried stages, lost values, nested joins, several advices for one property, rounding, advice that is taken and read again |
| `sjp/memory.py` | none (pure) | spill per stage attempt, pressure report and its status | `Stage` values | several attempts of a stage, skipped ids, tasks that end late or never reach the log |
| `sjp/contract.py` | two snapshots of a store, the names of the guilty | run every read command and compare | the command registry | another writer in the same store, a file renamed under a snapshot |
| other `scripts/` | none | print measurements | committed logs | nothing: sequential |

What makes each correct:

* *reader*: no task lost, doubled or filed under another attempt; the answer has
  every stage some line speaks of; a refusal is about what the log really lacks;
  of an accumulator's readings the one kept is the last completion's of the one stage
  that reports it, even when the driver updated it later, and the driver's last update
  when no stage does; a log handed over again longer takes nothing of an answer back.
* *skew*: nothing is decided that cannot be reached; an unbounded ratio means a
  majority of zeros; more skew is never judged less skewed; the summary and the
  body name the same stage.
* *command*: exit 0 and 1 mean a whole answer was delivered (the 0 of `--help`
  apart); a refusal or a crash is never read as an answer; the status is of the
  whole scan.
* *benchmark arithmetic*: no arm is favoured by the order wherever the schedule
  is cut; the floor is a floor; a verdict does not depend on which arm is called
  the baseline.
* *benchmark driver*: a schedule over any number of invocations is as good as
  one; a run's time and log are its own child's; success means complete; running
  the command again gets there.
* *layout*: exchanges put under one count really share it; a target keeps every
  slot busy and is the smallest that fits; a cut is argued against for the hot key
  of the stage that reads it; the status agrees with what was printed; advice that
  is taken stays taken; a shuffle said to be saved fed that join.
* *store*: a capture returns its own log, or says it cannot; an inventory tells
  the truth of the time it took, and one unreadable log does not hide the rest.
* *contract check*: whoever changed the store is named, for what it changed, and
  nobody else is unless another process was writing.
* *spill*: a job that spilled is never clean again; a peak is printed under the
  stage it is of; the totals tell of a task whose line was lost.

The hazards these properties are for are listed, each at its line, in
`PROJECT.json` under "hazards".

## 2. Modules

```
SparkLog <- Profile <- MCProfile             Bench <- BenchReadings <- MCBenchReadings
                    <- ProfileProofs               <- SplitRun
Skew <- SkewGrowth  <- MCSkewGrowth                <- Benchmark <- MCBenchmark
                    <- SkewGrowthProofs              (INSTANCE SplitRun)
     <- SkewCommand <- MCSkewCommand         BenchReadings, Benchmark <- BenchmarkProofs
                    <- SkewCommandProofs
Plan <- Layout <- Tuning <- MCTuning         Store <- Inventory <- Contract <- MCContract
                         <- LayoutProofs                                    <- StoreProofs
Memory <- Spill <- MCSpill
                <- SpillProofs
```

Every `...Proofs` module also extends **Counting**, which models nothing: it
has the lemmas on numbers, orders and sums that several proofs need.

**SparkLog** is the environment, not the repository: one application posting
listener events (`posted`) and the lines that reach its log (`log`). Its stages
have attempts, its tasks have tries, executors come and go, the bus may drop an
event, and the process may stop at any point. It is written from what the
handlers of `model.py` read and from the logs in `tests/fixtures`. Every
measured number (an instant, a byte count, an accumulator value) is the number
of the event that carried it, so no two are alike and the profiler cannot
mistake one for another unnoticed.

**Profile** is `model.build`. `pos` is how far the file has been read, `state`
is `_Build` field by field, `phase` how `build` ended and `app` the
`Application`. There is one action per handler (`JobStart` is `_job_start`, and
so on), `Skip` for an event nobody handles, `TaskEndRaises` for a task whose
metrics are null, and the three ends of `build`: `Refuse` (`UnexpectedLog`),
`Finish`, and `Unreadable` (a line that is not JSON, raised by `read_events`).
`Write` lets the application go on writing while it is read. What
`commands.stage_lines` needs of the answer is `StagesRenders`.

**Skew** is `skew.py` as operators: medians are kept doubled and ratios are
fractions, so nothing is rounded; an infinite ratio is 1/0, and 8/2 and 4/1 are the
same ratio (`SameRatio`). Lists are cut down by comprehensions over places
(`AtPlaces`). **SkewGrowth**
judges one stage's values again and again while tasks end and the hot task
grows. **SkewCommand** is `cli.main` around `skew_command`: parse, refuse,
profile, one verdict at a time, one printed line at a time through a buffer
into a pipe whose reader may leave, and the final flush inside `main`'s `try`.
`--help` and a usage error leave by argparse's `SystemExit`; help that nobody reads
fails at the interpreter's own last flush (120). `Answers` are the exits with 0 or 1
that are not of a `--help`.

**Bench** is `bench.py`: the arithmetic with exact fractions, and what is read of
one pass (`WorkShape`, `WorstStage`, `CarryingStage`). **BenchReadings** records a
two-arm schedule's runs one by one and asks what a report would say after each;
a run's log may show the stages in another order, with rows missing, with a stage tried
again, or with the same counts of rows read by other parts of the query.
A stage there carries `of`, the part of the query it ran, which the code does not
see: `ComparedDidTheSameWork` compares the two, as bags (`WorkOf`), and promises that
different work is refused where a count of rows tells the part it is of
(`RowsTellThePart`), which is as far as `work_shape` can see. **SplitRun** states what
the manifest promises: one warmup and the schedule's runs in order, or a manifest that
cannot be read any more.
**Benchmark** is `scripts/benchmark.py`: the driver's steps (`Load`, `List`,
`Spawn`, `Collect`, `Truncate`, `Write`, `Stop`), its children, each with a log
whose name goes from nothing to `.inprogress` to final, and `Kill`, which ends a
driver anywhere and leaves its child running. Truncating and writing the
manifest are two steps because `save` opens the file with `"w"` and then dumps.
A process's memory (`held`, `before`, `limit`, `done`) is reset when it ends.
`run.seconds` holds the number of the child that was timed, so "its own log"
is `run.log = run.seconds`.

**Plan** is `plan.py` over a tree whose nodes are numbered the way `walk` meets
them: exchanges, joins, the exchange that fed a side, and who chose a count.
**Layout** is `layout.py` as operators over one `Application`: the stage that wrote
an exchange's bytes and the one that read them, both found by byte counts,
`decisions`, `size_of`, `advise_decision`, `candidates`, and the two passes over
the plans that print (`Report`) and count (`Actionable`). **Tuning** is the loop
these serve. `RunQuery` is Spark: it executes the query, may retry a stage, lose an
accumulator value or log no executor. `LayoutCommand` and `LayoutCommandRaises` are
`layout_command`, `TakeAdvice` puts an advised count into the configuration and
`RunAgain` leaves it. What Spark did is known there apart from what the code infers
(`Reader`, `Wrote`, `ReaderIsHot`), and the properties compare the two.

**Store** is the directory and the processes of `sample.run` in it: list (`Before`),
let Spark open `<application>.inprogress`, write and rename (`OpenLog`,
`WriteLine`, `StopSession`, `JobRaises`), list again and return the last new name
(`Return`), or die anywhere (`Die`). File names are numbers in the order they sort,
since `sorted(...)[-1]` and the readers' loops depend on that order and nothing else.
**Inventory** steps `inventory` through that directory file by file (`ListLogs`,
`ReadLog`, `InventoryAnswers`), and the commands that profile one log of it
(`FirstLog`, `ProfileLog`). **Contract** runs one command by itself, or the whole
of `reads_that_touched_the_store` over a registry: `Take`, a snapshot file by file
(`ReadFile`), the command, a second snapshot, `Compare`. The misbehaving commands
are those `tests/test_contract_checks.py` uses as controls (`Misbehave`). `held`,
`marks`, `stirred` and `excused` are history variables: what the store was when an
inventory listed it, what each command of the registry changed itself, and whether
somebody else wrote between the two snapshots of a command.

**Memory** is `memory.py` as operators over stage attempts, with the two things
`pressure_lines` cannot print, and `Stage`'s totals against its tasks. **Spill** grows
the log it is asked of: attempts are submitted, retried and completed, tasks end
before and after their stage's completion, lines are dropped. `late`, `lost` and
`found` are history variables.

Definitions marked *Slip* in the comments are plausible mistakes in the code
they stand next to. They are used nowhere in the specifications; each property
was seen to fail when the definition it depends on is replaced by one of them
(the "mutants" of `PROJECT.json`).

## 3. Runs

| Run | Checks | Bounds and why they are enough |
|---|---|---|
| `profile_retries` | `TasksConserved`, `StagesCarryTheirTasks`, `RefusalIsHonest`, `LongerLogKeepsTheAnswer` | one stage, two attempts of up to two tasks with two tries, one of its stage events dropped, every prefix of the log: attempts interleave, tries end out of order, a late task of a failed attempt arrives after its completion |
| `profile_siblings` | `TypeOK`, `SucceededJobShowsItsStages`, `LatestReadingWins` | two jobs of one stage each, overlapping; an accumulator that two attempts of a stage report and the driver updates before or after |
| `profile_slots` | `SlotsCanRun` (refuted) | two executors, one after the other |
| `profile_truncated` | `StagesReportsWhateverIsThere` (refuted) | one stage, any prefix |
| `skew_growth` | `ReachableOnlyFromThree`, `UnboundedIsMajorityZero`, `HotterNeverCooler`, `IdleTaskNeverClears` | every list of up to five of six values, a negative one, zero, and values either side of the floor: both parities of the median and every way round the floor and threshold |
| `skew_command` | `AnswerWasDelivered`, `StatusIsOfTheWholeScan`, `BodyLeadsWithTheWorst`, `Exits` | logs of up to two stages and an unreadable one, metric lists with and without an unmeasurable name, no `--only` and two of them, a meaningless threshold, a usage error, `--help`, a buffer shorter than the report, the pipe closed at any step |
| `layout_tuning` | `TypeOK`, `OneDecisionOneCount`, `CutsKnowTheirReader`, `StatusIsWhatWasPrinted`, `TargetsFit`, `AdviceSettles`, `SavedShuffleFedTheJoin` | eleven queries of up to four exchanges (the sample jobs, a column repartition, an unknown origin, sides that write nothing or the same, a round robin beside a hash, a global aggregate, joins of joins with and without an exchange between, a broadcast side), from 1 or 8 partitions, two slots or none, run up to twice in one application or not at all, with one stage retried or one value lost, and at most one stage with a hot key |
| `layout_fixed_count` | `AdviceCanBeTaken` (refuted) | the same |
| `bench_readings` | `Rotates`, `FloorIsTheSmallest`, `OnFloorMeansApart`, `EitherArmAsBaseline`, `ComparedDidTheSameWork` | four passes of two arms, three wall times, every report in between; four against four is the smallest size at which any p is offered. One run (`MaxOdd`) whose log shows the two sides of the join the other way round, fewer rows, a side tried again with fewer rows or as many, or sides with each other's rows |
| `store_contract` | `ReturnsItsOwnOrAYounger`, `InventoryIsOfItsTime`, `AbortsOnlyForARename`, `NamedForATrace`, `Ends` | two captures of a two line log (so a log is caught empty, at half a line, and with an event missing), one of which dies or raises (`MaxDeaths`), beside one command over an empty, an ordinary or an unreadable store; one capture beside the check of a registry of up to three commands: clean ones, ones that plant a file, make a directory, rewrite or restore one, a write, and a read that cannot be driven |
| `spill_growth` | `OnceSpilledNeverClean`, `PeakIsOfTheStage`, `TotalsCatchALoss` | two stages after a skipped id, one retried, three task ends (`MaxEnds`) of five sizes, one of them dropped (`MaxDrops`): two attempts and a loss, or three tasks of one attempt, are the most a property relates |
| `benchmark_resumed` | `TypeOK`, `OwnLogs`, `CompleteMeansDone`, `ImplementsSplitRun`, `Completes` | two passes of two arms run one at a time or to the end, one driver killed anywhere with its child left writing, one child failing in each of the ways it can; more kills only repeat the same interference, and the proofs below cover them |

The constants `MaxPosted`, `MaxAttempts`, `MaxTries`, `Partitions`, `MaxPlans`,
`MaxDriver`, `MaxDrops`, `MaxTasks`, `MaxCrashes`, `MaxFailures`, `MaxOdd`, `MaxDeaths`
and `MaxEnds` are the bounds, all on the environment: nothing the code does is capped by them.
`CHECK_DEADLOCK FALSE` is set where the modelled program ends.

`HotterNeverCooler`, `UnboundedIsMajorityZero` and `ReachableOnlyFromThree` ask
for values that are not negative. `outside_run_time` is a difference of clocks
and may be negative; then the median can be zero with no majority of zeros, and
the text `judge` gives ("more than half the tasks read zero") is untrue.
`IdleTaskNeverClears` has no such premise, and the run's values include a negative
one.

### Fairness

* `SkewCommand`: `WF(Command)`, a running process; nothing obliges the pipe's reader
  to do anything, so it has none.
* `Benchmark`: `WF(Driver)` and `WF` of children making progress, which are
  running processes, and `WF` of the command being run again while it has not
  exited 0, which is how its own documentation says a long schedule is split.
  Nothing obliges anybody to kill a driver or a child to fail.
* `Contract`: `WF` of the check and the command it runs, one running process. The
  captures have none: `Ends` holds though a capture may stop anywhere or be busy
  at every step, because a snapshot and an inventory read a list fixed when they began.

`Profile` has no liveness property: `build` is a loop over the lines of a file, and that
it ends is true of any loop over a bounded file.

## 4. What the checks found

* `profile_slots`: `Application.slots` adds every executor that ever joined. After
  one is replaced it counts tasks that could never run at once.
* `profile_truncated`: `sjp stages` cannot print a log with a stage that was
  never completed, or with no application end, though the limitations say it
  reports what is there.
* `layout_fixed_count`: a `SinglePartition` exchange has the origin of those the
  configuration decides, so every global aggregate on two slots is told to use two
  partitions, which nobody can do; the module says it never recommends such a count.

Met while modelling, and allowed for in what the properties say rather than refuted
by a run of their own:

* Capture: one may return the log of another that began after it in the same directory,
  though `sample.run` says it returns the file it produced (`ReturnsItsOwnOrAYounger`).
* Inventory: a log renamed between the listing and its turn raises out of `inventory`,
  which says that aborting would hide every log after it; a file that is not UTF-8 or
  holds JSON that is no object does the same. `AbortsOnlyForARename` says that nothing
  but these causes does.
* Contract: a snapshot raises on the same rename, and a read that did nothing is named
  when another process wrote between its two snapshots.
* Benchmark: a driver killed while saving loses the whole manifest (`Lose` of
  SplitRun, which allows it: `ImplementsSplitRun` says what a split schedule is worth
  apart from that); `2 / comb(n + m, n)` counts the observed split and its mirror image
  and is a floor for equal counts only, as `FloorIsTheSmallest` says it, so with four and
  three readings a p of 1/35 is withheld as impossible; a manifest is resumed with other
  arguments unseen; a report of one in which an arm has no run yet divides by zero; one
  retried stage makes all passes "not comparable".
* Spill: the peak printed for a retried stage is its first attempt's on every
  attempt's lines; a stage that spilled only to one side, or whose first attempt has no
  tasks, makes `sjp spill` raise, and the status is 3 where the doc says 1 means it
  spilled; a task that ends after its stage's completion can hide one that was lost.

Elsewhere: null task metrics stop `build`; which of two tied metrics of a stage is named
worst depends on the order they were asked for. Of `layout.py`: exchanges that feed
different stages get a target each, and they can differ, for the one
`spark.sql.shuffle.partitions`; broadcasting is still advised of a side that is
broadcast already; in a join of joins with no exchange between, the shuffle said to be
saved may be one another join still needs; a stage that was retried wrote its bytes in
parts, which can match another exchange's count. `AdviceSettles`,
`SavedShuffleFedTheJoin`, `OneDecisionOneCount` and `CutsKnowTheirReader` say in their
premises which of these they leave out.

## 5. What is proved

Every safety invariant and action property of the passing runs is a theorem for every
value of the constants. `Counting` supplies what the proofs share: general facts, which
say nothing of the program by themselves. The library states induction with an operator
for a parameter, which the provers cannot instantiate; `InductionOverNat` states it of
sets of naturals, from the well-foundedness of their order, and that is enough for a sum
over a list (`SumsExist`, `SumsAgree`, `SumsGrow`), the place of an element in a finite
order (`RankFollowsOrder`, `RanksAreTaken`, `NumbersBySize`), the k-th smallest value
(`SomeKth`), induction over the subsets of a finite set (`OneMemberMore`) and the
recursive functions of `plan.py`'s and `memory.py`'s models.

`ProfileProofs`, for any stages, jobs, attempts, tries, executors and drops, from
`NoneAssumption` and `ConstantsAssumption`. The latter says that an accumulator is
reported by one stage's tasks only, as Spark registers them and as the committed logs
have it; without it "the latest attempt" that `LatestReadingWins` speaks of is of no one
stage.

* `TypeCorrect`: `Spec => []TypeOK`. What a handler stores has the type of what
  its line carries, and `LineType` gives that from the log's type.
* `TasksAreConserved`: `Spec => []TasksConserved`. It is not inductive alone:
  that tasks are kept in the order they ended needs the order of the log's
  lines. `Ledger` adds `LogInOrder` (later lines carry larger numbers, no line
  one that has not been posted) and `TypeOK`. `TaskEndLedger` is the step that
  matters, `OtherLedger` the handlers that leave tasks alone, `WriteLedger` the
  log growing under the reader.
* `RefusalsAreHonest`: `Spec => []RefusalIsHonest`. `Heard` is the invariant: a line
  read that names the application or a stage has left its mark in what the reader
  keeps (`Marks`), and no later line takes a mark away (`LineHeard`), so a refusal
  for want of one is a statement about every line read.
* `AnswerCarriesItsTasks`: `Spec => []StagesCarryTheirTasks`. `SortedIsStable` is the
  lemma about `_stage_from`'s sort: a task's rank is the number of tasks before it,
  ranks differ and there are as many as tasks, so each is taken, and what comes out is
  what went in, by index and then in the order of ending. `ATaskALine` is a bijection
  between the tasks held and the lines read, from `Ledger`. `Spoken` is the other half
  of `Heard`, nothing is seen that no line spoke of, and with it the stages of the
  answer are those of the lines (`SeenIsSpokenOf`).
* `SucceededJobsAreShown` and `LatestReadingIsKept`: `Spec =>
  []SucceededJobShowsItsStages` and `Spec => []LatestReadingWins`. Both rest on what
  Spark posts and when, so the invariant `Informed` is about the environment too:
  `Sound(posted)` (events are numbered, an attempt completes once and after the attempts
  before it, a job that succeeds has its stages), `LogIsPosted` (the log is what was
  posted, less what was dropped), `Read` (what the state holds is what some line read
  said, and no later line read says otherwise) and `Final` (nothing moves once there is
  an answer). `Sound` also says that a submission shows no end. `WhoReports` then finds
  the reading an attempt's completion carries, and `StageReadingWins` and
  `DriverReadingWins` compare it with the driver's.
* `LongerLogsKeepTheAnswer`: `Spec => LongerLogKeepsTheAnswer`. A handler only adds to
  what the reader holds, except that a stage event replaces an attempt's record
  (`StepForgetsNothing`); what was shown completed is not replaced, because an attempt
  completes once and is submitted before it does (`CompletionIsNew`, from `Informed`).
  `NothingIsTakenBack` carries that over to the answers before and after, in which
  each stage has the tasks held for it, only sorted (`AnsweredTasks`).

`SkewGrowthProofs`, for any values, threshold and number of tasks, from
`GrowthAssumption` (values are integers, the threshold a fraction that is not negative):

* `VerdictIsOfTheValues`: `Spec => []GrowthInv`, which says the verdict in hand is the
  one for the values in hand; the others are about what `judge` makes of two lists.
* `NothingFromTwo` (`ReachableOnlyFromThree`), `UnboundedMeansIdle`
  (`UnboundedIsMajorityZero`), `GrowthNeverCools` (`Spec => HotterNeverCooler`) and
  `IdleNeverClears` (`Spec => IdleTaskNeverClears`). The k-th smallest value is pinned
  down by how many values are below and how many not above it (`KthIs`); one more zero
  pulls the middle down or leaves it (`ZeroPullsTheMiddle`), a larger largest leaves the
  middle alone (`GrowingHeats`), and the arithmetic of ratios does the rest.

`SkewCommandProofs`, for any logs, metrics, filters, thresholds and buffer size, from
`BufferAssumption`, `KindsAssumption` and `CommandAssumption` (what argparse lets
through and what `build` returns):

* `AnswersAreDelivered`: `Spec => []AnswerWasDelivered` (of `Answers`, an exit of 0 or 1
  that is not of a `--help`), and `StatusesAreOfTheScan`:
  `Spec => []StatusIsOfTheWholeScan`. The invariant `CommandInv` says at each phase what
  has been judged of the whole scan (`Judged`), that the lines delivered and buffered are
  the report so far (`Spoken`), and what holds of an exit code (`Closing`). `ScanIs` takes
  the double loop apart by quotient and remainder.
* `BodiesLeadWithTheWorst`: `Spec => []BodyLeadsWithTheWorst`. The first line of a kind in
  the body and the summary's worst are found in two orders, by `ranked` and by `worst`.
  `ExceedsOrders` makes the comparison of ratios a strict weak order although one of
  them is infinite, `RankedIsSorted` is that sorting by rank gives the stable sorted
  list, and `NeitherIsWorse` that two verdicts neither of which is worse have the same
  stage and ratio.

`LayoutProofs`, for any queries, configurations, slots, advisory size, threshold
and number of executions, from `LayoutAssumption` and `TuningAssumption` (a plan lists an
operator after the one above it, and a join has two sides):

* `TargetsAlwaysFit`: `Spec => []TargetsFit`. `TargetFits` is the arithmetic: a
  ceiling quotient is tight (`CeilDivTight`), multiples of the slots leave no rest
  (`MultipleHasNoRest`), so the target is the least count of full rounds that is
  enough. Integer division is used as its defining inequality throughout.
* `StatusIsHonest`: `Spec => []StatusIsWhatWasPrinted`: the pass that prints and the
  pass that counts agree for any application.
* `TuningTypeCorrect`: `Spec => []TypeOK`: a count that is advised is a positive number,
  whatever was retried or lost.

  These three share the invariant `IInv`: `TypeOK`, that an application being read has
  the type `RunQuery` gives it (`AppType`), and that what was printed is `Report` of that
  application (`Printed`). `BlockIsSound` says of one block what they say of all.
* `GroupsShareACount` (`OneDecisionOneCount`) and `CutsAreOfTheReader`
  (`CutsKnowTheirReader`). The type of an application is not enough for these: `RunInv`
  says that it is the log of a run of this query, with at most one stage retried and one
  value lost. `StagesAreFound` is the lemma they turn on: the stage that `layout.py`
  finds by a byte count is the exchange's own, and the stage below it the query's reader,
  whenever there is one such count.
* `TakenAdviceSettles`: `Spec => []AdviceSettles`. The invariant `Settled` says that a
  count taken from a calm run is the `Target` of what the decided exchanges write, and
  `CalmBlock` that a calm run of the same query offers that target again.
* `SavingsAreOfTheJoin`: `Spec => []SavedShuffleFedTheJoin`. The operators above one in a
  plan form a chain (`AboveIsAChain`), so between the first exchange under a join's side
  and the join there is no other exchange (`FirstExchangeFeeds`).

`SpillProofs`, for any stages, retries, sizes, ends and drops, from `SpillAssumption`:
`SpilledStaysSpilled` (`Spec => []OnceSpilledNeverClean`), `PeakIsItsOwn`
(`Spec => []PeakIsOfTheStage`) and `TotalsTellOfALoss` (`Spec => []TotalsCatchALoss`). The
invariant `IInv` adds that a stage seen spilling is still there (`FoundIsThere`) and that
a completed stage's totals are the sum of the tasks heard and lost (`TotalsAreOfAll`);
`TotalsOf` is that sums of naturals grow with each task, so a lost one that spilled shows.
`InOrderSorts` is that the attempts come out by stage and attempt.

`BenchmarkProofs`, for any arms, passes, limits and any number of kills and
failures, from `ScheduleAssumption`, `LimitsAssumption`, `NoLogAssumption` and
`BoundsAssumption`:

* `BenchmarkTypeCorrect`: `Spec => []TypeOK`, which includes that no run goes past
  the schedule's end.
* `SuccessIsComplete`: `Spec => []CompleteMeansDone`.
* `RunsAreOfTheirOwnLogs`: `Spec => []OwnLogs`. `Kinship` relates what the driver
  listed before to the children there are: every name listed is older than the child
  running now, so when that child is done its own final log is the only new name
  (`BelievedIsOwn`), and a finished log stays finished (`OwnedStays`), over drivers
  killed with their children left writing.
* `SplitRunsAreOne`: `Spec => Split!SplitSpec`. The mapping reads the manifest
  from the disk, except while it is being written, when it is what the driver
  holds; `Truncate` is therefore the abstract `WarmUp` or `RecordNext`, `Write` a
  stutter, and a kill in between is `Lose`. The invariant `DriverKnows` says what
  memory and disk have to do with each other at each place in the driver: equal
  up to `Collect`, one run ahead (`Follows`) at `save`, the only copy at `write`.
  `InOrder` makes every recorded run the schedule's, and `KeepFollows` is the
  lemma that collecting a child adds exactly the next one. `ScheduleType` shows
  the rotation indexes the arms for any number of passes.
* `RecordedPassesAreWhole`: `Spec => []PassesAreWhole`. After an exit of 0 every pass in
  the manifest has one run of each arm (a bijection of places) and began one arm further
  on than the pass before it, for any number of arms. It follows from
  `SuccessIsComplete` and `PassRunsEveryArm`, which is about remainders: numbers less
  than n apart with one remainder by n are equal (`TurnsStayApart`).

And in the same module, for any number of passes of two arms, any wall times and any
logs, from `ReadingsAssumption` (times and rows are naturals) alone, with no bound on how
many logs look different:

* `ASplitRunRotates`: `ReadingsSpec => []Rotates`. The invariant is `PassesAsScheduled`:
  each pass ran the arm whose turn it was, which goes with the remainder by four
  (`TurnsOfTwo`); `TurnsAreEven` counts turns by induction over the passes.
* `NoPBelowTheFloor`: `ReadingsSpec => []FloorIsTheSmallest`. A p is a number of splits of
  the pooled readings over the number of all; the observed split and what it leaves are
  two, as far apart as each other (`ObservedTwice`), and `PFloor` is two of them.
* `OnTheFloorApart`: `ReadingsSpec => []OnFloorMeansApart`. On the floor means that those
  two are the only ones as far apart (`OnlyTwoAreAsFar`). When one list is below the
  other, any other split takes as many from the low side as it gives back, so it is
  nearer (`AnyOtherIsNearer`, by `LowerAddsUpToLess`). When some reading of the list with
  the smaller sum reaches one of the other, exchanging the two gives a third split at
  least as far (`ExchangedIsAsFar`), which is new because there are at least two readings
  an arm: with one, no p is offered (`TwoReadingsAreTooFew`).
* `EitherArmDecides`: `ReadingsSpec => []EitherArmAsBaseline`, for arms run equally often
  or not. `EitherFirst` is that `permutation_p` and `p_floor` are symmetric: turning the
  lists over and taking what is left maps splits to splits, no two to one
  (`OtherWaysDiffer`), with the same gap (`OtherWayIsAsFar`) and the observed one to the
  observed one, so there are no more either way (`NoMoreTheOtherWay`).
* `ReportsCompareOneWork`: `ReadingsSpec => []ComparedDidTheSameWork`. Two logs that did
  the same work can be paired off stage by stage (`MatchedByKey`), so they have one shape
  (`SameWorkSameShape`); where rows tell the part, one shape means the same work
  (`SameShapeSameWork`) and one carrying part (`CarriesTheMost`, `SameShapeSameCarrier`).

The sums of `permutation_p` are a recursive function over the pooled list; `TotalIsSum`
puts it as a sum of `Counting`, `TotalOfOneMore` says what one place more adds, and with
`OneMemberMore` the rest follows for any choice of places (`TotalOfBoth`, `TotalOfMoved`).

`StoreProofs`, for any captures, script, number of deaths, registry and commands
beside them, from `StoreAssumption` (a script is not empty, and a half line, text or an
alien line is no event of it) and `ScenariosAssumption` (at first a store holds at most
the notes):

* `StoreTypeCorrect`: `Spec => []StoreTypeOK`.
* `ReturnedPathIsOwnOrYounger`: `Spec => []ReturnsItsOwnOrAYounger`. The invariant
  `IInv` adds that the store has no name of a log not yet begun (`NamesKnown`), that
  logs and captures correspond one to one (`OneOwnerEach`), that what a capture found
  before is older than its log (`OldThen`), and that a stopped capture's log is there
  under its final name and no other (`HoldsItsLog`). Then `TakesItsOwnOrAYounger`: its
  own log is among the new names, so the last of them is that one or belongs to a log
  begun later, which has an owner. `OtherStepHolds` covers every step of a command or a
  check at once, `OwnLogHolds` the steps of a capture that touch only its own log.
* `OnlyARenameAborts` (`AbortsOnlyForARename`) and `InventoryIsTrue`
  (`InventoryIsOfItsTime`). A capture's step makes the directory grow: a file keeps what
  it had, perhaps under its final name (`DirectoryGrows`, `Grown`, an order). `ReadInv`
  holds each report of an inventory between what the file was when it was listed and
  what it is now (`StillThere`, `ReportsAreTrue`), through any number of such steps
  (`BesideAReader`).
* `WhoeverChangedItIsNamed`: `Spec => []NamedForATrace`. `CheckInv` says of each name what
  a snapshot in progress has of it (`SnapshotsHold`) as long as nobody else wrote; the
  names that the commands of a registry leave (`Own`) are none a capture writes, so of
  those it holds even then.

Only model-checked: the liveness properties (`Exits`, `Completes`, `Ends`),
since fairness and ENABLED are out of the provers' reach. The three properties that a run
refutes are of course not proved.

What the theorems rest on is what the models take for granted: `SparkLog` and `Store`
for Spark's part, and that a query writes as many bytes at any partition count, on
which `AdviceSettles` rests.

## 6. Not modelled, and what is left

Built in this order: the reader (everything else rests on it), skew and its command,
the benchmark arithmetic and driver, plans and layout, the store with its captures,
readers and contract check, spill and memory. Proved in the same order, the arithmetic
of the permutation test last. What would come next: `BenchReadings` with more than two
arms, where a report gives each a verdict against one baseline; how far below
`2 / comb(n + m, n)` a p can lie when the arms ran unequally often; and a manifest resumed
with other arguments.

Left out of modules that are there: thresholds of `nan` and `inf`
(`CommandAssumption`); a benchmark report whose carrying stage's baseline mean is zero,
which raises while formatting the ratio, and `--against` an arm nobody ran; two lost
accumulator values or two retried stages in one application (section 5); a plan that
raises `UnreadablePlan`. A log in which an event the reader consumes is missing may be
answered or not, which some commands do and some do not (`ProfileLog`); no property
depends on which.

Left out for good: the probes and figures (`scripts/`, sequential printing of
committed logs), `model.coverage` and the classes of accumulable names (they count and
label what `build` already keeps), `eventlog.spark_properties` (a lookup in one file),
how a plan's text is split into fields, the Spark jobs' own computation, the wording of
reports, argparse and the command registry's wiring, and `Fraction` versus floating
point in `bench.py` (the model is exact, as `permutation_p` is; `fmean` only feeds text).
