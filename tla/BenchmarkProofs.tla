--------------------------- MODULE BenchmarkProofs ---------------------------
(***************************************************************************)
(* For any arms, passes, limits and bounds: a benchmark run over several   *)
(* invocations records what one uninterrupted schedule would.              *)
(*                                                                         *)
(* The invariant relates the manifest on the disk to the one in the        *)
(* driver's memory at each place the driver can be: equal until a child is *)
(* collected, one run ahead until it is saved, the only copy while it is   *)
(* being written.                                                          *)
(*                                                                         *)
(* And for any number of passes and any wall times and logs: what a report *)
(* of the passes done may say.  Its p counts splits of the pooled readings,*)
(* so its proofs are about sums over the splits: a split and its mirror    *)
(* image, the splits with the arms the other way round, and the splits one *)
(* exchange away from the observed one.                                    *)
(***************************************************************************)
EXTENDS Benchmark, BenchReadings, Counting, SequenceTheorems, FiniteSetTheorems, TLAPS

(* The schedule is a sequence of the declared arms, and not empty.         *)
LEMMA ScheduleType ==
  /\ Schedule \in Seq(ArmSet)
  /\ Len(Schedule) \in Nat \ {0}
  /\ Len(Schedule) = Passes * Len(Arms)
  /\ DOMAIN Schedule = 1 .. Passes * Len(Arms)
<1> DEFINE n == Len(Arms)
<1>1. n \in Nat \ {0} /\ Arms \in Seq(ArmSet) /\ \A i \in 1 .. n : Arms[i] \in ArmSet
  BY ScheduleAssumption DEF ArmSet
<1>2. Passes * n \in Nat \ {0}
  BY <1>1, ScheduleAssumption
<1>3. ASSUME NEW k \in 1 .. Passes * n
      PROVE  Arms[(((k - 1) \div n + (k - 1)) % n) + 1] \in ArmSet
  <2> DEFINE turn == (k - 1) \div n + (k - 1)
  <2>1. turn \in Int
    BY <1>1, <1>2
  <2>2. turn % n \in 0 .. n - 1
    BY <1>1, <2>1
  <2> QED
    BY <1>1, <2>2
<1>4. Schedule = [k \in 1 .. Passes * n |-> Arms[(((k - 1) \div n + (k - 1)) % n) + 1]]
  BY DEF Schedule, Order
<1> HIDE DEF n
<1>5. Schedule \in [1 .. Passes * n -> ArmSet]
  BY <1>3, <1>4
<1> QED
  BY <1>2, <1>5 DEF n

-----------------------------------------------------------------------------
(* The inductive invariant.                                                *)

OnDisk == [warm |-> manifest.warm, runs |-> manifest.runs]

InOrder(record) ==
  /\ record.warm = None => record.runs = <<>>
  /\ \A i \in DOMAIN record.runs : record.runs[i].arm = Schedule[i]

(* t has the one run that comes after those of s.                          *)
Follows(t, s) ==
  \/ s.warm = None /\ t.warm # None /\ t.runs = s.runs
  \/ /\ s.warm # None /\ t.warm = s.warm
     /\ Len(s.runs) < Len(Schedule)
     /\ \E run \in [arm : ArmSet, log : Nat, seconds : Nat] :
          run.arm = Schedule[Len(s.runs) + 1] /\ t.runs = Append(s.runs, run)

DriverKnows ==
  /\ manifest.kind = "torn" => manifest = Torn
  /\ manifest.kind = "absent" => manifest = Absent
  /\ pc \in {"choose", "spawn", "wait", "save"} => manifest.kind # "torn"
  /\ pc \in {"choose", "spawn", "wait"} => held = OnDisk
  /\ pc \in {"spawn", "wait"} => MoreToDo
  /\ pc = "wait" => children # <<>>
  /\ pc = "save" => Follows(held, OnDisk)
  /\ pc = "write" => manifest.kind = "torn"
  /\ status = OK => pc = "idle"

Inv ==
  /\ TypeOK
  /\ InOrder(manifest) /\ InOrder(held)
  /\ DriverKnows
  /\ CompleteMeansDone

LEMMA InvInit == Init => Inv
<1> SUFFICES ASSUME Init PROVE Inv
  OBVIOUS
<1> USE ScheduleType, LimitsAssumption, BoundsAssumption
<1>1. TypeOK
  BY DEF Init, TypeOK, Absent, Blank, Runs, Records, OK, ERROR, UNFINISHED, KILLED
<1>2. InOrder(manifest) /\ InOrder(held)
  BY DEF Init, InOrder, Absent, Blank
<1>3. DriverKnows /\ CompleteMeansDone
  BY DEF Init, DriverKnows, CompleteMeansDone, Absent, OK
<1> QED BY <1>1, <1>2, <1>3 DEF Inv

(* Leaving a process leaves the disk as it was.                            *)
LEMMA InvExit ==
  ASSUME Inv, NEW code \in {OK, ERROR, UNFINISHED, KILLED}, Exit(code),
         UNCHANGED <<manifest, children>>,
         crashes' \in 0 .. MaxCrashes, failures' \in 0 .. MaxFailures,
         code = OK => CompleteMeansDone'
  PROVE  Inv'
<1> USE ScheduleType, LimitsAssumption, BoundsAssumption
<1>1. TypeOK'
  BY DEF Inv, TypeOK, Exit, Blank, Runs, Records
<1>2. InOrder(manifest)' /\ InOrder(held)'
  BY DEF Inv, InOrder, Exit, Blank
<1>3. DriverKnows'
  BY DEF Inv, DriverKnows, Exit
<1>4. CompleteMeansDone'
  BY DEF Exit, CompleteMeansDone
<1> QED BY <1>1, <1>2, <1>3, <1>4 DEF Inv

(* What the driver takes for its child's log has a number.                 *)
LEMMA NameType ==
  ASSUME TypeOK, NEW name \in Believed
  PROVE  name[1] \in Nat
<1>1. name \in Listing
  BY DEF Believed, Fresh
<1> QED BY <1>1 DEF Listing, TypeOK

(* Collecting a child adds the schedule's next run to what is held.        *)
LEMMA KeepFollows ==
  ASSUME Inv, pc = "wait", NEW n \in Nat
  PROVE  /\ Keep(held, n) \in Records
         /\ Follows(Keep(held, n), held)
         /\ InOrder(Keep(held, n))
         /\ Len(Keep(held, n).runs) <= Len(Schedule)
<1> USE ScheduleType
<1>1. held \in Records /\ InOrder(held) /\ Len(held.runs) <= Len(Schedule)
  BY DEF Inv, TypeOK
<1>2. CASE held.warm = None
  <2>1. Keep(held, n) = [held EXCEPT !.warm = n] /\ n # None
    BY <1>2, NoLogAssumption DEF Keep
  <2>2. Keep(held, n) = [warm |-> n, runs |-> held.runs]
    BY <1>1, <2>1 DEF Records
  <2>3. Keep(held, n) \in Records
    BY <1>1, <2>2 DEF Records
  <2>4. Keep(held, n).warm = n /\ Keep(held, n).runs = held.runs
    BY <2>2
  <2>5. Follows(Keep(held, n), held)
    BY <1>2, <2>1, <2>4 DEF Follows
  <2>6. InOrder(Keep(held, n))
    BY <1>1, <2>1, <2>4 DEF InOrder
  <2> QED BY <1>1, <2>3, <2>4, <2>5, <2>6
<1>3. CASE held.warm # None
  <2> DEFINE run == RunOf(n)
  <2>1. Len(held.runs) < Len(Schedule)
    BY <1>3 DEF Inv, DriverKnows, MoreToDo
  <2>2. Len(held.runs) + 1 \in 1 .. Len(Schedule)
    BY <1>1, <2>1 DEF Records, Runs
  <2>3. NextArm = Schedule[Len(held.runs) + 1] /\ NextArm \in ArmSet
    BY <1>3, <2>2 DEF NextArm
  <2>4. Own \in Nat
    BY DEF Inv, TypeOK, Own
  <2>5. run \in [arm : ArmSet, log : Nat, seconds : Nat] /\ run.arm = NextArm
    BY <2>3, <2>4 DEF RunOf
  <2>6. Keep(held, n) = [held EXCEPT !.runs = Append(held.runs, run)]
    BY <1>3 DEF Keep
  <2> HIDE DEF run
  <2>7. Keep(held, n) = [warm |-> held.warm, runs |-> Append(held.runs, run)]
    BY <1>1, <2>6 DEF Records
  <2>8. Keep(held, n).warm = held.warm /\ Keep(held, n).runs = Append(held.runs, run)
    BY <2>7
  <2>9. Keep(held, n) \in Records
    BY <1>1, <2>5, <2>7 DEF Records, Runs
  <2>10. Follows(Keep(held, n), held)
    BY <1>3, <2>1, <2>3, <2>5, <2>8 DEF Follows
  <2>11. InOrder(Keep(held, n)) /\ Len(Keep(held, n).runs) <= Len(Schedule)
    <3> DEFINE m == Len(held.runs)
    <3>1. /\ held.runs \in Seq([arm : ArmSet, log : Nat, seconds : Nat])
          /\ m \in Nat /\ DOMAIN held.runs = 1 .. m
      BY <1>1 DEF Records, Runs
    <3>2. /\ Len(Append(held.runs, run)) = m + 1
          /\ DOMAIN Append(held.runs, run) = 1 .. m + 1
          /\ Append(held.runs, run)[m + 1] = run
          /\ \A i \in 1 .. m : Append(held.runs, run)[i] = held.runs[i]
      BY <2>5, <3>1
    <3>3. m < Len(Schedule) /\ run.arm = Schedule[m + 1] /\ Len(Schedule) \in Nat
      BY <2>1, <2>3, <2>5
    <3> HIDE DEF m
    <3>4. \A i \in 1 .. m : held.runs[i].arm = Schedule[i] BY <1>1, <3>1 DEF InOrder
    <3>5. \A i \in 1 .. m + 1 : i = m + 1 \/ i \in 1 .. m BY <3>1
    <3>6. \A i \in 1 .. m + 1 : Append(held.runs, run)[i].arm = Schedule[i]
      BY <3>2, <3>3, <3>4, <3>5
    <3>7. InOrder(Keep(held, n)) BY <1>3, <2>8, <3>2, <3>6, Zenon DEF InOrder
    <3> QED BY <2>8, <3>1, <3>2, <3>3, <3>7
  <2> QED BY <2>9, <2>10, <2>11
<1> QED BY <1>2, <1>3

LEMMA InvNext ==
  ASSUME Inv, [Next]_vars
  PROVE  Inv'
<1> USE ScheduleType, LimitsAssumption, BoundsAssumption
<1>0. TypeOK /\ InOrder(manifest) /\ InOrder(held) /\ DriverKnows /\ CompleteMeansDone
  BY DEF Inv
<1>1. ASSUME NEW l \in Limits, Invoke(l)
      PROVE  Inv'
  <2>1. TypeOK'
    BY <1>0, <1>1 DEF Invoke, TypeOK
  <2>2. DriverKnows' /\ CompleteMeansDone'
    BY <1>0, <1>1 DEF Invoke, DriverKnows, CompleteMeansDone, OK
  <2>3. InOrder(manifest)' /\ InOrder(held)'
    BY <1>0, <1>1 DEF Invoke, InOrder
  <2> QED BY <2>1, <2>2, <2>3 DEF Inv
<1>2. CASE Load
  <2>1. CASE manifest.kind = "torn"
    BY <1>0, <1>2, <2>1, InvExit DEF Load, TypeOK, OK, ERROR
  <2>2. CASE manifest.kind # "torn"
    <3>1. /\ held' = OnDisk /\ done' = Len(manifest.runs) /\ pc' = "choose"
          /\ UNCHANGED <<limit, before, status, manifest, children, crashes, failures>>
          /\ pc = "load"
      BY <1>2, <2>2 DEF Load, OnDisk
    <3>2. OnDisk \in Records /\ InOrder(OnDisk) /\ Len(OnDisk.runs) <= Len(Schedule)
      BY <1>0 DEF TypeOK, OnDisk, Records, InOrder
    <3>3. TypeOK'
      BY <1>0, <3>1, <3>2 DEF TypeOK, Runs
    <3>4. DriverKnows' /\ CompleteMeansDone'
      BY <1>0, <2>2, <3>1 DEF DriverKnows, CompleteMeansDone, OnDisk
    <3>5. InOrder(manifest)' /\ InOrder(held)'
      BY <1>0, <3>1, <3>2 DEF InOrder
    <3> QED BY <3>3, <3>4, <3>5 DEF Inv
  <2> QED BY <2>1, <2>2
<1>3. CASE List
  <2>1. ASSUME NEW name \in Listing
        PROVE  name \in Names
    <3>1. CASE name = <<0, "manifest">>
      BY <3>1 DEF Names
    <3>2. CASE name # <<0, "manifest">>
      <4>1. PICK k \in DOMAIN children :
              children[k].log # "none" /\ name = <<k, children[k].log>>
        BY <3>2 DEF Listing
      <4>2. children \in Seq(Process)
        BY <1>0 DEF TypeOK
      <4>3. k \in Nat /\ children[k] \in Process
        BY <4>1, <4>2
      <4>4. children[k].log \in {"inprogress", "final"}
        BY <4>1, <4>3 DEF Process
      <4> QED BY <4>1, <4>3, <4>4 DEF Names
    <3> QED BY <3>1, <3>2
  <2>2. TypeOK'
    BY <1>0, <1>3, <2>1 DEF List, TypeOK
  <2>3. DriverKnows' /\ CompleteMeansDone'
    BY <1>0, <1>3 DEF List, DriverKnows, CompleteMeansDone, MoreToDo, Stopped, OnDisk
  <2>4. InOrder(manifest)' /\ InOrder(held)'
    BY <1>0, <1>3 DEF List, InOrder
  <2> QED BY <2>2, <2>3, <2>4 DEF Inv
<1>4. CASE Spawn
  <2>1. NextArm \in ArmSet
    <3>1. CASE held.warm = None
      BY <3>1, ScheduleAssumption DEF NextArm, Warmup, ArmSet
    <3>2. CASE held.warm # None
      <4>1. Len(held.runs) + 1 \in 1 .. Len(Schedule)
        BY <1>0, <1>4, <3>2 DEF Spawn, DriverKnows, MoreToDo, TypeOK, Records, Runs
      <4> QED BY <3>2, <4>1 DEF NextArm
    <3> QED BY <3>1, <3>2
  <2>2. TypeOK'
    <3>1. [arm |-> NextArm, state |-> "starting", log |-> "none"] \in Process
      BY <2>1 DEF Process
    <3>2. children' \in Seq(Process)
      BY <1>0, <1>4, <3>1 DEF Spawn, TypeOK
    <3> QED BY <1>0, <1>4, <3>2 DEF Spawn, TypeOK
  <2>3. DriverKnows' /\ CompleteMeansDone'
    BY <1>0, <1>4 DEF Spawn, DriverKnows, CompleteMeansDone, MoreToDo, Stopped, OnDisk, TypeOK
  <2>4. InOrder(manifest)' /\ InOrder(held)'
    BY <1>0, <1>4 DEF Spawn, InOrder
  <2> QED BY <2>2, <2>3, <2>4 DEF Inv
<1>5. CASE Collect
  <2>1. CASE children[Own].state = "done" /\ Believed # {}
    <3>1. PICK name \in Believed : held' = Keep(held, name[1])
      BY <1>5, <2>1 DEF Collect
    <3>2. /\ held' \in Records /\ Follows(held', held) /\ InOrder(held')
          /\ Len(held'.runs) <= Len(Schedule)
      BY <1>0, <1>5, <3>1, NameType, KeepFollows DEF Collect
    <3>3. /\ pc = "wait" /\ pc' = "save" /\ before' = {}
          /\ UNCHANGED <<manifest, children, limit, done, status, crashes, failures>>
      BY <1>5, <2>1 DEF Collect
    <3>4. TypeOK'
      BY <1>0, <3>2, <3>3 DEF TypeOK
    <3>5. DriverKnows' /\ CompleteMeansDone'
      BY <1>0, <3>2, <3>3 DEF DriverKnows, CompleteMeansDone, OnDisk
    <3>6. InOrder(manifest)' /\ InOrder(held)'
      BY <1>0, <3>2, <3>3 DEF InOrder
    <3> QED BY <3>4, <3>5, <3>6 DEF Inv
  <2>2. CASE ~(children[Own].state = "done" /\ Believed # {})
    BY <1>0, <1>5, <2>2, InvExit DEF Collect, TypeOK, OK, ERROR
  <2> QED BY <2>1, <2>2
<1>6. CASE Truncate
  <2>1. TypeOK'
    BY <1>0, <1>6 DEF Truncate, TypeOK, Torn, Runs
  <2>2. DriverKnows' /\ CompleteMeansDone'
    BY <1>0, <1>6 DEF Truncate, DriverKnows, CompleteMeansDone, Torn
  <2>3. InOrder(manifest)' /\ InOrder(held)'
    BY <1>0, <1>6 DEF Truncate, InOrder, Torn
  <2> QED BY <2>1, <2>2, <2>3 DEF Inv
<1>7. CASE Write
  <2>1. manifest' = [kind |-> "whole", warm |-> held.warm, runs |-> held.runs]
    BY <1>7 DEF Write, Whole
  <2>2. held = [warm |-> held.warm, runs |-> held.runs]
    BY <1>0 DEF TypeOK, Records
  <2>3. TypeOK'
    BY <1>0, <1>7, <2>1 DEF Write, TypeOK, Records
  <2>4. DriverKnows' /\ CompleteMeansDone'
    BY <1>0, <1>7, <2>1, <2>2 DEF Write, DriverKnows, CompleteMeansDone, OnDisk
  <2>5. InOrder(manifest)' /\ InOrder(held)'
    BY <1>0, <1>7, <2>1 DEF Write, InOrder
  <2> QED BY <2>3, <2>4, <2>5 DEF Inv
<1>8. CASE Stop
  <2> DEFINE left == Len(Schedule) - Len(held.runs)
  <2>1. ASSUME StatusOf(left) = OK
        PROVE  CompleteMeansDone'
    <3>1. held.warm # None /\ held = OnDisk /\ manifest.kind # "torn"
      BY <1>0, <1>8 DEF Stop, MoreToDo, DriverKnows
    <3>2. manifest.kind = "whole"
      BY <1>0, <3>1 DEF DriverKnows, OnDisk, Absent, TypeOK
    <3>3. Len(held.runs) = Len(Schedule)
      BY <1>0, <2>1 DEF StatusOf, OK, UNFINISHED, TypeOK, Records, Runs
    <3>4. [i \in DOMAIN manifest.runs |-> manifest.runs[i].arm] = Schedule
      <4>1. DOMAIN manifest.runs = 1 .. Len(Schedule)
        BY <1>0, <3>1, <3>3 DEF TypeOK, Runs, OnDisk
      <4>2. \A i \in DOMAIN manifest.runs : manifest.runs[i].arm = Schedule[i]
        BY <1>0 DEF InOrder
      <4> QED BY <4>1, <4>2
    <3>5. UNCHANGED manifest
      BY <1>8 DEF Stop
    <3> QED BY <3>1, <3>2, <3>4, <3>5 DEF CompleteMeansDone, OnDisk
  <2>2. StatusOf(left) \in {OK, UNFINISHED}
    BY DEF StatusOf
  <2> QED
    BY <1>0, <1>8, <2>1, <2>2, InvExit DEF Stop, TypeOK
<1>9. CASE Kill
  <2>1. crashes' \in 0 .. MaxCrashes /\ UNCHANGED failures
    BY <1>0, <1>9 DEF Kill, TypeOK
  <2> QED
    BY <1>0, <1>9, <2>1, InvExit DEF Kill, TypeOK, OK, KILLED
<1>10. ASSUME NEW m \in DOMAIN children, OpenLog(m) \/ End(m) \/ Fail(m)
       PROVE  Inv'
  <2>1. PICK state \in {"running", "done", "failed"}, log \in {"none", "inprogress", "final"} :
          Becomes(m, state, log)
    BY <1>10 DEF OpenLog, End, Fail
  <2>2. /\ UNCHANGED <<manifest, driver, crashes>>
        /\ children' = [children EXCEPT ![m] =
                         [arm |-> children[m].arm, state |-> state, log |-> log]]
    BY <2>1 DEF Becomes
  <2>3. failures' \in 0 .. MaxFailures
    BY <1>0, <1>10 DEF OpenLog, End, Fail, TypeOK
  <2>4. children' \in Seq(Process) /\ Len(children') = Len(children)
    <3>1. children \in Seq(Process) /\ children[m] \in Process
      BY <1>0, <1>10 DEF TypeOK
    <3>2. [arm |-> children[m].arm, state |-> state, log |-> log] \in Process
      BY <3>1 DEF Process
    <3> QED BY <1>10, <2>2, <3>1, <3>2
  <2>5. TypeOK'
    BY <1>0, <2>2, <2>3, <2>4 DEF TypeOK, driver
  <2>6. DriverKnows' /\ CompleteMeansDone'
    BY <1>0, <2>2, <2>4 DEF DriverKnows, CompleteMeansDone, driver, MoreToDo, Stopped,
                           OnDisk, TypeOK
  <2>7. InOrder(manifest)' /\ InOrder(held)'
    BY <1>0, <2>2 DEF InOrder, driver
  <2> QED BY <2>5, <2>6, <2>7 DEF Inv
<1>11. CASE UNCHANGED vars
  <2>1. TypeOK'
    BY <1>0, <1>11 DEF TypeOK, vars, driver
  <2>2. DriverKnows' /\ CompleteMeansDone'
    BY <1>0, <1>11 DEF DriverKnows, CompleteMeansDone, vars, driver, MoreToDo, Stopped, OnDisk
  <2>3. InOrder(manifest)' /\ InOrder(held)'
    BY <1>0, <1>11 DEF InOrder, vars, driver
  <2> QED BY <2>1, <2>2, <2>3 DEF Inv
<1> QED
  BY <1>1, <1>2, <1>3, <1>4, <1>5, <1>6, <1>7, <1>8, <1>9, <1>10, <1>11 DEF Next, Driver

(* Every variable keeps its type, and no run goes past the schedule's end. *)
THEOREM BenchmarkTypeCorrect == Spec => []TypeOK
<1>1. Inv => TypeOK
  BY DEF Inv
<1> QED BY <1>1, InvInit, InvNext, PTL DEF Spec

(* A driver that exits 0 leaves the whole schedule recorded, in its order. *)
THEOREM SuccessIsComplete == Spec => []CompleteMeansDone
<1>1. Inv => CompleteMeansDone
  BY DEF Inv
<1> QED BY <1>1, InvInit, InvNext, PTL DEF Spec

-----------------------------------------------------------------------------
(* The refinement: every step records what the schedule has next, or       *)
(* changes nothing of what is recorded, or loses the manifest.             *)

ArmsOf(rs) == [i \in DOMAIN rs |-> rs[i].arm]

LEMMA ArmsAppend ==
  ASSUME NEW rs \in Runs, NEW run \in [arm : ArmSet, log : Nat, seconds : Nat]
  PROVE  ArmsOf(Append(rs, run)) = Append(ArmsOf(rs), run.arm)
<1>1. ArmsOf(rs) \in Seq(ArmSet) /\ Len(ArmsOf(rs)) = Len(rs)
  <2> DEFINE Kept == [arm : ArmSet, log : Nat, seconds : Nat]
  <2>1. DOMAIN rs = 1 .. Len(rs) /\ Len(rs) \in Nat /\ \A i \in 1 .. Len(rs) : rs[i] \in Kept
    <3>1. rs \in Seq(Kept)
      BY DEF Runs
    <3> HIDE DEF Kept
    <3> QED BY <3>1
  <2>2. \A i \in 1 .. Len(rs) : rs[i].arm \in ArmSet
    BY <2>1
  <2>3. ArmsOf(rs) \in [1 .. Len(rs) -> ArmSet]
    BY <2>1, <2>2 DEF ArmsOf
  <2> QED BY <2>1, <2>3
<1>2. DOMAIN ArmsOf(Append(rs, run)) = 1 .. Len(rs) + 1
  BY DEF ArmsOf, Runs
<1>3. DOMAIN Append(ArmsOf(rs), run.arm) = 1 .. Len(rs) + 1
  BY <1>1 DEF Runs
<1>4. ASSUME NEW i \in 1 .. Len(rs) + 1
      PROVE  ArmsOf(Append(rs, run))[i] = Append(ArmsOf(rs), run.arm)[i]
  BY <1>1 DEF ArmsOf, Runs
<1>5. ArmsOf(Append(rs, run)) \in Seq(ArmSet) /\ Append(ArmsOf(rs), run.arm) \in Seq(ArmSet)
  <2>1. Append(rs, run) \in Runs
    BY DEF Runs
  <2>2. run.arm \in ArmSet
    OBVIOUS
  <2> QED BY <1>1, <2>1, <2>2 DEF ArmsOf, Runs
<1> QED BY <1>2, <1>3, <1>4, <1>5

(* Saving one more run is a step of the abstract schedule.                 *)
LEMMA SaveRecords ==
  ASSUME Inv, Truncate
  PROVE  Split!WarmUp \/ Split!RecordNext
<1>1. /\ pc = "save" /\ pc' = "write" /\ UNCHANGED held
      /\ manifest.kind # "torn" /\ Follows(held, OnDisk)
  BY DEF Truncate, Inv, DriverKnows
<1>2. Recorded = OnDisk /\ Recorded' = held /\ ~Lost /\ ~Lost'
  BY <1>1 DEF Recorded, OnDisk, Lost
<1>3. OnDisk.runs \in Runs
  BY DEF Inv, TypeOK, OnDisk
<1>4. RecordedArms = ArmsOf(OnDisk.runs) /\ RecordedArms' = ArmsOf(held.runs)
  BY <1>2 DEF RecordedArms, ArmsOf
<1>5. CASE OnDisk.warm = None
  BY <1>1, <1>2, <1>4, <1>5 DEF Follows, Split!WarmUp
<1>6. CASE OnDisk.warm # None
  <2>1. PICK run \in [arm : ArmSet, log : Nat, seconds : Nat] :
          run.arm = Schedule[Len(OnDisk.runs) + 1] /\ held.runs = Append(OnDisk.runs, run)
    BY <1>1, <1>6 DEF Follows
  <2>2. held.warm = OnDisk.warm /\ Len(OnDisk.runs) < Len(Schedule)
    BY <1>1, <1>6 DEF Follows
  <2>3. RecordedArms' = Append(RecordedArms, Schedule[Len(OnDisk.runs) + 1])
    BY <1>3, <1>4, <2>1, ArmsAppend
  <2>4. Len(RecordedArms) = Len(OnDisk.runs)
    BY <1>3, <1>4 DEF ArmsOf, Runs
  <2> QED
    BY <1>2, <1>6, <2>2, <2>3, <2>4 DEF Split!RecordNext, Split!Order, Schedule, Order
<1> QED BY <1>5, <1>6

LEMMA StepRefines ==
  ASSUME Inv, Inv', [Next]_vars
  PROVE  [Split!SplitNext]_(Split!splitVars)
<1>0. DriverKnows /\ DriverKnows' /\ TypeOK
  BY DEF Inv
<1> DEFINE Same == UNCHANGED <<Lost, Recorded>>
<1>1. Same => UNCHANGED Split!splitVars
  BY DEF Split!splitVars, RecordedArms
<1>2. ASSUME NEW l \in Limits, Invoke(l)
      PROVE  Same
  BY <1>2 DEF Invoke, Lost, Recorded
<1>3. CASE Load \/ List \/ Spawn \/ Collect \/ Stop
  <2>1. UNCHANGED manifest /\ pc # "write" /\ pc' # "write"
    BY <1>3 DEF Load, List, Spawn, Collect, Stop, Exit
  <2> QED BY <1>1, <2>1 DEF Lost, Recorded
<1>4. CASE Truncate
  BY <1>4, SaveRecords DEF Split!SplitNext
<1>5. CASE Write
  <2>1. /\ pc = "write" /\ pc' = "choose"
        /\ manifest' = [kind |-> "whole", warm |-> held.warm, runs |-> held.runs]
    BY <1>5 DEF Write, Whole
  <2>2. Recorded' = held /\ Recorded = held
    BY <1>0, <2>1 DEF Recorded, TypeOK, Records
  <2> QED BY <1>1, <2>1, <2>2 DEF Lost
<1>6. CASE Kill
  <2>1. UNCHANGED manifest /\ pc' = "idle"
    BY <1>6 DEF Kill, Exit
  <2>2. CASE pc = "write"
    <3>1. manifest = Torn
      BY <1>0, <2>2 DEF DriverKnows
    <3>2. Lost' /\ Recorded' = Blank
      BY <2>1, <3>1 DEF Lost, Recorded, Torn, Blank
    <3>3. RecordedArms' = <<>>
      BY <3>2 DEF RecordedArms, Blank
    <3> QED BY <3>2, <3>3 DEF Split!SplitNext, Split!Lose, Blank
  <2>3. CASE pc # "write"
    BY <1>1, <2>1, <2>3 DEF Lost, Recorded
  <2> QED BY <2>2, <2>3
<1>7. ASSUME NEW m \in DOMAIN children, OpenLog(m) \/ End(m) \/ Fail(m)
      PROVE  Same
  BY <1>7 DEF OpenLog, End, Fail, Becomes, driver, Lost, Recorded
<1>8. CASE UNCHANGED vars
  BY <1>1, <1>8 DEF vars, driver, Lost, Recorded
<1> QED
  BY <1>1, <1>2, <1>3, <1>4, <1>5, <1>6, <1>7, <1>8 DEF Next, Driver

(* Over any invocations, whoever was killed and whatever failed, the runs  *)
(* recorded are those of one uninterrupted schedule, until the manifest is *)
(* lost.                                                                   *)
THEOREM SplitRunsAreOne == Spec => ImplementsSplitRun
<1>1. Init => Split!SplitInit
  <2> SUFFICES ASSUME Init PROVE Split!SplitInit
    OBVIOUS
  <2>1. ~Lost /\ Recorded = Blank
    BY DEF Init, Absent, Lost, Recorded, Blank
  <2>2. RecordedArms = <<>>
    BY <2>1 DEF RecordedArms, Blank
  <2> QED BY <2>1, <2>2 DEF Split!SplitInit, Blank
<1> QED
  BY <1>1, InvInit, InvNext, StepRefines, PTL
     DEF Spec, ImplementsSplitRun, Split!SplitSpec

-----------------------------------------------------------------------------
(* Whose log a run is recorded under.  The driver takes the only name that *)
(* appeared; that it is its child's rests on what it listed before being   *)
(* older than the child, and on a child that is done having left a log.    *)

(* Owned, of a record and the processes there have been.                   *)
OwnedBy(record, procs) ==
  /\ \A i \in DOMAIN record.runs :
       /\ record.runs[i].log = record.runs[i].seconds
       /\ record.runs[i].log \in DOMAIN procs
       /\ procs[record.runs[i].log]
            = [arm |-> record.runs[i].arm, state |-> "done", log |-> "final"]
       /\ record.warm # None /\ record.warm < record.runs[i].log
       /\ \A j \in 1 .. i - 1 : record.runs[j].log < record.runs[i].log
  /\ record.warm # None => record.warm \in DOMAIN procs /\ procs[record.warm].log = "final"

(* A process that has not ended has the log of where it is.                *)
LogOfState(proc) ==
  /\ proc.state = "starting" => proc.log = "none"
  /\ proc.state = "running" => proc.log = "inprogress"
  /\ proc.state = "done" => proc.log = "final"

(* Every log of the record is that of a child before the n-th.             *)
Before(record, n) ==
  /\ record.warm # None => record.warm < n
  /\ \A i \in DOMAIN record.runs : record.runs[i].log < n

Kinship ==
  /\ \A n \in DOMAIN children : LogOfState(children[n])
  /\ OwnedBy(manifest, children) /\ OwnedBy(held, children)
  /\ pc = "spawn" => \A name \in before : name[1] <= Len(children)
  /\ pc = "wait" => /\ \A name \in before : name[1] < Own
                    /\ children[Own].arm = NextArm
                    /\ Before(held, Own)

(* Processes go on and others join them; finished logs stay.               *)
LEMMA OwnedStays ==
  ASSUME NEW record, NEW procs, NEW later, OwnedBy(record, procs),
         \A n \in DOMAIN procs :
            n \in DOMAIN later /\ (procs[n].log = "final" => later[n] = procs[n])
  PROVE  OwnedBy(record, later)
BY DEF OwnedBy

(* Among finitely many names, the only new one is the child's.             *)
LEMMA BelievedIsOwn ==
  ASSUME TypeOK, Kinship, pc = "wait", children # <<>>,
         children[Own].state = "done", Believed # {}
  PROVE  Believed = {<<Own, "final">>}
<1>1. children \in Seq(Process) /\ Own \in DOMAIN children /\ Own \in Nat /\ Own >= 1
  BY DEF TypeOK, Own
<1>2. children[Own].log = "final"
  BY <1>1 DEF Kinship, LogOfState
<1>3. <<Own, "final">> \in Fresh
  <2>1. <<Own, "final">> \in Listing
    BY <1>1, <1>2 DEF Listing
  <2>2. <<Own, "final">> \notin before
    BY <1>1 DEF Kinship
  <2> QED BY <2>1, <2>2 DEF Fresh
<1>4. IsFiniteSet(Fresh)
  <2> DEFINE numbers == 0 .. Len(children)
             forms == {"none", "inprogress", "final", "manifest"}
  <2>1. IsFiniteSet(numbers)
    <3>1. 0 \in Int /\ Len(children) \in Int  BY <1>1 DEF Own
    <3> QED BY <3>1, FS_Interval
  <2>2. IsFiniteSet(forms)
    <3>1. IsFiniteSet({"none"})  BY FS_Singleton
    <3>2. IsFiniteSet({"none"} \cup {"inprogress"})  BY <3>1, FS_AddElement
    <3>3. IsFiniteSet(({"none"} \cup {"inprogress"}) \cup {"final"})
      BY <3>2, FS_AddElement
    <3>4. IsFiniteSet((({"none"} \cup {"inprogress"}) \cup {"final"}) \cup {"manifest"})
      BY <3>3, FS_AddElement
    <3>5. forms = (({"none"} \cup {"inprogress"}) \cup {"final"}) \cup {"manifest"}
      OBVIOUS
    <3> QED BY <3>4, <3>5
  <2> HIDE DEF numbers, forms
  <2>3. IsFiniteSet(numbers \X forms)
    BY <2>1, <2>2, FS_Product
  <2>4. Listing \subseteq numbers \X forms
    <3>1. ASSUME NEW n \in DOMAIN children
          PROVE  <<n, children[n].log>> \in numbers \X forms
      <4>1. n \in numbers /\ children[n] \in Process
        BY <1>1 DEF numbers
      <4>2. children[n].log \in forms
        BY <4>1 DEF Process, forms
      <4> QED BY <4>1, <4>2
    <3>2. <<0, "manifest">> \in numbers \X forms
      BY <1>1 DEF numbers, forms, Own
    <3> QED BY <3>1, <3>2 DEF Listing
  <2>5. Fresh \in SUBSET (numbers \X forms)
    BY <2>4 DEF Fresh
  <2> QED BY <2>3, <2>5, FS_Subset
<1>5. Cardinality(Fresh) = 1 /\ Believed = Fresh
  BY DEF Believed
<1>6. PICK x : Fresh = {x}
  BY <1>4, <1>5, FS_Singleton
<1> QED BY <1>3, <1>5, <1>6

(* Collecting a child records its own log.                                 *)
LEMMA CollectOwned ==
  ASSUME Inv, Kinship, Collect
  PROVE  OwnedBy(held', children)
<1>1. CASE children[Own].state = "done" /\ Believed # {}
  <2>1. /\ pc = "wait" /\ children # <<>> /\ children \in Seq(Process)
        /\ Own \in DOMAIN children /\ Own \in Nat
        /\ held \in Records /\ InOrder(held)
    BY <1>1 DEF Collect, Inv, DriverKnows, TypeOK, Own
  <2>2. Believed = {<<Own, "final">>}
    BY <1>1, <2>1, BelievedIsOwn DEF Inv
  <2>3. held' = Keep(held, Own)
    BY <1>1, <2>2 DEF Collect
  <2>4. children[Own] = [arm |-> NextArm, state |-> "done", log |-> "final"]
    <3>1. /\ children[Own] \in Process /\ children[Own].arm = NextArm
          /\ children[Own].log = "final"
      BY <1>1, <2>1 DEF Kinship, LogOfState
    <3> QED BY <1>1, <3>1 DEF Process
  <2>5. OwnedBy(held, children) /\ Before(held, Own)
    BY <2>1 DEF Kinship
  <2>6. CASE held.warm = None
    <3>1. held' = [warm |-> Own, runs |-> <<>>]
      BY <2>1, <2>3, <2>6 DEF Keep, Records, InOrder
    <3> QED BY <2>1, <2>4, <3>1 DEF OwnedBy
  <2>7. CASE held.warm # None
    <3> DEFINE run == RunOf(Own)
               n == Len(held.runs)
    <3>2. run.log = Own /\ run.seconds = Own /\ run.arm = NextArm
      BY DEF RunOf
    <3>a. held' = [held EXCEPT !.runs = Append(held.runs, run)]
      BY <2>3, <2>7 DEF Keep
    <3> HIDE DEF run
    <3>b. held' = [warm |-> held.warm, runs |-> Append(held.runs, run)]
      BY <2>1, <3>a DEF Records
    <3>1. /\ held' = [warm |-> held.warm, runs |-> Append(held.runs, run)]
          /\ n \in Nat /\ DOMAIN held.runs = 1 .. n
      BY <2>1, <3>b DEF Records, Runs
    <3>3. /\ DOMAIN held'.runs = 1 .. n + 1
          /\ held'.runs[n + 1] = run
          /\ \A i \in 1 .. n : held'.runs[i] = held.runs[i]
          /\ held'.warm = held.warm
      BY <2>1, <3>1 DEF Records, Runs
    <3> HIDE DEF n
    <3>4. held.warm < Own /\ \A i \in 1 .. n : held.runs[i].log < Own
      BY <2>5, <2>7, <3>1 DEF Before
    <3>5. ASSUME NEW i \in 1 .. n + 1
          PROVE  /\ held'.runs[i].log = held'.runs[i].seconds
                 /\ held'.runs[i].log \in DOMAIN children
                 /\ children[held'.runs[i].log]
                      = [arm |-> held'.runs[i].arm, state |-> "done", log |-> "final"]
                 /\ held'.warm # None /\ held'.warm < held'.runs[i].log
                 /\ \A j \in 1 .. i - 1 : held'.runs[j].log < held'.runs[i].log
      <4>1. CASE i = n + 1
        BY <2>1, <2>4, <2>7, <3>1, <3>2, <3>3, <3>4, <4>1
      <4>2. CASE i # n + 1
        <5>1. i \in 1 .. n /\ \A j \in 1 .. i - 1 : j \in 1 .. n
          BY <3>1, <4>2
        <5> QED BY <2>5, <2>7, <3>1, <3>3, <5>1 DEF OwnedBy
      <4> QED BY <4>1, <4>2
    <3> QED BY <2>5, <2>7, <3>3, <3>5 DEF OwnedBy
  <2> QED BY <2>6, <2>7
<1>2. CASE ~(children[Own].state = "done" /\ Believed # {})
  BY <1>2 DEF Collect, Exit, Blank, OwnedBy
<1> QED BY <1>1, <1>2

LEMMA KinshipInit == Init => Kinship
BY DEF Init, Kinship, OwnedBy, Absent, Blank

LEMMA KinshipExit ==
  ASSUME Kinship, NEW code, Exit(code), UNCHANGED <<manifest, children>>
  PROVE  Kinship'
BY DEF Kinship, Exit, OwnedBy, Blank

LEMMA KinshipNext ==
  ASSUME Inv, Kinship, [Next]_vars
  PROVE  Kinship'
<1>0. /\ TypeOK /\ DriverKnows
      /\ children \in Seq(Process) /\ Len(children) \in Nat
      /\ DOMAIN children = 1 .. Len(children)
  BY DEF Inv, TypeOK
<1>1. ASSUME NEW l \in Limits, Invoke(l)
      PROVE  Kinship'
  BY <1>1 DEF Invoke, Kinship
<1>2. CASE Load
  <2>1. CASE manifest.kind = "torn"
    BY <1>2, <2>1, KinshipExit DEF Load
  <2>2. CASE manifest.kind # "torn"
    <3>1. /\ held' = [warm |-> manifest.warm, runs |-> manifest.runs] /\ pc' = "choose"
          /\ UNCHANGED <<manifest, children>>
      BY <1>2, <2>2 DEF Load
    <3>2. OwnedBy(held', children)
      BY <3>1 DEF Kinship, OwnedBy
    <3> QED BY <3>1, <3>2 DEF Kinship
  <2> QED BY <2>1, <2>2
<1>3. CASE List
  <2>1. ASSUME NEW name \in Listing
        PROVE  name[1] <= Len(children)
    BY <1>0 DEF Listing
  <2> QED BY <1>3, <2>1 DEF List, Kinship
<1>4. CASE Spawn
  <2> DEFINE n == Len(children)
             child == [arm |-> NextArm, state |-> "starting", log |-> "none"]
  <2>1. /\ pc = "spawn" /\ pc' = "wait"
        /\ UNCHANGED <<manifest, held, before>>
        /\ children' = Append(children, child)
    BY <1>4 DEF Spawn
  <2> HIDE DEF child
  <2>2. /\ Len(children') = n + 1 /\ DOMAIN children' = 1 .. n + 1
        /\ children'[n + 1] = child
        /\ \A m \in DOMAIN children : m \in DOMAIN children' /\ children'[m] = children[m]
    BY <1>0, <2>1
  <2>3. \A m \in DOMAIN children' : LogOfState(children'[m])
    <3>1. LogOfState(child)  BY DEF child, LogOfState
    <3> QED BY <1>0, <2>2, <3>1 DEF Kinship
  <2>4. OwnedBy(manifest, children') /\ OwnedBy(held, children')
    BY <2>2, OwnedStays DEF Kinship
  <2>5. \A name \in before : name[1] < n + 1
    <3>1. \A name \in before : name[1] \in Nat  BY <1>0 DEF TypeOK, Names
    <3> QED BY <1>0, <2>1, <3>1 DEF Kinship
  <2>6. Before(held, n + 1)
    <3>1. OwnedBy(held, children)
      BY DEF Kinship
    <3>2. \A m \in DOMAIN children : m < n + 1
      BY <1>0
    <3>3. held.warm # None => held.warm \in DOMAIN children
      BY <3>1 DEF OwnedBy
    <3>4. \A i \in DOMAIN held.runs : held.runs[i].log \in DOMAIN children
      BY <3>1 DEF OwnedBy
    <3> HIDE DEF n
    <3> QED BY <3>2, <3>3, <3>4 DEF Before
  <2>7. child.arm = NextArm /\ NextArm' = NextArm /\ Own' = n + 1
    BY <2>1, <2>2 DEF child, NextArm, Own
  <2> QED BY <2>1, <2>2, <2>3, <2>4, <2>5, <2>6, <2>7 DEF Kinship, Before
<1>5. CASE Collect
  <2>1. OwnedBy(held', children)
    BY <1>5, CollectOwned
  <2>2. UNCHANGED <<manifest, children>> /\ pc' \in {"save", "idle"}
    BY <1>5 DEF Collect, Exit
  <2> QED BY <2>1, <2>2 DEF Kinship
<1>6. CASE Truncate
  <2>1. manifest' = Torn /\ pc' = "write" /\ UNCHANGED <<children, held>>
    BY <1>6 DEF Truncate
  <2>2. OwnedBy(Torn, children)
    BY DEF OwnedBy, Torn
  <2> QED BY <2>1, <2>2 DEF Kinship
<1>7. CASE Write
  <2>1. manifest' = Whole(held) /\ pc' = "choose" /\ UNCHANGED <<children, held>>
    BY <1>7 DEF Write
  <2>2. OwnedBy(Whole(held), children)
    BY DEF Kinship, OwnedBy, Whole
  <2> QED BY <2>1, <2>2 DEF Kinship
<1>8. CASE Stop
  BY <1>8, KinshipExit DEF Stop
<1>9. CASE Kill
  BY <1>9, KinshipExit DEF Kill
<1>10. ASSUME NEW m \in DOMAIN children, OpenLog(m) \/ End(m) \/ Fail(m)
       PROVE  Kinship'
  <2>1. PICK state \in {"running", "done", "failed"}, log \in {"none", "inprogress", "final"} :
          /\ Becomes(m, state, log)
          /\ children[m].state \in {"starting", "running"}
          /\ state = "running" => log = "inprogress"
          /\ state = "done" => log = "final"
    BY <1>10 DEF OpenLog, End, Fail
  <2> DEFINE child == [arm |-> children[m].arm, state |-> state, log |-> log]
  <2>2. /\ UNCHANGED <<manifest, pc, held, before>>
        /\ children' = [children EXCEPT ![m] = child]
    BY <2>1 DEF Becomes, driver
  <2>3. LogOfState(child) /\ child.arm = children[m].arm
    BY <2>1 DEF LogOfState
  <2> HIDE DEF child
  <2>4. /\ DOMAIN children' = DOMAIN children /\ Len(children') = Len(children)
        /\ children'[m] = child
        /\ \A k \in DOMAIN children : k # m => children'[k] = children[k]
    BY <1>0, <1>10, <2>2
  <2>5. children[m].log # "final"
    BY <1>10, <2>1 DEF Kinship, LogOfState
  <2>6. OwnedBy(manifest, children') /\ OwnedBy(held, children')
    BY <2>4, <2>5, OwnedStays DEF Kinship
  <2>7. \A k \in DOMAIN children' : LogOfState(children'[k])
    BY <2>3, <2>4 DEF Kinship
  <2>8. Own' = Own /\ NextArm' = NextArm
    BY <2>2, <2>4 DEF Own, NextArm
  <2>9. pc = "wait" => children'[Own].arm = children[Own].arm
    <3>1. SUFFICES ASSUME pc = "wait" PROVE children'[Own].arm = children[Own].arm
      OBVIOUS
    <3>2. Own \in DOMAIN children
      BY <1>0, <3>1 DEF DriverKnows, Own
    <3> QED BY <2>3, <2>4, <3>2
  <2> QED BY <2>2, <2>4, <2>6, <2>7, <2>8, <2>9 DEF Kinship, Before
<1>11. CASE UNCHANGED vars
  BY <1>11 DEF vars, driver, Kinship, Own, NextArm
<1> QED
  BY <1>1, <1>2, <1>3, <1>4, <1>5, <1>6, <1>7, <1>8, <1>9, <1>10, <1>11 DEF Next, Driver

(* run_once returns its own child's log: whatever orphans of killed drivers*)
(* write there, every run is recorded under the log of the child that was  *)
(* timed, finished, of the arm asked for, and no log twice.                *)
THEOREM RunsAreOfTheirOwnLogs == Spec => []OwnLogs
<1>1. Kinship => OwnLogs
  BY DEF Kinship, OwnLogs, Owned, OwnedBy
<1> QED
  BY <1>1, InvInit, InvNext, KinshipInit, KinshipNext, PTL DEF Spec

-----------------------------------------------------------------------------
(* Every pass of the schedule.                                             *)

(* Places within a pass stay apart when they are turned.                   *)
StayApart(n, a) == \A i, j \in 0 .. n - 1 : /\ (a + i) % n \in 0 .. n - 1
                                            /\ (a + i) % n = (a + j) % n => i = j

LEMMA TurnsStayApart ==
  ASSUME NEW n \in Nat \ {0}, NEW a \in Nat
  PROVE  StayApart(n, a)
<1>1. \A i \in 0 .. n - 1 : (a + i) % n \in 0 .. n - 1 OBVIOUS
<1>2. ASSUME NEW i \in 0 .. n - 1, NEW j \in 0 .. n - 1, (a + i) % n = (a + j) % n PROVE i = j
  <2> DEFINE x == (a + i) \div n
             y == (a + j) \div n
  <2>1. x \in Int /\ y \in Int /\ i \in Int /\ j \in Int OBVIOUS
  <2>2. a + i = n * x + ((a + i) % n) /\ a + j = n * y + ((a + j) % n) OBVIOUS
  <2>3. i - j = n * x - n * y
    <3>1. n * x \in Int /\ n * y \in Int /\ (a + i) % n \in Int BY <2>1
    <3> HIDE DEF x, y
    <3> QED BY <1>2, <2>1, <2>2, <3>1
  <2> HIDE DEF x, y
  <2>4. n * x - n * y = n * (x - y) BY <2>1
  <2>5. CASE x = y BY <2>1, <2>3, <2>5
  <2>6. CASE x > y
    <3>1. x - y >= 1 BY <2>1, <2>6
    <3>2. n * (x - y) >= n BY <2>1, <3>1
    <3> QED BY <2>1, <2>3, <2>4, <3>2
  <2>7. CASE y > x
    <3>1. y - x >= 1 BY <2>1, <2>7
    <3>2. n * (y - x) >= n BY <2>1, <3>1
    <3>3. n * (y - x) = n * y - n * x BY <2>1
    <3> QED BY <2>1, <2>3, <3>2, <3>3
  <2> QED BY <2>1, <2>5, <2>6, <2>7
<1> QED BY <1>1, <1>2 DEF StayApart

(* schedule: a pass of any number of arms begins one arm further on than   *)
(* the one before, and runs each of them once.                             *)
PassOfAll(arms, n, m, p) ==
  /\ Order(arms, m)[p * n + 1] = arms[(p % n) + 1]
  /\ \E at \in Bijection(1 .. n, 1 .. n) :
       \A k \in 1 .. n : /\ p * n + k \in DOMAIN Order(arms, m)
                          /\ Order(arms, m)[p * n + k] = arms[at[k]]

LEMMA PassRunsEveryArm ==
  ASSUME NEW arms, NEW n \in Nat \ {0}, Len(arms) = n, NEW m \in Nat, NEW p \in 0 .. m - 1
  PROVE  PassOfAll(arms, n, m, p)
<1> DEFINE at == [k \in 1 .. n |-> ((p + (p * n + (k - 1))) % n) + 1]
           turn(i) == (p + (p * n + i)) % n
<1>0. p \in Nat /\ \A i, j \in 0 .. n - 1 :
         /\ turn(i) \in 0 .. n - 1
         /\ turn(i) = turn(j) => i = j
  <2> DEFINE a == p + p * n
  <2>1. a \in Nat /\ \A i \in 0 .. n - 1 : p + (p * n + i) = a + i OBVIOUS
  <2> HIDE DEF a
  <2>2. \A i \in 0 .. n - 1 : turn(i) = (a + i) % n BY <2>1
  <2>3. \A i, j \in 0 .. n - 1 : /\ (a + i) % n \in 0 .. n - 1
                                 /\ (a + i) % n = (a + j) % n => i = j
    <3>1. StayApart(n, a) BY <2>1, TurnsStayApart
    <3> QED BY <3>1 DEF StayApart
  <2> HIDE DEF turn
  <2>4. p \in Nat OBVIOUS
  <2> QED BY <2>2, <2>3, <2>4
<1>1. Order(arms, m)
      = [k \in 1 .. m * n |-> arms[(((k - 1) \div n + (k - 1)) % n) + 1]]
  BY DEF Order
<1>2. ASSUME NEW k \in 1 .. n
      PROVE  /\ p * n + k \in DOMAIN Order(arms, m)
             /\ at[k] \in 1 .. n
             /\ Order(arms, m)[p * n + k] = arms[at[k]]
  <2>1. k - 1 \in 0 .. n - 1 /\ p \in Nat /\ (p * n + k) - 1 = p * n + (k - 1) OBVIOUS
  <2>2. /\ (p * n + (k - 1)) \div n = p
        /\ (p + (p * n + (k - 1))) % n \in 0 .. n - 1
    BY <1>0, <2>1
  <2>3. (p + 1) * n <= m * n /\ (p + 1) * n = p * n + n
    <3>1. p + 1 <= m /\ p + 1 \in Int /\ m \in Int /\ n \in Nat OBVIOUS
    <3>2. (p + 1) * n <= m * n BY <3>1, TimesMonotone
    <3>3. (p + 1) * n = p * n + n BY <2>1
    <3> QED BY <3>2, <3>3
  <2>4. p * n \in Nat /\ m * n \in Nat BY <2>1
  <2>5. p * n + k \in 1 .. m * n
    <3> DEFINE x == p * n
               y == m * n
    <3>1. x \in Nat /\ y \in Nat /\ x + n <= y BY <2>3, <2>4
    <3> HIDE DEF x, y
    <3>2. x + k \in 1 .. y BY <3>1
    <3> QED BY <3>2 DEF x, y
  <2>6. at[k] \in 1 .. n
    <3> DEFINE spot == (p + (p * n + (k - 1))) % n
    <3>1. spot \in 0 .. n - 1 BY <2>2
    <3>2. at[k] = spot + 1 OBVIOUS
    <3> HIDE DEF spot, at
    <3> QED BY <3>1, <3>2
  <2>7. Order(arms, m)[p * n + k]
        = arms[((((p * n + k) - 1) \div n + ((p * n + k) - 1)) % n) + 1]
    BY <1>1, <2>5
  <2>8. Order(arms, m)[p * n + k] = arms[((p + (p * n + (k - 1))) % n) + 1]
    BY <2>1, <2>2, <2>7
  <2>9. p * n + k \in DOMAIN Order(arms, m) BY <1>1, <2>5
  <2> QED BY <2>6, <2>8, <2>9
<1>3. ASSUME NEW k \in 1 .. n, NEW l \in 1 .. n, at[k] = at[l] PROVE k = l
  <2>1. k - 1 \in 0 .. n - 1 /\ l - 1 \in 0 .. n - 1 /\ p \in Nat OBVIOUS
  <2>2. at[k] = turn(k - 1) + 1 /\ at[l] = turn(l - 1) + 1 BY DEF at
  <2>3. turn(k - 1) + 1 = turn(l - 1) + 1 BY <1>3, <2>2
  <2>4. turn(k - 1) \in 0 .. n - 1 /\ turn(l - 1) \in 0 .. n - 1 BY <1>0, <2>1
  <2> HIDE DEF turn
  <2>5. turn(k - 1) = turn(l - 1) BY <2>3, <2>4
  <2>6. k - 1 = l - 1 BY <1>0, <2>1, <2>5
  <2> QED BY <2>6
<1>4. at \in Bijection(1 .. n, 1 .. n)
  <2>1. at \in [1 .. n -> 1 .. n] BY <1>2
  <2>2. IsFiniteSet(1 .. n) BY FirstNumbers
  <2>3. at \in Injection(1 .. n, 1 .. n)
    <3> HIDE DEF at
    <3> QED BY <1>3, <2>1 DEF Injection, IsInjective
  <2> HIDE DEF at
  <2>4. at \in Surjection(1 .. n, 1 .. n)
    <3> DEFINE R == {at[k] : k \in 1 .. n}
    <3>1. at \in Bijection(1 .. n, R)
      BY <2>1, <2>3 DEF Bijection, Injection, Surjection, IsInjective
    <3>2. R \in SUBSET (1 .. n) BY <2>1
    <3>3. ExistsBijection(1 .. n, R) BY <3>1 DEF ExistsBijection
    <3> HIDE DEF R
    <3>4. Cardinality(R) = Cardinality(1 .. n) BY <2>2, <3>3, FS_Bijection
    <3>5. R = 1 .. n BY <2>2, <3>2, <3>4, FS_Subset
    <3> QED BY <2>1, <3>5 DEF R, Surjection
  <2> QED BY <2>3, <2>4 DEF Bijection
<1>5. Order(arms, m)[p * n + 1] = arms[(p % n) + 1]
  <2>1. 1 \in 1 .. n /\ p * n + 0 = p * n /\ p + p * n \in Nat OBVIOUS
  <2>2. at[1] = ((p + (p * n + (1 - 1))) % n) + 1 BY <2>1
  <2>3. (p + p * n) % n = p % n
    <3>1. p \div n \in Nat /\ p % n \in 0 .. n - 1 /\ p = n * (p \div n) + (p % n) OBVIOUS
    <3>2. p + p * n = ((p \div n) + p) * n + (p % n)
      <4> DEFINE x == p \div n
                 y == p % n
      <4>1. x \in Nat /\ y \in Nat /\ p \in Nat /\ p = n * x + y BY <3>1
      <4> HIDE DEF x, y
      <4>2. (x + p) * n = x * n + p * n BY <4>1
      <4>3. n * x = x * n BY <4>1
      <4>4. p + p * n = (x + p) * n + y BY <4>1, <4>2, <4>3
      <4> QED BY <4>4 DEF x, y
    <3>3. (p \div n) + p \in Nat BY <3>1
    <3>4. (((p \div n) + p) * n + (p % n)) % n = p % n
      <4> DEFINE x == (p \div n) + p
                 y == p % n
      <4>1. x \in Nat /\ y \in 0 .. n - 1 BY <3>1, <3>3
      <4> HIDE DEF x, y
      <4>2. (x * n + y) % n = y BY <4>1
      <4> QED BY <4>2 DEF x, y
    <3> QED BY <3>2, <3>4
  <2>4. at[1] = (p % n) + 1
    <3>1. p + (p * n + (1 - 1)) = p + p * n OBVIOUS
    <3> HIDE DEF at
    <3> QED BY <2>2, <2>3, <3>1
  <2> HIDE DEF at
  <2> QED BY <1>2, <2>1, <2>4
<1> HIDE DEF at
<1> QED BY <1>2, <1>4, <1>5 DEF PassOfAll

(* An exit of 0 means that, for any arms and passes and however the run was*)
(* split, killed and resumed, every pass recorded has a run of each arm,   *)
(* and began with the arm after the one the pass before it began with.     *)
PassesAreWhole ==
  status = OK =>
    \A p \in 0 .. Passes - 1 :
      LET run(k) == manifest.runs[p * Len(Arms) + k].arm IN
      /\ run(1) = Arms[(p % Len(Arms)) + 1]
      /\ \E at \in Bijection(1 .. Len(Arms), 1 .. Len(Arms)) :
           \A k \in 1 .. Len(Arms) : run(k) = Arms[at[k]]

THEOREM RecordedPassesAreWhole == Spec => []PassesAreWhole
<1>1. CompleteMeansDone => PassesAreWhole
  <2> DEFINE n == Len(Arms)
             run(i) == manifest.runs[i].arm
  <2> SUFFICES ASSUME CompleteMeansDone, status = OK, NEW p \in 0 .. Passes - 1
               PROVE  /\ run(p * n + 1) = Arms[(p % n) + 1]
                      /\ \E at \in Bijection(1 .. n, 1 .. n) :
                           \A k \in 1 .. n : run(p * n + k) = Arms[at[k]]
    BY DEF PassesAreWhole
  <2>1. n \in Nat \ {0} /\ Passes \in Nat BY ScheduleAssumption
  <2>2. [i \in DOMAIN manifest.runs |-> run(i)] = Schedule BY DEF CompleteMeansDone
  <2>3. \A i \in DOMAIN Schedule : run(i) = Schedule[i] BY <2>2
  <2>4. Len(Arms) = n OBVIOUS
  <2> HIDE DEF n, run
  <2>5. /\ Order(Arms, Passes)[p * n + 1] = Arms[(p % n) + 1]
        /\ \E at \in Bijection(1 .. n, 1 .. n) :
             \A k \in 1 .. n : /\ p * n + k \in DOMAIN Order(Arms, Passes)
                                /\ Order(Arms, Passes)[p * n + k] = Arms[at[k]]
    <3>1. PassOfAll(Arms, n, Passes, p) BY <2>1, <2>4, PassRunsEveryArm
    <3> QED BY <3>1 DEF PassOfAll
  <2>6. PICK at \in Bijection(1 .. n, 1 .. n) :
          \A k \in 1 .. n : /\ p * n + k \in DOMAIN Schedule
                             /\ Schedule[p * n + k] = Arms[at[k]]
    BY <2>5 DEF Schedule
  <2>7. \A k \in 1 .. n : run(p * n + k) = Arms[at[k]] BY <2>3, <2>6
  <2>8. run(p * n + 1) = Arms[(p % n) + 1]
    <3>1. 1 \in 1 .. n BY <2>1
    <3>2. p * n + 1 \in DOMAIN Schedule BY <2>6, <3>1
    <3> QED BY <2>3, <2>5, <3>2 DEF Schedule
  <2> QED BY <2>7, <2>8
<1> QED BY <1>1, SuccessIsComplete, PTL

-----------------------------------------------------------------------------
(* What is chosen of a list of readings adds up.                           *)

Chosen(values, c) == [i \in 1 .. Len(values) |-> IF i \in c THEN values[i] ELSE 0]

(* The sum exists, and is what the recursion of Total gives.               *)
LEMMA TotalIsSum ==
  ASSUME NEW values \in Seq(Int), NEW c
  PROVE  \E f \in [0 .. Len(values) -> Int] :
           /\ SumsTo(f, Chosen(values, c), Len(values))
           /\ Total(values, c) = f[Len(values)]
<1> DEFINE n == Len(values)
           a == Chosen(values, c)
           P(f) == f = [i \in 0 .. n |-> IF i = 0 THEN 0
                                         ELSE f[i - 1] + (IF i \in c THEN values[i] ELSE 0)]
<1>0. n \in Nat /\ \A i \in 1 .. n : /\ a[i] = (IF i \in c THEN values[i] ELSE 0)
                                     /\ a[i] \in Int
  <2>1. n \in Nat /\ \A i \in 1 .. n : values[i] \in Int OBVIOUS
  <2>2. \A i \in 1 .. n : a[i] = (IF i \in c THEN values[i] ELSE 0) BY DEF Chosen
  <2> QED BY <2>1, <2>2
<1>1. \E f \in [0 .. n -> Int] : SumsTo(f, a, n)
  <2>1. \A i \in 1 .. n : a[i] \in Int BY <1>0
  <2> QED BY <1>0, <2>1, SumsExist
<1>2. ASSUME NEW f PROVE P(f) <=> SumsTo(f, a, n)
  <2>1. \A i \in 0 .. n : i # 0 => i \in 1 .. n BY <1>0
  <2>2. [i \in 0 .. n |-> IF i = 0 THEN 0
                          ELSE f[i - 1] + (IF i \in c THEN values[i] ELSE 0)]
        = [i \in 0 .. n |-> IF i = 0 THEN 0 ELSE f[i - 1] + a[i]]
    BY <1>0, <2>1
  <2> HIDE DEF a, n
  <2> QED BY <2>2 DEF SumsTo
<1>3. P(CHOOSE f : P(f))
  <2>1. \E f : P(f) BY <1>1, <1>2
  <2> HIDE DEF P
  <2> QED BY <2>1
<1>4. Total(values, c) = (CHOOSE f : P(f))[n] BY DEF Total
<1>5. PICK g \in [0 .. n -> Int] : SumsTo(g, a, n) BY <1>1
<1> DEFINE h == CHOOSE f : P(f)
<1>6. SumsTo(h, a, n) BY <1>2, <1>3
<1> HIDE DEF h, P
<1>7. \A i \in 0 .. n : g[i] = h[i]
  BY <1>0, <1>5, <1>6, SumsAgree
<1>8. Total(values, c) = h[n] BY <1>4 DEF h
<1> QED BY <1>0, <1>5, <1>7, <1>8

(* Nothing chosen adds up to nothing.                                      *)
LEMMA TotalOfNone ==
  ASSUME NEW values \in Seq(Int)
  PROVE  Total(values, {}) = 0
<1>1. PICK f : SumsTo(f, Chosen(values, {}), Len(values)) /\ Total(values, {}) = f[Len(values)]
  BY TotalIsSum
<1>2. \A i \in 1 .. Len(values) : Chosen(values, {})[i] = 0 BY DEF Chosen
<1> QED BY <1>1, <1>2, SumOfZeros

(* One place more adds its reading: the running sums differ by it from     *)
(* there on.                                                               *)
LEMMA TotalOfOneMore ==
  ASSUME NEW values \in Seq(Int), NEW c, NEW k \in 1 .. Len(values), k \notin c
  PROVE  Total(values, c \cup {k}) = Total(values, c) + values[k]
<1> DEFINE n == Len(values)
           a == Chosen(values, c)
           b == Chosen(values, c \cup {k})
           d == values[k]
<1>0. n \in Nat /\ k \in 1 .. n /\ d \in Int /\ \A i \in 1 .. n : values[i] \in Int
  OBVIOUS
<1>1. PICK f : f \in [0 .. n -> Int] /\ SumsTo(f, a, n) /\ Total(values, c) = f[n]
  BY TotalIsSum
<1>2. PICK g : g \in [0 .. n -> Int] /\ SumsTo(g, b, n) /\ Total(values, c \cup {k}) = g[n]
  BY TotalIsSum
<1>3. \A i \in 1 .. n : /\ a[i] = (IF i \in c THEN values[i] ELSE 0)
                        /\ b[i] = (IF i \in c \cup {k} THEN values[i] ELSE 0)
  BY DEF Chosen
<1>4. a[k] = 0 /\ b[k] = d /\ \A i \in 1 .. n : i # k => b[i] = a[i]
  <2>1. ASSUME NEW i \in 1 .. n, i # k PROVE b[i] = a[i]
    <3>1. i \in c \cup {k} <=> i \in c BY <2>1
    <3> QED BY <1>3, <3>1
  <2>2. k \notin c /\ k \in c \cup {k} /\ k \in 1 .. n OBVIOUS
  <2>3. a[k] = 0 /\ b[k] = d BY <1>3, <2>2
  <2> QED BY <2>1, <2>3
<1> HIDE DEF n, a, b, d
<1>5. ASSUME NEW i \in 1 .. n PROVE a[i] \in Int
  <2>1. a[i] = values[i] \/ a[i] = 0 BY <1>3
  <2>2. values[i] \in Int BY <1>0
  <2> QED BY <2>1, <2>2
<1>6. /\ f[0] = 0 /\ g[0] = 0
      /\ \A i \in 1 .. n : f[i] = f[i - 1] + a[i]
      /\ \A i \in 1 .. n : g[i] = g[i - 1] + b[i]
  <2>1. n \in Nat /\ SumsTo(f, a, n) /\ SumsTo(g, b, n) BY <1>0, <1>1, <1>2
  <2>2. f[0] = 0 /\ \A i \in 1 .. n : f[i] = f[i - 1] + a[i] BY <2>1, SumsStep
  <2>3. g[0] = 0 /\ \A i \in 1 .. n : g[i] = g[i - 1] + b[i] BY <2>1, SumsStep
  <2> QED BY <2>2, <2>3
<1> DEFINE S == {i \in Nat : i <= n => g[i] = (IF i < k THEN f[i] ELSE f[i] + d)}
<1>7. 0 \in S
  <2>1. 0 < k BY <1>0
  <2> QED BY <1>6, <2>1
<1>8. ASSUME NEW i \in Nat, i \in S PROVE i + 1 \in S
  <2> SUFFICES ASSUME i + 1 <= n
               PROVE  g[i + 1] = (IF i + 1 < k THEN f[i + 1] ELSE f[i + 1] + d)
    OBVIOUS
  <2>1. i + 1 \in 1 .. n /\ (i + 1) - 1 = i /\ i <= n /\ i \in 0 .. n /\ k \in Int
    BY <1>0
  <2>2. g[i] = (IF i < k THEN f[i] ELSE f[i] + d) BY <1>8, <2>1
  <2>3. f[i + 1] = f[i] + a[i + 1] /\ g[i + 1] = g[i] + b[i + 1] BY <1>6, <2>1
  <2>4. f[i] \in Int /\ a[i + 1] \in Int /\ d \in Int BY <1>0, <1>1, <1>5, <2>1
  <2> HIDE DEF S
  <2>5. CASE i + 1 < k
    <3>1. i < k /\ i + 1 # k BY <2>1, <2>5
    <3> QED BY <1>4, <2>1, <2>2, <2>3, <2>5, <3>1
  <2>6. CASE i + 1 = k
    <3>1. i < k /\ ~ (i + 1 < k) BY <2>1, <2>6
    <3>2. g[i + 1] = f[i] + d /\ f[i + 1] = f[i] + 0
      BY <1>4, <2>2, <2>3, <2>6, <3>1
    <3> QED BY <2>4, <3>1, <3>2
  <2>7. CASE k < i + 1
    <3>1. ~ (i < k) /\ ~ (i + 1 < k) /\ i + 1 # k BY <2>1, <2>7
    <3>2. g[i + 1] = (f[i] + d) + a[i + 1] BY <1>4, <2>1, <2>2, <2>3, <3>1
    <3> QED BY <2>3, <2>4, <3>1, <3>2
  <2> QED BY <2>1, <2>5, <2>6, <2>7
<1> HIDE DEF S
<1>9. \A i \in Nat : i \in S BY <1>7, <1>8, InductionOverNat
<1>10. n \in S /\ ~ (n < k) BY <1>0, <1>9
<1>11. g[n] = f[n] + d BY <1>0, <1>10 DEF S
<1> QED BY <1>1, <1>2, <1>11 DEF d

(* What is chosen adds up to a number.                                     *)
LEMMA TotalType ==
  ASSUME NEW values \in Seq(Int), NEW c
  PROVE  Total(values, c) \in Int
<1>1. PICK f \in [0 .. Len(values) -> Int] : Total(values, c) = f[Len(values)]
  BY TotalIsSum
<1>2. Len(values) \in 0 .. Len(values) OBVIOUS
<1> QED BY <1>1, <1>2

(* What is chosen in two parts adds up in two parts.                       *)
LEMMA TotalOfBoth ==
  ASSUME NEW values \in Seq(Int), NEW c, NEW d \in SUBSET (1 .. Len(values)), c \cap d = {}
  PROVE  Total(values, c \cup d) = Total(values, c) + Total(values, d)
<1> DEFINE D == (1 .. Len(values)) \ c
           P == {e \in SUBSET D : Total(values, c \cup e) = Total(values, c) + Total(values, e)}
<1>0. IsFiniteSet(D)
  <2>1. IsFiniteSet(1 .. Len(values)) BY FS_Interval
  <2> QED BY <2>1, FS_Subset
<1>1. {} \in P
  <2>1. Total(values, c) \in Int /\ Total(values, {}) = 0 BY TotalType, TotalOfNone
  <2>2. c \cup {} = c OBVIOUS
  <2> QED BY <2>1, <2>2
<1>2. ASSUME NEW e \in SUBSET D, NEW x \in D \ e, e \in P PROVE e \cup {x} \in P
  <2> DEFINE both == c \cup e
             more == e \cup {x}
             all == c \cup more
  <2>1. x \in 1 .. Len(values) /\ x \notin both /\ x \notin e OBVIOUS
  <2>2. Total(values, both \cup {x}) = Total(values, both) + values[x]
    BY <2>1, TotalOfOneMore
  <2>3. Total(values, more) = Total(values, e) + values[x]
    BY <2>1, TotalOfOneMore
  <2>4. both \cup {x} = all OBVIOUS
  <2>5. values[x] \in Int /\ Total(values, c) \in Int /\ Total(values, e) \in Int
    BY <2>1, TotalType
  <2>6. Total(values, both) = Total(values, c) + Total(values, e) BY <1>2
  <2>7. more \in SUBSET D OBVIOUS
  <2> HIDE DEF both, more, all, D
  <2>8. Total(values, all) = Total(values, both) + values[x] BY <2>2, <2>4
  <2>9. Total(values, all) = Total(values, c) + Total(values, more)
    BY <2>3, <2>5, <2>6, <2>8
  <2> QED BY <2>7, <2>9 DEF all, more
<1>4. d \in SUBSET D OBVIOUS
<1> HIDE DEF P, D
<1>3. \A e \in SUBSET D : e \in P BY <1>0, <1>1, <1>2, OneMemberMore
<1> QED BY <1>3, <1>4 DEF P

(* Where a map h takes places, that no two go to one place, and that each  *)
(* keeps its reading.                                                      *)
Moved(h, c) == {h[i] : i \in c}
KeepsApart(h, D) == \A i, j \in D : h[i] = h[j] => i = j
Carries(h, v, w) == \A i \in 1 .. Len(v) : h[i] \in 1 .. Len(w) /\ w[h[i]] = v[i]

(* Readings that only change places add up to the same.                    *)
LEMMA TotalOfMoved ==
  ASSUME NEW v \in Seq(Int), NEW w \in Seq(Int), NEW h,
         Carries(h, v, w), KeepsApart(h, 1 .. Len(v))
  PROVE  \A c \in SUBSET (1 .. Len(v)) : Total(w, Moved(h, c)) = Total(v, c)
<1> DEFINE D == 1 .. Len(v)
           P == {c \in SUBSET D : Total(w, Moved(h, c)) = Total(v, c)}
<1>0. IsFiniteSet(D) BY FS_Interval
<1>1. {} \in P
  <2>1. Moved(h, {}) = {} BY DEF Moved
  <2>2. Total(w, {}) = 0 /\ Total(v, {}) = 0 BY TotalOfNone
  <2> QED BY <2>1, <2>2
<1>2. ASSUME NEW c \in SUBSET D, NEW x \in D \ c, c \in P PROVE c \cup {x} \in P
  <2> DEFINE more == c \cup {x}
             here == Moved(h, c)
             there == Moved(h, more)
  <2>1. x \in 1 .. Len(v) /\ x \notin c /\ more \in SUBSET D OBVIOUS
  <2>2. h[x] \in 1 .. Len(w) /\ w[h[x]] = v[x] BY DEF Carries
  <2>3. h[x] \notin here
    <3>1. \A i \in c : h[i] # h[x] BY DEF KeepsApart
    <3> QED BY <3>1 DEF Moved
  <2>4. there = here \cup {h[x]} BY DEF Moved
  <2>5. Total(v, more) = Total(v, c) + v[x] BY <2>1, TotalOfOneMore
  <2> HIDE DEF here, there, more
  <2>6. Total(w, here \cup {h[x]}) = Total(w, here) + w[h[x]]
    <3>1. \A k \in 1 .. Len(w) : k \notin here
            => Total(w, here \cup {k}) = Total(w, here) + w[k]
      BY TotalOfOneMore
    <3> QED BY <2>2, <2>3, <3>1
  <2>7. Total(w, here) = Total(v, c) BY <1>2 DEF here
  <2>8. Total(w, there) = Total(v, more) BY <2>2, <2>4, <2>5, <2>6, <2>7
  <2> QED BY <2>1, <2>8 DEF there, more
<1> HIDE DEF P, D
<1>3. \A c \in SUBSET D : c \in P BY <1>0, <1>1, <1>2, OneMemberMore
<1> QED BY <1>3 DEF P, D

(* As many readings, each lower than any of the others, add up to less.    *)
LEMMA LowerAddsUpToLess ==
  ASSUME NEW v \in Seq(Int)
  PROVE  \A k \in Nat : \A X, Y \in SUBSET (1 .. Len(v)) :
           Cardinality(X) = k /\ Cardinality(Y) = k /\ (\A x \in X, y \in Y : v[x] < v[y])
             => Total(v, X) + k <= Total(v, Y)
<1> DEFINE D == 1 .. Len(v)
           S == {k \in Nat : \A X, Y \in SUBSET D :
                   Cardinality(X) = k /\ Cardinality(Y) = k /\ (\A x \in X, y \in Y : v[x] < v[y])
                     => Total(v, X) + k <= Total(v, Y)}
<1>0. /\ \A c \in SUBSET D : IsFiniteSet(c)
      /\ \A x \in D : v[x] \in Int
      /\ \A c : Total(v, c) \in Int
  <2>1. IsFiniteSet(D) BY FS_Interval
  <2>2. \A c \in SUBSET D : IsFiniteSet(c) BY <2>1, FS_Subset
  <2>3. \A x \in D : v[x] \in Int OBVIOUS
  <2>4. \A c : Total(v, c) \in Int BY TotalType
  <2> QED BY <2>2, <2>3, <2>4
<1>1. 0 \in S
  <2>1. \A c \in SUBSET D : Cardinality(c) = 0 => c = {} BY <1>0, FS_EmptySet
  <2>2. Total(v, {}) = 0 BY TotalOfNone
  <2>3. Total(v, {}) + 0 <= Total(v, {}) BY <2>2
  <2>4. ASSUME NEW X \in SUBSET D, NEW Y \in SUBSET D, Cardinality(X) = 0, Cardinality(Y) = 0
        PROVE  Total(v, X) + 0 <= Total(v, Y)
    <3>1. X = {} /\ Y = {} BY <2>1, <2>4
    <3> QED BY <2>3, <3>1
  <2> HIDE DEF D
  <2> QED BY <2>4
<1>2. ASSUME NEW k \in Nat, k \in S PROVE k + 1 \in S
  <2> SUFFICES ASSUME NEW X \in SUBSET D, NEW Y \in SUBSET D,
                      Cardinality(X) = k + 1, Cardinality(Y) = k + 1,
                      \A x \in X, y \in Y : v[x] < v[y]
               PROVE  Total(v, X) + (k + 1) <= Total(v, Y)
    OBVIOUS
  <2>1. X # {} /\ Y # {}
    <3>1. k + 1 # 0 /\ Cardinality({}) = 0 BY FS_EmptySet
    <3> QED BY <3>1
  <2>2. PICK x \in X : TRUE BY <2>1
  <2>3. PICK y \in Y : TRUE BY <2>1
  <2> DEFINE U == X \ {x}
             W == Y \ {y}
  <2>4. Cardinality(U) = k /\ Cardinality(W) = k
    <3>1. IsFiniteSet(X) /\ IsFiniteSet(Y) BY <1>0
    <3>2. Cardinality(U) = Cardinality(X) - 1 BY <2>2, <3>1, FS_RemoveElement
    <3>3. Cardinality(W) = Cardinality(Y) - 1 BY <2>3, <3>1, FS_RemoveElement
    <3> QED BY <3>2, <3>3
  <2>5. /\ U \in SUBSET D /\ W \in SUBSET D /\ U \cup {x} = X /\ W \cup {y} = Y
        /\ x \in D /\ y \in D /\ x \notin U /\ y \notin W
        /\ \A a \in U, b \in W : v[a] < v[b]
    BY <2>2, <2>3
  <2>6. v[x] < v[y] /\ v[x] \in Int /\ v[y] \in Int BY <1>0, <2>2, <2>3, <2>5
  <2> HIDE DEF U, W
  <2>7. Total(v, U) + k <= Total(v, W) BY <1>2, <2>4, <2>5
  <2>8. Total(v, U \cup {x}) = Total(v, U) + v[x] BY <2>5, TotalOfOneMore
  <2>9. Total(v, W \cup {y}) = Total(v, W) + v[y] BY <2>5, TotalOfOneMore
  <2>10. Total(v, X) = Total(v, U) + v[x] /\ Total(v, Y) = Total(v, W) + v[y]
    BY <2>5, <2>8, <2>9
  <2>11. Total(v, U) \in Int /\ Total(v, W) \in Int BY <1>0
  <2> QED
    <3> DEFINE p == Total(v, U)
               q == Total(v, W)
               a == v[x]
               b == v[y]
    <3>1. p \in Int /\ q \in Int /\ a \in Int /\ b \in Int BY <2>6, <2>11
    <3>2. p + k <= q /\ a < b BY <2>6, <2>7
    <3>3. Total(v, X) = p + a /\ Total(v, Y) = q + b BY <2>10
    <3> HIDE DEF p, q, a, b
    <3>4. (p + a) + (k + 1) <= q + b BY <3>1, <3>2
    <3> QED BY <3>3, <3>4
<1> HIDE DEF S
<1>3. \A k \in Nat : k \in S BY <1>1, <1>2, InductionOverNat
<1> QED BY <1>3 DEF S

-----------------------------------------------------------------------------
(* Splits.                                                                 *)

(* There is a split of every size, finitely many, and what one leaves is a *)
(* split of the rest.                                                      *)
LEMMA SplitsAre ==
  ASSUME NEW N \in Nat, NEW size \in 0 .. N
  PROVE  /\ IsFiniteSet(Splits(N, size))
         /\ Cardinality(Splits(N, size)) \in Nat
         /\ \A c \in Splits(N, size) :
              /\ c \in SUBSET (1 .. N) /\ IsFiniteSet(c) /\ Cardinality(c) = size
              /\ (1 .. N) \ c \in Splits(N, N - size)
<1>1. IsFiniteSet(1 .. N) /\ Cardinality(1 .. N) = N BY FirstNumbers
<1>2. IsFiniteSet(SUBSET (1 .. N)) BY <1>1, FS_SUBSET
<1>3. Splits(N, size) \subseteq SUBSET (1 .. N) BY DEF Splits
<1>4. IsFiniteSet(Splits(N, size)) BY <1>2, <1>3, FS_Subset
<1>5. ASSUME NEW c \in Splits(N, size)
      PROVE  /\ c \in SUBSET (1 .. N) /\ IsFiniteSet(c) /\ Cardinality(c) = size
             /\ (1 .. N) \ c \in Splits(N, N - size)
  <2>1. c \in SUBSET (1 .. N) /\ Cardinality(c) = size BY DEF Splits
  <2>2. IsFiniteSet(c) BY <1>1, <2>1, FS_Subset
  <2>3. Cardinality((1 .. N) \ c) = N - Cardinality((1 .. N) \cap c)
    BY <1>1, FS_Difference
  <2>4. (1 .. N) \cap c = c BY <2>1
  <2>5. Cardinality((1 .. N) \ c) = N - size BY <2>1, <2>3, <2>4
  <2> QED BY <2>1, <2>2, <2>5 DEF Splits
<1> QED BY <1>4, <1>5, FS_CardinalityType

(* A distance scaled is the distance of what was scaled.                   *)
LEMMA AbsScaled ==
  ASSUME NEW x \in Int, NEW y \in Int, NEW n \in Nat
  PROVE  Abs(x * n - y * n) = Abs(x - y) * n
<1>1. CASE x <= y
  <2>1. x * n <= y * n BY <1>1, TimesMonotone
  <2>2. x * n \in Int /\ y * n \in Int OBVIOUS
  <2>3. Abs(x * n - y * n) = y * n - x * n BY <2>1, <2>2 DEF Abs
  <2>4. Abs(x - y) = y - x BY <1>1 DEF Abs
  <2>5. (y - x) * n = y * n - x * n OBVIOUS
  <2> QED BY <2>3, <2>4, <2>5
<1>2. CASE y <= x
  <2>1. y * n <= x * n BY <1>2, TimesMonotone
  <2>2. x * n \in Int /\ y * n \in Int OBVIOUS
  <2>3. Abs(x * n - y * n) = x * n - y * n BY <2>1, <2>2 DEF Abs
  <2>4. Abs(x - y) = x - y BY <1>2 DEF Abs
  <2>5. (x - y) * n = x * n - y * n OBVIOUS
  <2> QED BY <2>3, <2>4, <2>5
<1> QED BY <1>1, <1>2

(* Scaling by a positive number keeps the order.                           *)
LEMMA ScaledOrder ==
  ASSUME NEW a \in Int, NEW b \in Int, NEW n \in Nat \ {0}
  PROVE  a * n >= b * n <=> a >= b
<1>1. ASSUME b <= a PROVE b * n <= a * n BY <1>1, TimesMonotone
<1>2. ASSUME a < b PROVE a * n < b * n
  <2>1. a + 1 <= b BY <1>2
  <2>2. (a + 1) * n <= b * n BY <2>1, TimesMonotone
  <2>3. (a + 1) * n = a * n + n OBVIOUS
  <2> QED BY <2>2, <2>3
<1> QED BY <1>1, <1>2

(* How far apart the two sides of a split are, where they are as large.    *)
Distance(v, c) == Abs(Total(v, c) - Total(v, (1 .. Len(v)) \ c))

(* With halves as large, the gaps are the distances scaled by their size.  *)
LEMMA GapOfHalves ==
  ASSUME NEW n \in Nat \ {0}, NEW v \in Seq(Int), Len(v) = n + n,
         NEW c \in Splits(n + n, n), NEW d \in Splits(n + n, n)
  PROVE  Gap(v, c) >= Gap(v, d) <=> Distance(v, c) >= Distance(v, d)
<1>0. DOMAIN v = 1 .. Len(v) /\ (n + n) - n = n /\ n + n \in Nat /\ n \in 0 .. n + n OBVIOUS
<1>1. Cardinality(c) = n /\ Cardinality(d) = n BY <1>0, SplitsAre
<1>2. ASSUME NEW e, Cardinality(e) = n PROVE Gap(v, e) = Distance(v, e) * n
  <2>1. Total(v, e) \in Int /\ Total(v, (1 .. Len(v)) \ e) \in Int BY TotalType
  <2>2. Gap(v, e) = Abs(Total(v, e) * n - Total(v, (1 .. Len(v)) \ e) * n)
    <3>1. Gap(v, e) = Abs(Total(v, e) * (Len(v) - Cardinality(e))
                            - Total(v, DOMAIN v \ e) * Cardinality(e))
      BY DEF Gap
    <3>2. Len(v) - Cardinality(e) = n /\ DOMAIN v = 1 .. Len(v) BY <1>0, <1>2
    <3> QED BY <1>2, <3>1, <3>2, Zenon
  <2> QED BY <2>1, <2>2, AbsScaled DEF Distance
<1>3. Distance(v, c) \in Int /\ Distance(v, d) \in Int
  <2>1. \A x, y \in Int : Abs(x - y) \in Int BY DEF Abs
  <2> QED BY <2>1, TotalType DEF Distance
<1>4. Gap(v, c) = Distance(v, c) * n /\ Gap(v, d) = Distance(v, d) * n BY <1>1, <1>2
<1> QED BY <1>3, <1>4, ScaledOrder

(* Two lists of readings, one after the other.                             *)
LEMMA Pooled ==
  ASSUME NEW s \in Seq(Int), NEW t \in Seq(Int)
  PROVE  /\ s \o t \in Seq(Int) /\ Len(s \o t) = Len(s) + Len(t)
         /\ Len(s) \in Nat /\ Len(t) \in Nat
         /\ DOMAIN s = 1 .. Len(s) /\ DOMAIN t = 1 .. Len(t)
         /\ \A i \in 1 .. Len(s) : (s \o t)[i] = s[i] /\ s[i] \in Int
         /\ \A i \in 1 .. Len(t) : (s \o t)[Len(s) + i] = t[i] /\ t[i] \in Int
OBVIOUS

(* The places of the first n of N, and those of the rest.                  *)
LEMMA FirstPlaces ==
  ASSUME NEW N \in Nat, NEW n \in 0 .. N
  PROVE  /\ 1 .. n \in Splits(N, n)
         /\ (1 .. N) \ (1 .. n) = n + 1 .. N
         /\ n + 1 .. N \in Splits(N, N - n)
<1>1. Cardinality(1 .. n) = n BY FirstNumbers
<1>2. 1 .. n \in Splits(N, n) BY <1>1 DEF Splits
<1>3. (1 .. N) \ (1 .. n) = n + 1 .. N OBVIOUS
<1>4. (1 .. N) \ (1 .. n) \in Splits(N, N - n) BY <1>2, SplitsAre
<1> QED BY <1>2, <1>3, <1>4

(* The splits that count against a reading.                                *)
AsFar(v, size, observed) == {c \in Splits(Len(v), size) : Gap(v, c) >= Gap(v, observed)}

(* permutation_p and p_floor, as counts of splits.                         *)
LEMMA PIs ==
  ASSUME NEW s \in Seq(Int), NEW t \in Seq(Int)
  PROVE  /\ PermutationP(s, t) =
              [num |-> Cardinality(AsFar(s \o t, Len(s), 1 .. Len(s))),
               den |-> Cardinality(Splits(Len(s) + Len(t), Len(s)))]
         /\ PFloor(Len(s), Len(t)) =
              [num |-> 2, den |-> Cardinality(Splits(Len(s) + Len(t), Len(s)))]
         /\ AsFar(s \o t, Len(s), 1 .. Len(s)) \subseteq Splits(Len(s) + Len(t), Len(s))
         /\ Cardinality(Splits(Len(s) + Len(t), Len(s))) \in Nat \ {0}
         /\ IsFiniteSet(AsFar(s \o t, Len(s), 1 .. Len(s)))
         /\ Cardinality(AsFar(s \o t, Len(s), 1 .. Len(s))) \in
              0 .. Cardinality(Splits(Len(s) + Len(t), Len(s)))
<1> DEFINE v == s \o t
           n == Len(s)
           N == Len(s) + Len(t)
           far == AsFar(v, n, 1 .. n)
<1>1. Len(v) = N /\ DOMAIN s = 1 .. n /\ N \in Nat /\ n \in 0 .. N BY Pooled
<1>2. PermutationP(s, t) = [num |-> Cardinality(far), den |-> Cardinality(Splits(N, n))]
  <2>1. far = {c \in Splits(Len(v), n) : Gap(v, c) >= Gap(v, DOMAIN s)}
    BY <1>1 DEF AsFar
  <2>2. PermutationP(s, t) = [num |-> Cardinality({c \in Splits(Len(v), n) :
                                                      Gap(v, c) >= Gap(v, DOMAIN s)}),
                              den |-> Cardinality(Splits(Len(v), n))]
    BY DEF PermutationP
  <2> QED BY <1>1, <2>1, <2>2
<1>3. PFloor(Len(s), Len(t)) = [num |-> 2, den |-> Cardinality(Splits(N, n))]
  BY DEF PFloor
<1>4. far \subseteq Splits(N, n) BY <1>1 DEF AsFar
<1> HIDE DEF n, N, v, far
<1>5. 1 .. n \in Splits(N, n) /\ IsFiniteSet(Splits(N, n)) BY <1>1, FirstPlaces, SplitsAre
<1>6. Cardinality(Splits(N, n)) \in Nat \ {0}
  BY <1>5, FS_EmptySet, FS_CardinalityType
<1>7. /\ IsFiniteSet(far) /\ Cardinality(far) <= Cardinality(Splits(N, n))
  BY <1>4, <1>5, FS_Subset
<1>8. Cardinality(far) \in 0 .. Cardinality(Splits(N, n))
  BY <1>6, <1>7, FS_CardinalityType
<1> QED BY <1>2, <1>3, <1>4, <1>6, <1>7, <1>8 DEF far, v, n, N

(* A split and what it leaves are as far apart.                            *)
LEMMA Mirrored ==
  ASSUME NEW v \in Seq(Int), NEW size \in 0 .. Len(v), NEW c \in Splits(Len(v), size)
  PROVE  Gap(v, (1 .. Len(v)) \ c) = Gap(v, c)
<1> DEFINE D == 1 .. Len(v)
           d == D \ c
           rest == Len(v) - size
<1>1. DOMAIN v = D /\ Len(v) \in Nat OBVIOUS
<1>2. c \in SUBSET D /\ Cardinality(c) = size /\ d \in Splits(Len(v), rest)
  BY <1>1, SplitsAre
<1>3. Cardinality(d) = rest /\ D \ d = c BY <1>2 DEF Splits
<1>4. size \in Int /\ rest \in Int /\ Len(v) - rest = size BY <1>1
<1>5. Total(v, c) \in Int /\ Total(v, d) \in Int BY TotalType
<1>6. Gap(v, c) = Abs(Total(v, c) * rest - Total(v, d) * size)
  <2>1. Gap(v, c) = Abs(Total(v, c) * (Len(v) - Cardinality(c))
                          - Total(v, DOMAIN v \ c) * Cardinality(c))
    BY DEF Gap
  <2> QED BY <1>1, <1>2, <2>1, Zenon
<1>7. Gap(v, d) = Abs(Total(v, d) * size - Total(v, c) * rest)
  <2>1. Gap(v, d) = Abs(Total(v, d) * (Len(v) - Cardinality(d))
                          - Total(v, DOMAIN v \ d) * Cardinality(d))
    BY DEF Gap
  <2> QED BY <1>1, <1>3, <1>4, <2>1, Zenon
<1> HIDE DEF d, D, rest
<1>8. Total(v, c) * rest \in Int /\ Total(v, d) * size \in Int BY <1>4, <1>5
<1>9. \A x, y \in Int : Abs(x - y) = Abs(y - x) BY DEF Abs
<1> QED BY <1>6, <1>7, <1>8, <1>9 DEF d, D

-----------------------------------------------------------------------------
(* Either arm first.                                                       *)

(* The readings of two lists the other way round: where each goes.         *)
Turned(n, m) == [i \in 1 .. n + m |-> IF i <= n THEN i + m ELSE i - n]

(* Turned moves every reading to its place, no two to one place, and onto  *)
(* every place.                                                            *)
LEMMA TurnedOver ==
  ASSUME NEW s \in Seq(Int), NEW t \in Seq(Int)
  PROVE  LET h == Turned(Len(s), Len(t))
             D == 1 .. Len(s) + Len(t)
         IN /\ \A i \in D : h[i] \in D /\ (t \o s)[h[i]] = (s \o t)[i]
            /\ \A i, j \in D : h[i] = h[j] => i = j
            /\ \A j \in D : \E i \in D : h[i] = j
<1> DEFINE n == Len(s)
           m == Len(t)
           D == 1 .. n + m
           h == Turned(n, m)
<1>1. /\ n \in Nat /\ m \in Nat
      /\ \A i \in 1 .. n : (s \o t)[i] = s[i] /\ (t \o s)[m + i] = s[i]
      /\ \A i \in 1 .. m : (s \o t)[n + i] = t[i] /\ (t \o s)[i] = t[i]
  BY Pooled
<1>2. \A i \in D : h[i] = IF i <= n THEN i + m ELSE i - n BY DEF Turned
<1> HIDE DEF n, m, h
<1>3. ASSUME NEW i \in D PROVE h[i] \in D /\ (t \o s)[h[i]] = (s \o t)[i]
  <2>1. CASE i <= n
    <3>1. i \in 1 .. n /\ m + i = i + m /\ m + i \in D BY <1>1, <2>1
    <3>2. h[i] = m + i BY <1>2, <2>1, <3>1
    <3> QED BY <1>1, <3>1, <3>2
  <2>2. CASE ~ (i <= n)
    <3>1. i - n \in 1 .. m /\ n + (i - n) = i /\ i - n \in D BY <1>1, <2>2
    <3>2. h[i] = i - n BY <1>2, <2>2
    <3>3. (s \o t)[n + (i - n)] = t[i - n] /\ (t \o s)[i - n] = t[i - n] BY <1>1, <3>1
    <3> QED BY <3>1, <3>2, <3>3
  <2> QED BY <2>1, <2>2
<1>4. ASSUME NEW i \in D, NEW j \in D, h[i] = h[j] PROVE i = j
  <2>1. \A k \in D : (k <= n => h[k] = k + m) /\ (~ (k <= n) => h[k] = k - n) BY <1>2
  <2>2. i \in Int /\ j \in Int /\ i >= 1 /\ j >= 1 /\ i <= n + m /\ j <= n + m BY <1>1
  <2>3. CASE i <= n /\ j <= n BY <1>1, <1>4, <2>1, <2>2, <2>3
  <2>4. CASE i <= n /\ ~ (j <= n)
    <3>1. i + m = j - n BY <1>4, <2>1, <2>4
    <3> QED BY <1>1, <2>2, <2>4, <3>1
  <2>5. CASE ~ (i <= n) /\ j <= n
    <3>1. j + m = i - n BY <1>4, <2>1, <2>5
    <3> QED BY <1>1, <2>2, <2>5, <3>1
  <2>6. CASE ~ (i <= n) /\ ~ (j <= n)
    <3>1. i - n = j - n BY <1>4, <2>1, <2>6
    <3> QED BY <1>1, <2>2, <3>1
  <2> QED BY <2>3, <2>4, <2>5, <2>6
<1>5. ASSUME NEW j \in D PROVE \E i \in D : h[i] = j
  <2>1. CASE j <= m
    <3>1. j + n \in D /\ ~ (j + n <= n) /\ (j + n) - n = j BY <1>1, <2>1
    <3>2. h[j + n] = (j + n) - n BY <1>2, <3>1
    <3> QED BY <3>1, <3>2
  <2>2. CASE ~ (j <= m)
    <3>1. j - m \in D /\ j - m <= n /\ (j - m) + m = j BY <1>1, <2>2
    <3>2. h[j - m] = (j - m) + m BY <1>2, <3>1
    <3> QED BY <3>1, <3>2
  <2> QED BY <2>1, <2>2
<1>6. /\ \A i \in D : h[i] \in D /\ (t \o s)[h[i]] = (s \o t)[i]
      /\ \A i, j \in D : h[i] = h[j] => i = j
      /\ \A j \in D : \E i \in D : h[i] = j
  BY <1>3, <1>4, <1>5
<1> QED BY <1>6 DEF h, n, m, D

(* As many places are chosen after a move that keeps places apart.         *)
LEMMA MovedIsAsLarge ==
  ASSUME NEW h, NEW D, NEW c \in SUBSET D, IsFiniteSet(c), KeepsApart(h, D)
  PROVE  IsFiniteSet(Moved(h, c)) /\ Cardinality(Moved(h, c)) = Cardinality(c)
<1> DEFINE f == [i \in c |-> h[i]]
<1>1. f \in [c -> Moved(h, c)] BY DEF Moved
<1>2. \A i, j \in c : f[i] = f[j] => i = j BY DEF KeepsApart
<1>3. \A x \in Moved(h, c) : \E i \in c : f[i] = x BY DEF Moved
<1> HIDE DEF f
<1>4. f \in Bijection(c, Moved(h, c))
  BY <1>1, <1>2, <1>3 DEF Bijection, Injection, Surjection, IsInjective
<1>5. ExistsBijection(c, Moved(h, c)) BY <1>4 DEF ExistsBijection
<1> QED BY <1>5, FS_Bijection

(* The split of the lists the other way round that matches a split.        *)
OtherWay(n, m, c) == (1 .. n + m) \ Moved(Turned(n, m), c)

LEMMA OtherWayIsAsFar ==
  ASSUME NEW s \in Seq(Int), NEW t \in Seq(Int), NEW c \in Splits(Len(s) + Len(t), Len(s))
  PROVE  /\ OtherWay(Len(s), Len(t), c) \in Splits(Len(t) + Len(s), Len(t))
         /\ Gap(t \o s, OtherWay(Len(s), Len(t), c)) = Gap(s \o t, c)
<1> DEFINE n == Len(s)
           m == Len(t)
           N == n + m
           D == 1 .. N
           h == Turned(n, m)
           v == s \o t
           w == t \o s
           b == Moved(h, c)
<1>1. /\ v \in Seq(Int) /\ w \in Seq(Int) /\ Len(v) = N /\ Len(w) = N
      /\ n \in Nat /\ m \in Nat /\ N \in Nat /\ n \in 0 .. N /\ N - n = m /\ m + n = N
      /\ DOMAIN v = D /\ DOMAIN w = D
  <2>1. v \in Seq(Int) /\ w \in Seq(Int) /\ Len(v) = n + m /\ Len(w) = m + n
        /\ n \in Nat /\ m \in Nat
    BY Pooled
  <2> QED BY <2>1
<1>2. /\ \A i \in D : h[i] \in D /\ w[h[i]] = v[i]
      /\ \A i, j \in D : h[i] = h[j] => i = j
      /\ \A j \in D : \E i \in D : h[i] = j
  BY TurnedOver
<1> HIDE DEF n, m, N, v, w, h, D
<1>3. c \in SUBSET D /\ IsFiniteSet(c) /\ Cardinality(c) = n
  <2>1. c \in Splits(N, n) BY DEF n, m, N
  <2> QED BY <1>1, <2>1, SplitsAre DEF D
<1>4. b \in SUBSET D BY <1>2, <1>3 DEF Moved
<1>5. Cardinality(b) = n
  <2>1. KeepsApart(h, D) BY <1>2 DEF KeepsApart
  <2> QED BY <1>3, <2>1, MovedIsAsLarge
<1>6. D \ b = Moved(h, D \ c) BY <1>2, <1>3 DEF Moved
<1> HIDE DEF b
<1>7. b \in Splits(N, n) /\ n \in 0 .. Len(w) /\ Len(w) = N BY <1>1, <1>4, <1>5 DEF Splits, D
<1>8. D \ b \in Splits(N, m)
  <2>1. D \ b \in Splits(N, N - n) BY <1>1, <1>7, SplitsAre DEF D
  <2> QED BY <1>1, <2>1
<1>9. Total(w, b) = Total(v, c) /\ Total(w, D \ b) = Total(v, D \ c)
  <2>1. \A e \in SUBSET (1 .. Len(v)) : Total(w, Moved(h, e)) = Total(v, e)
    <3>1. Len(v) = N /\ Len(w) = N /\ v \in Seq(Int) /\ w \in Seq(Int) BY <1>1
    <3>2. Carries(h, v, w) /\ KeepsApart(h, 1 .. Len(v))
      BY <1>2, <3>1 DEF D, Carries, KeepsApart
    <3> QED BY <3>1, <3>2, TotalOfMoved
  <2>2. c \in SUBSET (1 .. Len(v)) /\ D \ c \in SUBSET (1 .. Len(v))
    BY <1>1, <1>3 DEF D
  <2>3. Total(w, Moved(h, c)) = Total(v, c) /\ Total(w, Moved(h, D \ c)) = Total(v, D \ c)
    BY <2>1, <2>2
  <2> QED BY <1>6, <2>3 DEF b
<1>10. Gap(w, b) = Gap(v, c)
  <2>1. Gap(w, b) = Abs(Total(w, b) * (Len(w) - Cardinality(b))
                          - Total(w, DOMAIN w \ b) * Cardinality(b))
    BY DEF Gap
  <2>2. Gap(v, c) = Abs(Total(v, c) * (Len(v) - Cardinality(c))
                          - Total(v, DOMAIN v \ c) * Cardinality(c))
    BY DEF Gap
  <2>3. Len(v) = Len(w) /\ Cardinality(b) = Cardinality(c) /\ DOMAIN w = D /\ DOMAIN v = D
    BY <1>1, <1>3, <1>5
  <2> QED BY <1>9, <2>1, <2>2, <2>3, Zenon
<1>11. Gap(w, D \ b) = Gap(w, b)
  <2>1. D = 1 .. Len(w) BY <1>1 DEF D
  <2>2. b \in Splits(Len(w), n) BY <1>7
  <2> QED BY <1>1, <1>7, <2>1, <2>2, Mirrored
<1>12. OtherWay(n, m, c) = D \ b BY DEF OtherWay, D, N, b, h
<1>13. OtherWay(n, m, c) \in Splits(m + n, m) BY <1>1, <1>8, <1>12
<1>14. Gap(w, OtherWay(n, m, c)) = Gap(v, c) BY <1>10, <1>11, <1>12
<1> QED BY <1>13, <1>14 DEF n, m, v, w

(* Different splits have different matches.                                *)
LEMMA OtherWaysDiffer ==
  ASSUME NEW s \in Seq(Int), NEW t \in Seq(Int),
         NEW c \in SUBSET (1 .. Len(s) + Len(t)), NEW d \in SUBSET (1 .. Len(s) + Len(t)),
         OtherWay(Len(s), Len(t), c) = OtherWay(Len(s), Len(t), d)
  PROVE  c = d
<1> DEFINE D == 1 .. Len(s) + Len(t)
           h == Turned(Len(s), Len(t))
<1>1. /\ \A i \in D : h[i] \in D
      /\ \A i, j \in D : h[i] = h[j] => i = j
  BY TurnedOver
<1>2. D \ Moved(h, c) = D \ Moved(h, d) BY DEF OtherWay
<1> HIDE DEF h, D
<1>3. c \in SUBSET D /\ d \in SUBSET D BY DEF D
<1>4. Moved(h, c) \in SUBSET D /\ Moved(h, d) \in SUBSET D BY <1>1, <1>3 DEF Moved
<1>5. Moved(h, c) = Moved(h, d) BY <1>2, <1>4
<1>6. \A i \in D, e \in SUBSET D : i \in e <=> h[i] \in Moved(h, e) BY <1>1 DEF Moved
<1> QED BY <1>3, <1>5, <1>6

(* The observed split is the observed split the other way round too.       *)
LEMMA ObservedOtherWay ==
  ASSUME NEW n \in Nat, NEW m \in Nat
  PROVE  OtherWay(n, m, 1 .. n) = 1 .. m
<1> DEFINE h == Turned(n, m)
<1>1. \A i \in 1 .. n : h[i] = i + m BY DEF Turned
<1> HIDE DEF h
<1>2. Moved(h, 1 .. n) = m + 1 .. n + m
  <2>1. ASSUME NEW x \in Moved(h, 1 .. n) PROVE x \in m + 1 .. n + m
    <3>1. PICK i \in 1 .. n : x = h[i] BY DEF Moved
    <3> QED BY <1>1, <3>1
  <2>2. ASSUME NEW x \in m + 1 .. n + m PROVE x \in Moved(h, 1 .. n)
    <3>1. x - m \in 1 .. n /\ (x - m) + m = x OBVIOUS
    <3>2. h[x - m] = x BY <1>1, <3>1
    <3> QED BY <3>1, <3>2 DEF Moved
  <2> QED BY <2>1, <2>2
<1>3. (1 .. n + m) \ (m + 1 .. n + m) = 1 .. m OBVIOUS
<1> QED BY <1>2, <1>3 DEF OtherWay, h

(* So there are no more splits, and no more that count, than the other way *)
(* round.                                                                  *)
LEMMA NoMoreTheOtherWay ==
  ASSUME NEW s \in Seq(Int), NEW t \in Seq(Int)
  PROVE  /\ Cardinality(Splits(Len(s) + Len(t), Len(s)))
              <= Cardinality(Splits(Len(t) + Len(s), Len(t)))
         /\ Cardinality(AsFar(s \o t, Len(s), 1 .. Len(s)))
              <= Cardinality(AsFar(t \o s, Len(t), 1 .. Len(t)))
<1> DEFINE n == Len(s)
           m == Len(t)
           S == Splits(n + m, n)
           T == Splits(m + n, m)
           A == AsFar(s \o t, n, 1 .. n)
           B == AsFar(t \o s, m, 1 .. m)
           turn(c) == OtherWay(n, m, c)
<1>1. n \in Nat /\ m \in Nat /\ Len(s \o t) = n + m /\ Len(t \o s) = m + n BY Pooled
<1>2. \A c \in S : turn(c) \in T /\ Gap(t \o s, turn(c)) = Gap(s \o t, c)
  BY OtherWayIsAsFar
<1>3. \A c, d \in S : turn(c) = turn(d) => c = d
  <2>1. \A c \in S : c \in SUBSET (1 .. n + m) BY DEF Splits
  <2> QED BY <2>1, OtherWaysDiffer
<1>4. 1 .. n \in S /\ turn(1 .. n) = 1 .. m
  <2>1. n + m \in Nat /\ n \in 0 .. n + m BY <1>1
  <2> QED BY <1>1, <2>1, FirstPlaces, ObservedOtherWay
<1>5. IsFiniteSet(T) /\ IsFiniteSet(B)
  <2>1. m + n \in Nat /\ m \in 0 .. m + n BY <1>1
  <2> QED BY <2>1, SplitsAre, PIs
<1>6. /\ A = {c \in S : Gap(s \o t, c) >= Gap(s \o t, 1 .. n)}
      /\ B = {c \in T : Gap(t \o s, c) >= Gap(t \o s, 1 .. m)}
  BY <1>1 DEF AsFar
<1> HIDE DEF n, m, S, T, A, B, turn
<1>7. \A c \in A : turn(c) \in B BY <1>2, <1>4, <1>6
<1>8. Cardinality(S) <= Cardinality(T)
  <2> DEFINE f == [c \in S |-> turn(c)]
  <2>1. f \in Injection(S, T) BY <1>2, <1>3 DEF Injection, IsInjective
  <2> HIDE DEF f
  <2> QED BY <1>5, <2>1, FS_Injection
<1>9. Cardinality(A) <= Cardinality(B)
  <2> DEFINE f == [c \in A |-> turn(c)]
  <2>1. \A c \in A : c \in S BY <1>6
  <2>2. f \in Injection(A, B) BY <1>3, <1>7, <2>1 DEF Injection, IsInjective
  <2> HIDE DEF f
  <2> QED BY <1>5, <2>2, FS_Injection
<1> QED BY <1>8, <1>9 DEF n, m, S, T, A, B

(* permutation_p and p_floor give the same whichever list comes first.     *)
LEMMA EitherFirst ==
  ASSUME NEW s \in Seq(Int), NEW t \in Seq(Int)
  PROVE  /\ PermutationP(t, s) = PermutationP(s, t)
         /\ PFloor(Len(t), Len(s)) = PFloor(Len(s), Len(t))
<1> DEFINE a == Cardinality(AsFar(s \o t, Len(s), 1 .. Len(s)))
           b == Cardinality(AsFar(t \o s, Len(t), 1 .. Len(t)))
           d == Cardinality(Splits(Len(s) + Len(t), Len(s)))
           e == Cardinality(Splits(Len(t) + Len(s), Len(t)))
<1>1. /\ PermutationP(s, t) = [num |-> a, den |-> d]
      /\ PFloor(Len(s), Len(t)) = [num |-> 2, den |-> d]
      /\ d \in Nat /\ a \in 0 .. d
  BY PIs
<1>2. /\ PermutationP(t, s) = [num |-> b, den |-> e]
      /\ PFloor(Len(t), Len(s)) = [num |-> 2, den |-> e]
      /\ e \in Nat /\ b \in 0 .. e
  BY PIs
<1>3. d <= e /\ a <= b /\ e <= d /\ b <= a BY NoMoreTheOtherWay
<1> HIDE DEF a, b, d, e
<1>4. a = b /\ d = e BY <1>1, <1>2, <1>3
<1> QED BY <1>1, <1>2, <1>4

-----------------------------------------------------------------------------
(* The smallest p.                                                         *)

(* Two different things are two.                                           *)
LEMMA TwoOfThem ==
  ASSUME NEW a, NEW b, a # b
  PROVE  IsFiniteSet({a, b}) /\ Cardinality({a, b}) = 2
<1>1. IsFiniteSet({a}) /\ Cardinality({a}) = 1 BY FS_Singleton
<1>2. IsFiniteSet({a} \cup {b}) /\ Cardinality({a} \cup {b}) = Cardinality({a}) + 1
  BY <1>1, FS_AddElement
<1>3. {a} \cup {b} = {a, b} OBVIOUS
<1> QED BY <1>1, <1>2, <1>3

(* The observed split and what it leaves are two, as far apart.            *)
LEMMA ObservedTwice ==
  ASSUME NEW n \in Nat \ {0}, NEW v \in Seq(Int), Len(v) = n + n
  PROVE  /\ 1 .. n # n + 1 .. n + n
         /\ (1 .. n + n) \ (1 .. n) = n + 1 .. n + n
         /\ (1 .. n + n) \ (n + 1 .. n + n) = 1 .. n
         /\ {1 .. n, n + 1 .. n + n} \subseteq Splits(n + n, n)
         /\ {1 .. n, n + 1 .. n + n} \subseteq AsFar(v, n, 1 .. n)
<1>1. n + n \in Nat /\ n \in 0 .. n + n /\ (n + n) - n = n OBVIOUS
<1>2. /\ 1 .. n \in Splits(n + n, n) /\ n + 1 .. n + n \in Splits(n + n, n)
      /\ (1 .. n + n) \ (1 .. n) = n + 1 .. n + n
  BY <1>1, FirstPlaces
<1>3. 1 \in 1 .. n /\ 1 \notin n + 1 .. n + n OBVIOUS
<1>4. 1 .. n # n + 1 .. n + n BY <1>3
<1>5. Gap(v, n + 1 .. n + n) = Gap(v, 1 .. n) BY <1>1, <1>2, Mirrored
<1>6. Gap(v, 1 .. n) >= Gap(v, 1 .. n)
  <2>1. Gap(v, 1 .. n) \in Int
    <3>1. Cardinality(1 .. n) = n /\ Len(v) \in Int BY FirstNumbers
    <3>2. \A c : Total(v, c) \in Int BY TotalType
    <3>3. \A x, y \in Int : Abs(x * (Len(v) - n) - y * n) \in Int BY <3>1 DEF Abs
    <3> QED BY <3>1, <3>2, <3>3 DEF Gap
  <2> QED BY <2>1
<1>7. {1 .. n, n + 1 .. n + n} \subseteq AsFar(v, n, 1 .. n)
  BY <1>2, <1>5, <1>6 DEF AsFar
<1>8. (1 .. n + n) \ (n + 1 .. n + n) = 1 .. n OBVIOUS
<1> QED BY <1>2, <1>4, <1>7, <1>8

(* permutation_p, of lists as long, is a fraction no less than p_floor and *)
(* no more than one.                                                       *)
LEMMA NoneBelowTheFloor ==
  ASSUME NEW s \in Seq(Int), NEW t \in Seq(Int), s # <<>>, Len(s) = Len(t)
  PROVE  /\ Cardinality(AsFar(s \o t, Len(s), 1 .. Len(s))) >= 2
         /\ AtMost(PFloor(Len(s), Len(t)), PermutationP(s, t))
         /\ PermutationP(s, t).num <= PermutationP(s, t).den
<1> DEFINE n == Len(s)
           v == s \o t
           far == AsFar(v, n, 1 .. n)
           k == Cardinality(far)
           d == Cardinality(Splits(n + n, n))
<1>1. n \in Nat \ {0} /\ v \in Seq(Int) /\ Len(v) = n + n
  <2>1. Len(s) # 0 BY EmptySeq
  <2> QED BY <2>1, Pooled
<1>2. /\ PermutationP(s, t) = [num |-> k, den |-> d]
      /\ PFloor(Len(s), Len(t)) = [num |-> 2, den |-> d]
      /\ d \in Nat \ {0} /\ IsFiniteSet(far) /\ k \in 0 .. d
  BY PIs
<1> HIDE DEF n, v, far, d
<1>3. {1 .. n, n + 1 .. n + n} \subseteq far BY <1>1, ObservedTwice DEF far
<1>4. Cardinality({1 .. n, n + 1 .. n + n}) = 2 BY <1>1, ObservedTwice, TwoOfThem
<1>5. 2 <= k
  <2>1. Cardinality({1 .. n, n + 1 .. n + n}) <= Cardinality(far)
    BY <1>2, <1>3, FS_Subset
  <2> QED BY <1>4, <2>1
<1>6. k \in Int /\ k <= d /\ d \in Nat BY <1>2
<1>7. far = AsFar(v, n, 1 .. n) BY DEF far
<1> HIDE DEF k
<1>8. 2 * d <= k * d BY <1>5, <1>6, TimesMonotone
<1>9. k >= 2 BY <1>5, <1>6
<1> QED BY <1>2, <1>6, <1>8, <1>9 DEF AtMost, k, far, n, v

-----------------------------------------------------------------------------
(* A reading on the floor.                                                 *)

(* With every reading on one side below every one on the other, any other  *)
(* split is nearer: it takes as many from the low side as it gives back.   *)
LEMMA AnyOtherIsNearer ==
  ASSUME NEW n \in Nat, NEW v \in Seq(Int), Len(v) = n + n,
         NEW X \in Splits(n + n, n), NEW Y, Y = (1 .. n + n) \ X,
         \A x \in X, y \in Y : v[x] < v[y],
         NEW c \in Splits(n + n, n), c # X, c # Y
  PROVE  Distance(v, c) < Distance(v, X)
<1> DEFINE D == 1 .. n + n
           kept == c \cap X
           given == X \ c
           taken == c \cap Y
           left == Y \ c
<1>0. n + n \in Nat /\ n \in 0 .. n + n /\ (n + n) - n = n OBVIOUS
<1>1. /\ X \in SUBSET D /\ IsFiniteSet(X) /\ Cardinality(X) = n
      /\ c \in SUBSET D /\ IsFiniteSet(c) /\ Cardinality(c) = n
      /\ Y \in Splits(n + n, n)
  <2>1. \A e \in Splits(n + n, n) : /\ e \in SUBSET (1 .. n + n)
                                    /\ IsFiniteSet(e) /\ Cardinality(e) = n
                                    /\ (1 .. n + n) \ e \in Splits(n + n, (n + n) - n)
    BY <1>0, SplitsAre
  <2> QED BY <1>0, <2>1
<1>2. Y \in SUBSET D /\ IsFiniteSet(Y) /\ Cardinality(Y) = n
  <2>1. \A e \in Splits(n + n, n) : /\ e \in SUBSET (1 .. n + n)
                                    /\ IsFiniteSet(e) /\ Cardinality(e) = n
    BY <1>0, SplitsAre
  <2> QED BY <1>1, <2>1
<1>3. /\ kept \cup given = X /\ kept \cap given = {}
      /\ kept \cup taken = c /\ kept \cap taken = {}
      /\ taken \cup left = Y /\ taken \cap left = {}
      /\ given \cup left = D \ c /\ given \cap left = {}
      /\ given \in SUBSET D /\ taken \in SUBSET D /\ left \in SUBSET D /\ kept \in SUBSET D
  BY <1>1, <1>2
<1>4. /\ IsFiniteSet(kept) /\ IsFiniteSet(given) /\ IsFiniteSet(taken) /\ IsFiniteSet(left)
      /\ Cardinality(given) = n - Cardinality(kept)
      /\ Cardinality(taken) = n - Cardinality(kept)
      /\ Cardinality(left) = n - Cardinality(taken)
      /\ Cardinality(kept) \in Nat
  <2>1. /\ IsFiniteSet(X \ c) /\ Cardinality(X \ c) = Cardinality(X) - Cardinality(X \cap c)
        /\ IsFiniteSet(Y \ c) /\ Cardinality(Y \ c) = Cardinality(Y) - Cardinality(Y \cap c)
        /\ Cardinality(c \ X) = Cardinality(c) - Cardinality(c \cap X)
    BY <1>1, <1>2, FS_Difference
  <2>2. IsFiniteSet(c \cap X) /\ IsFiniteSet(c \cap Y) BY <1>1, FS_Intersection
  <2>3. X \cap c = c \cap X /\ Y \cap c = c \cap Y /\ c \ X = c \cap Y BY <1>1
  <2>4. Cardinality(c \cap X) \in Nat BY <2>2, FS_CardinalityType
  <2> QED BY <1>1, <1>2, <2>1, <2>2, <2>3, <2>4
<1>5. Cardinality(taken) # 0 /\ Cardinality(kept) # 0
  <2>1. CASE Cardinality(taken) = 0
    <3>1. Cardinality(given) = 0 BY <1>4, <2>1
    <3>2. taken = {} /\ given = {} BY <1>4, <2>1, <3>1, FS_EmptySet
    <3> HIDE DEF taken, given, kept
    <3>3. c = X BY <1>3, <3>2
    <3> QED BY <3>3
  <2>2. CASE Cardinality(kept) = 0
    <3>1. Cardinality(left) = 0 BY <1>4, <2>2
    <3>2. left = {} /\ kept = {} BY <1>4, <2>2, <3>1, FS_EmptySet
    <3> HIDE DEF taken, left, kept
    <3>3. c = Y BY <1>3, <3>2
    <3> QED BY <3>3
  <2> QED BY <2>1, <2>2
<1>6. /\ \A x \in given, y \in taken : v[x] < v[y]
      /\ \A x \in kept, y \in left : v[x] < v[y]
  OBVIOUS
<1> HIDE DEF kept, given, taken, left, D
<1> DEFINE k == Cardinality(kept)
           j == Cardinality(taken)
<1>7. k \in Nat \ {0} /\ j \in Nat \ {0} /\ Cardinality(given) = j /\ Cardinality(left) = k
  BY <1>4, <1>5, FS_CardinalityType
<1> HIDE DEF k, j
<1>8. Total(v, given) + j <= Total(v, taken)
  BY <1>3, <1>6, <1>7, LowerAddsUpToLess DEF D, j
<1>9. Total(v, kept) + k <= Total(v, left)
  BY <1>3, <1>6, <1>7, LowerAddsUpToLess DEF D, k
<1>10. /\ Total(v, X) = Total(v, kept) + Total(v, given)
       /\ Total(v, c) = Total(v, kept) + Total(v, taken)
       /\ Total(v, Y) = Total(v, taken) + Total(v, left)
       /\ Total(v, D \ c) = Total(v, given) + Total(v, left)
  <2>1. Total(v, kept \cup given) = Total(v, kept) + Total(v, given)
    BY <1>3, TotalOfBoth DEF D
  <2>2. Total(v, kept \cup taken) = Total(v, kept) + Total(v, taken)
    BY <1>3, TotalOfBoth DEF D
  <2>3. Total(v, taken \cup left) = Total(v, taken) + Total(v, left)
    BY <1>3, TotalOfBoth DEF D
  <2>4. Total(v, given \cup left) = Total(v, given) + Total(v, left)
    BY <1>3, TotalOfBoth DEF D
  <2> QED BY <1>3, <2>1, <2>2, <2>3, <2>4
<1>11. /\ Total(v, kept) \in Int /\ Total(v, given) \in Int
       /\ Total(v, taken) \in Int /\ Total(v, left) \in Int
  BY TotalType
<1>12. Distance(v, c) = Abs(Total(v, c) - Total(v, D \ c))
       /\ Distance(v, X) = Abs(Total(v, X) - Total(v, Y))
  BY DEF Distance, D
<1> DEFINE p == Total(v, kept)
           q == Total(v, given)
           r == Total(v, taken)
           u == Total(v, left)
<1>13. /\ Distance(v, c) = Abs((p + r) - (q + u))
       /\ Distance(v, X) = Abs((p + q) - (r + u))
  BY <1>10, <1>12
<1>14. p \in Int /\ q \in Int /\ r \in Int /\ u \in Int /\ q < r /\ p < u
  <2>1. p \in Int /\ q \in Int /\ r \in Int /\ u \in Int BY <1>11
  <2>2. q + j <= r /\ p + k <= u BY <1>8, <1>9
  <2> HIDE DEF p, q, r, u
  <2> QED BY <1>7, <2>1, <2>2
<1> HIDE DEF p, q, r, u
<1>15. Abs((p + r) - (q + u)) < Abs((p + q) - (r + u)) BY <1>14 DEF Abs
<1> QED BY <1>13, <1>15

(* With a reading on the lighter side that reaches one on the other, the   *)
(* split with these two exchanged is a third one as far.                   *)
LEMMA ExchangedIsAsFar ==
  ASSUME NEW n \in Nat, n >= 2, NEW v \in Seq(Int), Len(v) = n + n,
         NEW X \in Splits(n + n, n), NEW Y, Y = (1 .. n + n) \ X,
         Total(v, X) <= Total(v, Y),
         NEW i \in X, NEW j \in Y, v[j] <= v[i]
  PROVE  \E c \in Splits(n + n, n) : c # X /\ c # Y /\ Distance(v, c) >= Distance(v, X)
<1> DEFINE D == 1 .. n + n
           U == X \ {i}
           W == Y \ {j}
           c == U \cup {j}
<1>0. n + n \in Nat /\ n \in 0 .. n + n /\ (n + n) - n = n OBVIOUS
<1>1. X \in SUBSET D /\ IsFiniteSet(X) /\ Cardinality(X) = n
  BY <1>0, SplitsAre
<1>2. /\ i \in D /\ j \in D /\ i \notin U /\ j \notin U /\ j \notin W /\ i \notin W
      /\ U \cup {i} = X /\ W \cup {j} = Y /\ D \ c = W \cup {i}
      /\ c \in SUBSET D /\ j \notin X /\ j \in c
  BY <1>1
<1>3. IsFiniteSet(U) /\ Cardinality(U) = n - 1 BY <1>1, FS_RemoveElement
<1>4. Cardinality(c) = n
  <2>1. Cardinality(U \cup {j}) = Cardinality(U) + 1 BY <1>2, <1>3, FS_AddElement
  <2> QED BY <1>3, <2>1
<1>5. c \in Splits(n + n, n) BY <1>2, <1>4 DEF Splits
<1>6. c # X BY <1>2
<1>7. c # Y
  <2>1. U # {} BY <1>3, FS_EmptySet
  <2>2. PICK x \in U : TRUE BY <2>1
  <2>3. x \in c /\ x \notin Y BY <2>2
  <2> QED BY <2>3
<1>8. v[i] \in Int /\ v[j] \in Int /\ i \in 1 .. Len(v) /\ j \in 1 .. Len(v) BY <1>2
<1> HIDE DEF U, W, c, D
<1>9. Total(v, U \cup {i}) = Total(v, U) + v[i] BY <1>2, <1>8, TotalOfOneMore
<1>10. Total(v, U \cup {j}) = Total(v, U) + v[j] BY <1>2, <1>8, TotalOfOneMore
<1>11. Total(v, W \cup {j}) = Total(v, W) + v[j] BY <1>2, <1>8, TotalOfOneMore
<1>12. Total(v, W \cup {i}) = Total(v, W) + v[i] BY <1>2, <1>8, TotalOfOneMore
<1>13. Total(v, U) \in Int /\ Total(v, W) \in Int BY TotalType
<1>14. /\ Total(v, X) = Total(v, U) + v[i] /\ Total(v, Y) = Total(v, W) + v[j]
       /\ Total(v, D \ c) = Total(v, W) + v[i] /\ Total(v, c) = Total(v, U) + v[j]
  <2>1. c = U \cup {j} BY DEF c
  <2> QED BY <1>2, <1>9, <1>10, <1>11, <1>12, <2>1
<1>15. Distance(v, c) = Abs(Total(v, c) - Total(v, D \ c))
       /\ Distance(v, X) = Abs(Total(v, X) - Total(v, Y))
  BY DEF Distance, D
<1> DEFINE p == Total(v, U)
           q == Total(v, W)
           a == v[i]
           b == v[j]
<1>16. /\ Distance(v, c) = Abs((p + b) - (q + a))
       /\ Distance(v, X) = Abs((p + a) - (q + b))
       /\ p + a <= q + b
  BY <1>14, <1>15
<1>17. p \in Int /\ q \in Int /\ a \in Int /\ b \in Int /\ b <= a BY <1>8, <1>13
<1> HIDE DEF p, q, a, b
<1>18. Abs((p + b) - (q + a)) >= Abs((p + a) - (q + b)) BY <1>16, <1>17 DEF Abs
<1> QED BY <1>5, <1>6, <1>7, <1>16, <1>18

(* Every reading at X is below every one at Y.                             *)
Lower(v, X, Y) == \A x \in X, y \in Y : v[x] < v[y]

(* One list below the other, said of the places in the pooled readings.    *)
LEMMA BelowByPlaces ==
  ASSUME NEW s \in Seq(Int), NEW t \in Seq(Int), NEW n \in Nat, Len(s) = n, Len(t) = n
  PROVE  /\ Below(s, t) <=> Lower(s \o t, 1 .. n, n + 1 .. n + n)
         /\ Below(t, s) <=> Lower(s \o t, n + 1 .. n + n, 1 .. n)
<1>1. /\ DOMAIN s = 1 .. n /\ DOMAIN t = 1 .. n
      /\ \A i \in 1 .. n : (s \o t)[i] = s[i]
      /\ \A i \in 1 .. n : (s \o t)[n + i] = t[i]
  <2>1. /\ DOMAIN s = 1 .. Len(s) /\ DOMAIN t = 1 .. Len(t)
        /\ \A i \in 1 .. Len(s) : (s \o t)[i] = s[i]
        /\ \A i \in 1 .. Len(t) : (s \o t)[Len(s) + i] = t[i]
    BY Pooled
  <2> QED BY <2>1
<1>2. /\ \A i \in 1 .. n : n + i \in n + 1 .. n + n
      /\ \A j \in n + 1 .. n + n : j - n \in 1 .. n /\ n + (j - n) = j
  OBVIOUS
<1>3. \A j \in n + 1 .. n + n : (s \o t)[j] = t[j - n]
  <2>1. TAKE j \in n + 1 .. n + n
  <2>2. (s \o t)[n + (j - n)] = t[j - n] BY <1>1, <1>2
  <2> QED BY <1>2, <2>2
<1>4. ASSUME Below(s, t) PROVE Lower(s \o t, 1 .. n, n + 1 .. n + n)
  BY <1>1, <1>2, <1>3, <1>4 DEF Below, Lower
<1>5. ASSUME Below(t, s) PROVE Lower(s \o t, n + 1 .. n + n, 1 .. n)
  BY <1>1, <1>2, <1>3, <1>5 DEF Below, Lower
<1>6. ASSUME Lower(s \o t, 1 .. n, n + 1 .. n + n) PROVE Below(s, t)
  BY <1>1, <1>2, <1>6 DEF Below, Lower
<1>7. ASSUME Lower(s \o t, n + 1 .. n + n, 1 .. n) PROVE Below(t, s)
  BY <1>1, <1>2, <1>7 DEF Below, Lower
<1> QED BY <1>4, <1>5, <1>6, <1>7

(* Only the observed split and what it leaves are as far apart, exactly    *)
(* when one list lies below the other.                                     *)
LEMMA OnlyTwoAreAsFar ==
  ASSUME NEW s \in Seq(Int), NEW t \in Seq(Int), NEW n \in Nat, n >= 2,
         Len(s) = n, Len(t) = n
  PROVE  Cardinality(AsFar(s \o t, n, 1 .. n)) <= 2 <=> Below(s, t) \/ Below(t, s)
<1> DEFINE v == s \o t
           A == 1 .. n
           B == n + 1 .. n + n
           S == Splits(n + n, n)
           far == AsFar(v, n, A)
<1>1. v \in Seq(Int) /\ Len(v) = n + n /\ n \in Nat \ {0}
  <2>1. v \in Seq(Int) /\ Len(v) = Len(s) + Len(t) BY Pooled
  <2> HIDE DEF v
  <2> QED BY <2>1
<1>2. /\ A # B /\ A \in S /\ B \in S /\ {A, B} \subseteq far
      /\ (1 .. n + n) \ A = B /\ (1 .. n + n) \ B = A
  BY <1>1, ObservedTwice
<1>3. \A c \in S : c \in far <=> Distance(v, c) >= Distance(v, A)
  <2>1. \A c \in S : c \in far <=> Gap(v, c) >= Gap(v, A) BY <1>1 DEF AsFar
  <2>2. A \in S BY <1>2
  <2> HIDE DEF far, A, v
  <2> QED BY <1>1, <2>1, <2>2, GapOfHalves
<1>4. far \subseteq S BY <1>1 DEF AsFar
<1>5. IsFiniteSet(far) /\ Cardinality(far) \in Nat
  <2>1. n + n \in Nat /\ n \in 0 .. n + n OBVIOUS
  <2>2. IsFiniteSet(S) BY <2>1, SplitsAre
  <2> QED BY <1>4, <2>2, FS_Subset, FS_CardinalityType
<1>6. Cardinality({A, B}) = 2 /\ IsFiniteSet({A, B}) BY <1>2, TwoOfThem
<1>7. /\ Below(s, t) <=> Lower(v, A, B)
      /\ Below(t, s) <=> Lower(v, B, A)
  BY BelowByPlaces
<1> HIDE DEF v, A, B, S, far
<1>8. /\ Distance(v, B) = Distance(v, A) /\ Distance(v, A) \in Int
      /\ \A c : Distance(v, c) \in Int
      /\ Total(v, A) \in Int /\ Total(v, B) \in Int
  <2>1. \A x, y \in Int : Abs(x - y) = Abs(y - x) /\ Abs(x - y) \in Int BY DEF Abs
  <2>2. \A c : Total(v, c) \in Int BY <1>1, TotalType
  <2>3. /\ Distance(v, A) = Abs(Total(v, A) - Total(v, B))
        /\ Distance(v, B) = Abs(Total(v, B) - Total(v, A))
    BY <1>1, <1>2 DEF Distance
  <2>4. \A c : Distance(v, c) \in Int BY <2>1, <2>2 DEF Distance
  <2> QED BY <2>1, <2>2, <2>3, <2>4
<1>9. ASSUME NEW X \in {A, B}, NEW Y \in {A, B}, X # Y, Lower(v, X, Y)
      PROVE  Cardinality(far) <= 2
  <2>1. X \in S /\ Y = (1 .. n + n) \ X /\ Distance(v, X) = Distance(v, A)
    BY <1>2, <1>8, <1>9
  <2>2. \A c \in S : c # X /\ c # Y => Distance(v, c) < Distance(v, X)
    <3>1. TAKE c \in S
    <3>2. HAVE c # X /\ c # Y
    <3>3. X \in Splits(n + n, n) /\ c \in Splits(n + n, n) BY <2>1 DEF S
    <3>4. \A x \in X, y \in Y : v[x] < v[y] BY <1>9 DEF Lower
    <3> QED BY <1>1, <2>1, <3>2, <3>3, <3>4, AnyOtherIsNearer
  <2>3. far \subseteq {A, B}
    <3>1. SUFFICES ASSUME NEW c \in far PROVE c \in {A, B} OBVIOUS
    <3>2. c \in S BY <1>4, <3>1
    <3>3. Distance(v, c) >= Distance(v, A) BY <1>3, <3>1, <3>2
    <3>4. ~ (Distance(v, c) < Distance(v, X)) BY <1>8, <2>1, <3>3
    <3>5. c = X \/ c = Y BY <2>2, <3>2, <3>4
    <3> QED BY <1>9, <3>5
  <2>4. Cardinality(far) <= Cardinality({A, B}) BY <1>6, <2>3, FS_Subset
  <2> QED BY <1>6, <2>4
<1>10. ASSUME NEW X \in {A, B}, NEW Y \in {A, B}, X # Y,
              Total(v, X) <= Total(v, Y), ~ Lower(v, X, Y)
       PROVE  ~ (Cardinality(far) <= 2)
  <2>1. X \in S /\ Y = (1 .. n + n) \ X /\ Distance(v, X) = Distance(v, A)
    BY <1>2, <1>8, <1>10
  <2>2. PICK i \in X, j \in Y : ~ (v[i] < v[j]) BY <1>10 DEF Lower
  <2>3. v[i] \in Int /\ v[j] \in Int
    <3>1. X \in SUBSET (1 .. n + n) /\ Y \in SUBSET (1 .. n + n) BY <2>1 DEF S, Splits
    <3>2. i \in 1 .. Len(v) /\ j \in 1 .. Len(v) BY <1>1, <3>1
    <3> QED BY <1>1, <3>2
  <2>4. v[j] <= v[i] BY <2>2, <2>3
  <2>5. PICK c \in S : c # X /\ c # Y /\ Distance(v, c) >= Distance(v, X)
    <3>1. X \in Splits(n + n, n) BY <2>1 DEF S
    <3>2. \E c \in Splits(n + n, n) : c # X /\ c # Y /\ Distance(v, c) >= Distance(v, X)
      BY <1>1, <1>10, <2>1, <2>4, <3>1, ExchangedIsAsFar
    <3> QED BY <3>2 DEF S
  <2>6. c \in far BY <1>3, <2>1, <2>5
  <2>7. c \notin {A, B} BY <1>10, <2>5
  <2>8. {A, B} \cup {c} \subseteq far BY <1>2, <2>6
  <2>9. Cardinality({A, B} \cup {c}) = Cardinality({A, B}) + 1
    <3> DEFINE two == {A, B}
    <3>1. IsFiniteSet(two) /\ c \notin two BY <1>6, <2>7
    <3> HIDE DEF two
    <3>2. Cardinality(two \cup {c}) = Cardinality(two) + 1 BY <3>1, FS_AddElement
    <3> QED BY <3>2 DEF two
  <2>10. Cardinality({A, B} \cup {c}) <= Cardinality(far) BY <1>5, <2>8, FS_Subset
  <2>11. Cardinality({A, B} \cup {c}) = 2 + 1 BY <1>6, <2>9, Zenon
  <2>12. 2 + 1 <= Cardinality(far) BY <2>10, <2>11, Zenon
  <2> QED BY <1>5, <2>12
<1>11. A \in {A, B} /\ B \in {A, B} OBVIOUS
<1>12. ASSUME Lower(v, A, B) \/ Lower(v, B, A) PROVE Cardinality(far) <= 2
  <2>1. CASE Lower(v, A, B) BY <1>2, <1>9, <1>11, <2>1
  <2>2. CASE Lower(v, B, A) BY <1>2, <1>9, <1>11, <2>2
  <2> QED BY <1>12, <2>1, <2>2
<1>13. ASSUME Cardinality(far) <= 2 PROVE Lower(v, A, B) \/ Lower(v, B, A)
  <2>1. Total(v, A) <= Total(v, B) \/ Total(v, B) <= Total(v, A) BY <1>8
  <2>2. Total(v, A) <= Total(v, B) => Lower(v, A, B) BY <1>2, <1>10, <1>11, <1>13
  <2>3. Total(v, B) <= Total(v, A) => Lower(v, B, A) BY <1>2, <1>10, <1>11, <1>13
  <2> QED BY <2>1, <2>2, <2>3
<1>14. Cardinality(far) <= 2 <=> Below(s, t) \/ Below(t, s) BY <1>7, <1>12, <1>13
<1> QED BY <1>14 DEF far, v, A

(* Two splits of two readings cannot reach one in twenty.                  *)
LEMMA TwoReadingsAreTooFew ==
  Cardinality(Splits(1 + 1, 1)) <= 2
<1>1. Splits(1 + 1, 1) \subseteq {{1}, {2}}
  <2>1. SUFFICES ASSUME NEW c \in Splits(1 + 1, 1) PROVE c \in {{1}, {2}} OBVIOUS
  <2>2. 1 + 1 \in Nat /\ 1 \in 0 .. 1 + 1 OBVIOUS
  <2>3. c \in SUBSET (1 .. 1 + 1) /\ IsFiniteSet(c) /\ Cardinality(c) = 1
    BY <2>2, SplitsAre
  <2>4. PICK x : c = {x} BY <2>3, FS_Singleton
  <2>5. x \in 1 .. 1 + 1 BY <2>3, <2>4
  <2>6. x = 1 \/ x = 2 BY <2>5
  <2> QED BY <2>4, <2>6
<1>2. {1} # {2} OBVIOUS
<1>3. IsFiniteSet({{1}, {2}}) /\ Cardinality({{1}, {2}}) = 2 BY <1>2, TwoOfThem
<1> QED BY <1>1, <1>3, FS_Subset

(* What a verdict with a p says of two lists as long.                      *)
LEMMA VerdictOnFloor ==
  ASSUME NEW s \in Seq(Int), NEW t \in Seq(Int), s # <<>>, Len(s) = Len(t),
         Verdict(s, t).p # NoP
  PROVE  OnFloor(Verdict(s, t)) <=> Below(s, t) \/ Below(t, s)
<1> DEFINE n == Len(s)
           far == AsFar(s \o t, n, 1 .. n)
           k == Cardinality(far)
           d == Cardinality(Splits(n + n, n))
           floor == PFloor(Len(s), Len(t))
           found == PermutationP(s, t)
<1>1. n \in Nat \ {0}
  <2>1. Len(s) # 0 BY EmptySeq
  <2> QED BY <2>1, Pooled
<1>2. found = [num |-> k, den |-> d] /\ floor = [num |-> 2, den |-> d]
      /\ d \in Nat \ {0} /\ k \in Nat
  BY PIs
<1> HIDE DEF found, floor
<1>3. AtMost(floor, Alpha)
  <2> SUFFICES ASSUME ~ AtMost(floor, Alpha) PROVE FALSE OBVIOUS
  <2>1. Verdict(s, t) = [decided |-> FALSE, p |-> NoP, floor |-> floor]
    BY DEF Verdict, floor
  <2> QED BY <2>1
<1>4. Verdict(s, t) = [decided |-> AtMost(found, Alpha), p |-> found, floor |-> floor]
  BY <1>3 DEF Verdict, floor, found
<1> HIDE DEF k, d
<1>5. n >= 2
  <2> SUFFICES ASSUME n = 1 PROVE FALSE BY <1>1
  <2>1. d <= 2 BY TwoReadingsAreTooFew DEF d
  <2>2. 2 * 20 <= 1 * d BY <1>2, <1>3 DEF AtMost, Alpha
  <2> QED BY <1>2, <2>1, <2>2
<1>6. OnFloor(Verdict(s, t)) <=> AtMost(found, floor)
  <2>1. Verdict(s, t).p = found /\ Verdict(s, t).floor = floor BY <1>4
  <2> QED BY <2>1 DEF OnFloor
<1>7. AtMost(found, floor) <=> k <= 2
  <2>1. AtMost(found, floor) <=> k * d <= 2 * d BY <1>2 DEF AtMost
  <2>2. 2 \in Int /\ k \in Int BY <1>2
  <2>3. 2 * d >= k * d <=> 2 >= k BY <1>2, <2>2, ScaledOrder
  <2>4. k * d \in Int /\ 2 * d \in Int BY <1>2
  <2> QED BY <1>2, <2>1, <2>3, <2>4
<1>8. k <= 2 <=> Below(s, t) \/ Below(t, s)
  <2>1. Len(s) = n /\ Len(t) = n /\ n \in Nat BY <1>1
  <2> HIDE DEF n
  <2> QED BY <1>5, <2>1, OnlyTwoAreAsFar DEF k, far
<1> QED BY <1>6, <1>7, <1>8

(* verdict decides the same whichever list comes first.                    *)
LEMMA VerdictEitherWay ==
  ASSUME NEW s \in Seq(Int), NEW t \in Seq(Int)
  PROVE  Verdict(t, s).decided = Verdict(s, t).decided
BY EitherFirst DEF Verdict

-----------------------------------------------------------------------------
(* The passes as they come.                                                *)

Ran == [arm : {"left", "right"}, wall : Nat, stages : Stages]

(* schedule: with two arms they go left, right, right, left, and again.    *)
LeftTurns == {k \in Nat : k % 4 = 0 \/ k % 4 = 1}
RightTurns == {k \in Nat : k % 4 = 2 \/ k % 4 = 3}

PassesAsScheduled ==
  /\ passes \in Seq(Ran)
  /\ \A k \in 1 .. Len(passes) :
       /\ passes[k].arm = "left" <=> k \in LeftTurns
       /\ passes[k].arm = "right" <=> k \in RightTurns

(* What Order gives two arms.                                              *)
LEMMA TurnsOfTwo ==
  ASSUME NEW k \in 1 .. Len(Order(TwoArms, Rounds))
  PROVE  LET arm == Order(TwoArms, Rounds)[k] IN
         /\ arm = "left" \/ arm = "right"
         /\ arm = "left" <=> k \in LeftTurns
         /\ arm = "right" <=> k \in RightTurns
<1> DEFINE turn == ((k - 1) \div 2 + (k - 1)) % 2
<1>1. Len(TwoArms) = 2 /\ TwoArms[1] = "left" /\ TwoArms[2] = "right" BY DEF TwoArms
<1>2. Rounds * 2 \in Nat BY ReadingsAssumption
<1>3. Order(TwoArms, Rounds)
      = [i \in 1 .. Rounds * 2 |-> TwoArms[(((i - 1) \div 2 + (i - 1)) % 2) + 1]]
  BY <1>1 DEF Order
<1>4. k \in 1 .. Rounds * 2 /\ k \in Nat /\ k >= 1 BY <1>2, <1>3
<1>5. Order(TwoArms, Rounds)[k] = TwoArms[turn + 1] BY <1>3, <1>4
<1>6. /\ k % 4 \in {0, 1, 2, 3}
      /\ turn = 0 <=> (k % 4 = 0 \/ k % 4 = 1)
      /\ turn = 0 \/ turn = 1
  <2> QED BY <1>4
<1> HIDE DEF turn
<1>7. CASE turn = 0
  <2>1. Order(TwoArms, Rounds)[k] = "left" BY <1>1, <1>5, <1>7
  <2> QED BY <1>4, <1>6, <1>7, <2>1 DEF LeftTurns, RightTurns
<1>8. CASE turn = 1
  <2>1. Order(TwoArms, Rounds)[k] = "right" BY <1>1, <1>5, <1>8
  <2> QED BY <1>4, <1>6, <1>8, <2>1 DEF LeftTurns, RightTurns
<1> QED BY <1>6, <1>7, <1>8

(* The inductive invariant: every pass is a run of the arm whose turn it   *)
(* was.                                                                    *)
LEMMA PassesComeAsScheduled ==
  ReadingsSpec => []PassesAsScheduled
<1>1. ReadingsInit => PassesAsScheduled BY DEF ReadingsInit, PassesAsScheduled
<1>2. PassesAsScheduled /\ [ReadingsNext]_passes => PassesAsScheduled'
  <2> SUFFICES ASSUME PassesAsScheduled, [ReadingsNext]_passes PROVE PassesAsScheduled'
    OBVIOUS
  <2>1. ASSUME NEW outcome \in Outcomes, Run(outcome) PROVE PassesAsScheduled'
    <3> DEFINE n == Len(passes)
               k == n + 1
               arm == Order(TwoArms, Rounds)[k]
               last == [arm |-> arm, wall |-> outcome.wall, stages |-> outcome.stages]
    <3>1. passes \in Seq(Ran) /\ n \in Nat BY DEF PassesAsScheduled
    <3>2. k \in 1 .. Len(Order(TwoArms, Rounds))
      <4>1. n < Len(Order(TwoArms, Rounds)) BY <2>1 DEF Run
      <4>2. Rounds * 2 \in Nat /\ Len(TwoArms) = 2 BY ReadingsAssumption DEF TwoArms
      <4>3. Len(Order(TwoArms, Rounds)) \in Nat BY <4>2 DEF Order
      <4> QED BY <3>1, <4>1, <4>3
    <3>3. /\ arm = "left" \/ arm = "right"
          /\ arm = "left" <=> k \in LeftTurns
          /\ arm = "right" <=> k \in RightTurns
      BY <3>2, TurnsOfTwo
    <3>4. passes' = Append(passes, last) BY <2>1 DEF Run
    <3> HIDE DEF arm
    <3>5. outcome.wall \in Nat /\ outcome.stages \in Stages BY ReadingsAssumption
    <3>6. last \in Ran BY <3>3, <3>5 DEF Ran
    <3> HIDE DEF last
    <3>7. /\ passes' \in Seq(Ran) /\ Len(passes') = k
          /\ \A i \in 1 .. n : passes'[i] = passes[i]
          /\ passes'[k] = last
      BY <3>1, <3>4, <3>6
    <3>8. last.arm = arm BY DEF last
    <3>9. \A i \in 1 .. k : i = k \/ i \in 1 .. n BY <3>1
    <3>10. ASSUME NEW i \in 1 .. k
           PROVE  /\ passes'[i].arm = "left" <=> i \in LeftTurns
                  /\ passes'[i].arm = "right" <=> i \in RightTurns
      <4>1. CASE i = k BY <3>3, <3>7, <3>8, <4>1
      <4>2. CASE i \in 1 .. n BY <3>7, <4>2 DEF PassesAsScheduled
      <4> QED BY <3>9, <4>1, <4>2
    <3> QED BY <3>7, <3>10 DEF PassesAsScheduled
  <2>2. CASE UNCHANGED passes BY <2>2 DEF PassesAsScheduled
  <2> QED BY <2>1, <2>2 DEF ReadingsNext
<1> QED BY <1>1, <1>2, PTL DEF ReadingsSpec

(* What Of reads off the passes: a reading for every pass of the arm.      *)
LEMMA ReadingsOf ==
  ASSUME PassesAsScheduled, NEW arm
  PROVE  LET mine == {i \in DOMAIN passes : passes[i].arm = arm}
         IN /\ Of(arm) \in Seq(Int)
            /\ Cardinality(mine) \in Nat
            /\ Len(Of(arm)) = Cardinality(mine)
<1> DEFINE mine == {i \in DOMAIN passes : passes[i].arm = arm}
           at(r) == CHOOSE i \in mine : Cardinality({j \in mine : j < i}) = r - 1
           k == Cardinality(mine)
<1>1. passes \in Seq(Ran) /\ Len(passes) \in Nat /\ DOMAIN passes = 1 .. Len(passes)
  BY DEF PassesAsScheduled
<1>2. Within(mine, Len(passes)) BY <1>1 DEF Within
<1>3. PICK rank : /\ \A p \in mine : rank[p] = Cardinality(Smaller(mine, p))
                  /\ k \in Nat
                  /\ \A r \in 0 .. k - 1 : \E p \in mine : rank[p] = r
  <2> HIDE DEF mine
  <2>1. \E rank \in [mine -> Nat] :
          /\ \A p \in mine : rank[p] = Cardinality(Smaller(mine, p))
          /\ Cardinality(mine) \in Nat
          /\ \A p \in mine : rank[p] \in 0 .. Cardinality(mine) - 1
          /\ \A p, q \in mine : rank[p] = rank[q] => p = q
          /\ \A r \in 0 .. Cardinality(mine) - 1 : \E p \in mine : rank[p] = r
    BY <1>1, <1>2, NumbersBySize
  <2> QED BY <2>1
<1>4. \A p \in mine : Smaller(mine, p) = {j \in mine : j < p} BY DEF Smaller
<1>5. Of(arm) = [r \in 1 .. k |-> passes[at(r)].wall] BY DEF Of
<1>6. ASSUME NEW r \in 1 .. k PROVE passes[at(r)].wall \in Int
  <2>1. r - 1 \in 0 .. k - 1 BY <1>3
  <2>2. \E i \in mine : Cardinality({j \in mine : j < i}) = r - 1
    BY <1>3, <1>4, <2>1
  <2>3. at(r) \in mine BY <2>2
  <2>4. passes[at(r)] \in Ran BY <1>1, <2>3
  <2> QED BY <2>4 DEF Ran
<1> HIDE DEF mine, at, k
<1>7. [r \in 1 .. k |-> passes[at(r)].wall] \in [1 .. k -> Int] BY <1>6
<1>8. Of(arm) \in [1 .. k -> Int] /\ k \in Nat BY <1>3, <1>5, <1>7
<1>9. Of(arm) \in Seq(Int) /\ Len(Of(arm)) = k BY <1>8
<1> QED BY <1>8, <1>9 DEF mine, k

(* What a report says has been compared.                                   *)
LEMMA ReportedBothRan ==
  ASSUME Reported
  PROVE  BothRan /\ Comparable(passes) /\ passes # <<>>
BY DEF Reported, Report

(* bench.py:161: with as many readings in both arms, p is never below the  *)
(* floor a report states, and never above one, for any passes, wall times  *)
(* and logs.                                                               *)
THEOREM NoPBelowTheFloor ==
  ReadingsSpec => []FloorIsTheSmallest
<1>1. PassesAsScheduled => FloorIsTheSmallest
  <2> SUFFICES ASSUME PassesAsScheduled, Reported, Len(Left) = Len(Right)
               PROVE  /\ AtMost(PFloor(Len(Left), Len(Right)), PermutationP(Left, Right))
                      /\ PermutationP(Left, Right).num <= PermutationP(Left, Right).den
    BY DEF FloorIsTheSmallest
  <2>1. Left \in Seq(Int) /\ Right \in Seq(Int) BY ReadingsOf DEF Left, Right
  <2>2. Left # <<>> BY ReportedBothRan DEF BothRan
  <2> QED BY <2>1, <2>2, NoneBelowTheFloor
<1> QED BY <1>1, PassesComeAsScheduled, PTL

(* bench.py:227: where a p is offered of arms with as many readings, it is *)
(* on the floor exactly when every reading of one arm is below every one of*)
(* the other, for any passes, wall times and logs.                         *)
THEOREM OnTheFloorApart ==
  ReadingsSpec => []OnFloorMeansApart
<1>1. PassesAsScheduled => OnFloorMeansApart
  <2> SUFFICES ASSUME PassesAsScheduled, Reported, Len(Left) = Len(Right),
                      Verdict(Left, Right).p # NoP
               PROVE  OnFloor(Verdict(Left, Right)) <=> Below(Left, Right) \/ Below(Right, Left)
    BY DEF OnFloorMeansApart, Answer
  <2>1. Left \in Seq(Int) /\ Right \in Seq(Int) BY ReadingsOf DEF Left, Right
  <2>2. Left # <<>> BY ReportedBothRan DEF BothRan
  <2> QED BY <2>1, <2>2, VerdictOnFloor
<1> QED BY <1>1, PassesComeAsScheduled, PTL

(* verdict: calling the other arm the baseline never changes whether a     *)
(* report is decided, for any passes, wall times and logs, and however     *)
(* unequally often the arms have run.                                      *)
THEOREM EitherArmDecides ==
  ReadingsSpec => []EitherArmAsBaseline
<1>1. PassesAsScheduled => EitherArmAsBaseline
  <2> SUFFICES ASSUME PassesAsScheduled
               PROVE  Verdict(Right, Left).decided = Verdict(Left, Right).decided
    BY DEF EitherArmAsBaseline, Answer
  <2>1. Left \in Seq(Int) /\ Right \in Seq(Int) BY ReadingsOf DEF Left, Right
  <2> QED BY <2>1, VerdictEitherWay
<1> QED BY <1>1, PassesComeAsScheduled, PTL

(* One number further, a count grows by that number or not at all.         *)
CountTo(Q, n) == Cardinality((1 .. n) \cap Q)

(* The count at one number further.                                        *)
LEMMA CountOneFurther ==
  ASSUME NEW Q, NEW n \in Nat
  PROVE  /\ CountTo(Q, n) \in Nat
         /\ n + 1 \in Q => CountTo(Q, n + 1) = CountTo(Q, n) + 1
         /\ n + 1 \notin Q => CountTo(Q, n + 1) = CountTo(Q, n)
<1> DEFINE c == (1 .. n) \cap Q
<1>1. IsFiniteSet(1 .. n) BY FirstNumbers
<1>2. IsFiniteSet(c) BY <1>1, FS_Subset
<1>3. Cardinality(c) \in Nat BY <1>2, FS_CardinalityType
<1>4. n + 1 \notin c OBVIOUS
<1>5. n + 1 \in Q => (1 .. n + 1) \cap Q = c \cup {n + 1} OBVIOUS
<1>6. n + 1 \notin Q => (1 .. n + 1) \cap Q = c
  <2>1. 1 .. n + 1 = (1 .. n) \cup {n + 1} OBVIOUS
  <2> QED BY <2>1
<1>7. Cardinality(c \cup {n + 1}) = Cardinality(c) + 1 BY <1>2, <1>4, FS_AddElement
<1> QED BY <1>3, <1>5, <1>6, <1>7 DEF CountTo

FirstTurns(rest) == {k \in Nat : k % 4 = rest}

(* Over any first passes of the schedule, the arms have run as often give  *)
(* or take one, and so have they gone first.                               *)
LEMMA TurnsAreEven ==
  ASSUME NEW n \in Nat
  PROVE  /\ CountTo(LeftTurns, n) - CountTo(RightTurns, n) =
              (IF n % 4 = 1 THEN 1 ELSE IF n % 4 = 3 THEN -1 ELSE 0)
         /\ CountTo(FirstTurns(1), n) - CountTo(FirstTurns(3), n) =
              (IF n % 4 = 1 \/ n % 4 = 2 THEN 1 ELSE 0)
<1> DEFINE Even(m) ==
             /\ CountTo(LeftTurns, m) - CountTo(RightTurns, m) =
                  (IF m % 4 = 1 THEN 1 ELSE IF m % 4 = 3 THEN -1 ELSE 0)
             /\ CountTo(FirstTurns(1), m) - CountTo(FirstTurns(3), m) =
                  (IF m % 4 = 1 \/ m % 4 = 2 THEN 1 ELSE 0)
           S == {m \in Nat : Even(m)}
<1>1. 0 \in S
  <2>1. \A Q : CountTo(Q, 0) = 0
    <3>1. \A Q : (1 .. 0) \cap Q = {} OBVIOUS
    <3> QED BY <3>1, FS_EmptySet DEF CountTo
  <2> QED BY <2>1
<1>2. ASSUME NEW m \in Nat, m \in S PROVE m + 1 \in S
  <2> DEFINE l(i) == CountTo(LeftTurns, i)
             r(i) == CountTo(RightTurns, i)
             f(i) == CountTo(FirstTurns(1), i)
             g(i) == CountTo(FirstTurns(3), i)
  <2>1. l(m) \in Nat /\ r(m) \in Nat /\ f(m) \in Nat /\ g(m) \in Nat BY CountOneFurther
  <2>2. /\ m + 1 \in LeftTurns => l(m + 1) = l(m) + 1
        /\ m + 1 \notin LeftTurns => l(m + 1) = l(m)
        /\ m + 1 \in RightTurns => r(m + 1) = r(m) + 1
        /\ m + 1 \notin RightTurns => r(m + 1) = r(m)
    BY CountOneFurther
  <2>3. /\ m + 1 \in FirstTurns(1) => f(m + 1) = f(m) + 1
        /\ m + 1 \notin FirstTurns(1) => f(m + 1) = f(m)
        /\ m + 1 \in FirstTurns(3) => g(m + 1) = g(m) + 1
        /\ m + 1 \notin FirstTurns(3) => g(m + 1) = g(m)
    BY CountOneFurther
  <2>4. /\ m + 1 \in LeftTurns <=> ((m + 1) % 4 = 0 \/ (m + 1) % 4 = 1)
        /\ m + 1 \in RightTurns <=> ((m + 1) % 4 = 2 \/ (m + 1) % 4 = 3)
        /\ m + 1 \in FirstTurns(1) <=> (m + 1) % 4 = 1
        /\ m + 1 \in FirstTurns(3) <=> (m + 1) % 4 = 3
    BY DEF LeftTurns, RightTurns, FirstTurns
  <2>5. /\ l(m) - r(m) = (IF m % 4 = 1 THEN 1 ELSE IF m % 4 = 3 THEN -1 ELSE 0)
        /\ f(m) - g(m) = (IF m % 4 = 1 \/ m % 4 = 2 THEN 1 ELSE 0)
    BY <1>2
  <2> HIDE DEF l, r, f, g
  <2>6. \/ m % 4 = 0 /\ (m + 1) % 4 = 1
        \/ m % 4 = 1 /\ (m + 1) % 4 = 2
        \/ m % 4 = 2 /\ (m + 1) % 4 = 3
        \/ m % 4 = 3 /\ (m + 1) % 4 = 0
    OBVIOUS
  <2>7. l(m + 1) - r(m + 1)
        = (IF (m + 1) % 4 = 1 THEN 1 ELSE IF (m + 1) % 4 = 3 THEN -1 ELSE 0)
    BY <2>1, <2>2, <2>4, <2>5, <2>6
  <2>8. f(m + 1) - g(m + 1) = (IF (m + 1) % 4 = 1 \/ (m + 1) % 4 = 2 THEN 1 ELSE 0)
    BY <2>1, <2>3, <2>4, <2>5, <2>6
  <2>9. Even(m + 1) BY <2>7, <2>8 DEF l, r, f, g
  <2> QED BY <2>9
<1> HIDE DEF S
<1>3. n \in S BY <1>1, <1>2, InductionOverNat
<1> QED BY <1>3 DEF S

(* schedule: wherever the passes stop, no arm has run twice more than the  *)
(* other, and none has gone first more than once oftener.                  *)
THEOREM ASplitRunRotates ==
  ReadingsSpec => []Rotates
<1>1. PassesAsScheduled => Rotates
  <2> SUFFICES ASSUME PassesAsScheduled PROVE Rotates OBVIOUS
  <2> DEFINE n == Len(passes)
  <2>1. n \in Nat /\ DOMAIN passes = 1 .. n BY DEF PassesAsScheduled
  <2>2. \A k \in 1 .. n : /\ passes[k].arm = "left" <=> k \in LeftTurns
                          /\ passes[k].arm = "right" <=> k \in RightTurns
    BY DEF PassesAsScheduled
  <2> HIDE DEF n
  <2>3. /\ Len(Left) = CountTo(LeftTurns, n)
        /\ Len(Right) = CountTo(RightTurns, n)
    <3>1. /\ {k \in DOMAIN passes : passes[k].arm = "left"} = (1 .. n) \cap LeftTurns
          /\ {k \in DOMAIN passes : passes[k].arm = "right"} = (1 .. n) \cap RightTurns
      BY <2>1, <2>2
    <3>2. \A arm : Len(Of(arm)) = Cardinality({k \in DOMAIN passes : passes[k].arm = arm})
      BY ReadingsOf
    <3> QED BY <3>1, <3>2 DEF CountTo, Left, Right
  <2>4. /\ FirstsOf("left") = CountTo(FirstTurns(1), n)
        /\ FirstsOf("right") = CountTo(FirstTurns(3), n)
    <3>1. ASSUME NEW k \in 1 .. n
          PROVE  /\ (k - 1) % 2 = 0 /\ k \in LeftTurns <=> k \in FirstTurns(1)
                 /\ (k - 1) % 2 = 0 /\ k \in RightTurns <=> k \in FirstTurns(3)
      BY <2>1 DEF LeftTurns, RightTurns, FirstTurns
    <3>2. /\ {k \in 1 .. n : (k - 1) % 2 = 0 /\ passes[k].arm = "left"}
             = (1 .. n) \cap FirstTurns(1)
          /\ {k \in 1 .. n : (k - 1) % 2 = 0 /\ passes[k].arm = "right"}
             = (1 .. n) \cap FirstTurns(3)
      BY <2>2, <3>1
    <3>3. Len(TwoArms) = 2 BY DEF TwoArms
    <3> QED BY <2>1, <3>2, <3>3 DEF CountTo, FirstsOf
  <2>5. /\ Len(Left) - Len(Right) \in -1 .. 1
        /\ FirstsOf("left") - FirstsOf("right") \in -1 .. 1
    BY <2>1, <2>3, <2>4, TurnsAreEven
  <2>6. \A x \in -1 .. 1 : Abs(x) <= 1 BY DEF Abs
  <2> QED BY <2>5, <2>6 DEF Rotates
<1> QED BY <1>1, PassesComeAsScheduled, PTL

-----------------------------------------------------------------------------
(* The same work, and the same shape of it.                                *)

(* The members of D that a function f sends to k.                          *)
SentTo(f, D, k) == {x \in D : f[x] = k}

(* With as many members for every key on both sides, the members can be    *)
(* paired off within their keys.                                           *)
LEMMA MatchedByKey ==
  ASSUME NEW D, NEW E, IsFiniteSet(D), IsFiniteSet(E), NEW f, NEW g,
         \A k : Cardinality(SentTo(f, D, k)) = Cardinality(SentTo(g, E, k))
  PROVE  \E b \in Bijection(D, E) : \A x \in D : g[b[x]] = f[x]
<1> DEFINE match(k) == CHOOSE h : h \in Bijection(SentTo(f, D, k), SentTo(g, E, k))
           b == [x \in D |-> match(f[x])[x]]
<1>1. \A k : match(k) \in Bijection(SentTo(f, D, k), SentTo(g, E, k))
  <2>1. TAKE k
  <2>2. SentTo(f, D, k) \in SUBSET D /\ SentTo(g, E, k) \in SUBSET E BY DEF SentTo
  <2>3. IsFiniteSet(SentTo(f, D, k)) /\ IsFiniteSet(SentTo(g, E, k)) BY <2>2, FS_Subset
  <2>4. ExistsBijection(SentTo(f, D, k), SentTo(g, E, k)) BY <2>3, FS_SameCardinalityBij
  <2>5. \E h : h \in Bijection(SentTo(f, D, k), SentTo(g, E, k)) BY <2>4 DEF ExistsBijection
  <2> QED BY <2>5
<1> HIDE DEF match
<1>2. \A k : /\ \A x \in SentTo(f, D, k) : match(k)[x] \in SentTo(g, E, k)
             /\ \A x, y \in SentTo(f, D, k) : match(k)[x] = match(k)[y] => x = y
             /\ \A e \in SentTo(g, E, k) : \E x \in SentTo(f, D, k) : match(k)[x] = e
  <2>1. TAKE k
  <2> DEFINE h == match(k)
             S == SentTo(f, D, k)
             T == SentTo(g, E, k)
  <2>2. h \in Bijection(S, T) BY <1>1
  <2> HIDE DEF h, S, T
  <2>3. /\ \A x \in S : h[x] \in T
        /\ \A x, y \in S : h[x] = h[y] => x = y
        /\ \A e \in T : \E x \in S : h[x] = e
    BY <2>2 DEF Bijection, Injection, Surjection, IsInjective
  <2> QED BY <2>3 DEF h, S, T
<1>3. ASSUME NEW x \in D PROVE b[x] \in E /\ g[b[x]] = f[x]
  <2>1. x \in SentTo(f, D, f[x]) BY DEF SentTo
  <2>2. match(f[x])[x] \in SentTo(g, E, f[x]) BY <1>2, <2>1
  <2> QED BY <2>2 DEF SentTo
<1>4. ASSUME NEW x \in D, NEW y \in D, b[x] = b[y] PROVE x = y
  <2>1. f[x] = f[y] BY <1>3, <1>4
  <2>2. x \in SentTo(f, D, f[x]) /\ y \in SentTo(f, D, f[x]) BY <2>1 DEF SentTo
  <2>3. match(f[x])[x] = match(f[x])[y] BY <1>4, <2>1
  <2> QED BY <1>2, <2>2, <2>3
<1>5. ASSUME NEW e \in E PROVE \E x \in D : b[x] = e
  <2>1. e \in SentTo(g, E, g[e]) BY DEF SentTo
  <2>2. PICK x \in SentTo(f, D, g[e]) : match(g[e])[x] = e BY <1>2, <2>1
  <2>3. x \in D /\ f[x] = g[e] BY DEF SentTo
  <2> QED BY <2>2, <2>3
<1>6. b \in [D -> E] BY <1>3
<1>7. b \in Bijection(D, E)
  <2> HIDE DEF b
  <2> QED BY <1>4, <1>5, <1>6 DEF Bijection, Injection, Surjection, IsInjective
<1> QED BY <1>3, <1>7

(* The places of the stages that did a piece of work, and of those that    *)
(* read so many rows.                                                      *)
Doing(stages, work) == {i \in DOMAIN stages : <<stages[i].of, stages[i].rows>> = work}
Reading(stages, rows) == {i \in DOMAIN stages : stages[i].rows = rows}

(* The places and the members of a log's stages.                           *)
LEMMA AStagesLog ==
  ASSUME NEW s \in Stages
  PROVE  /\ DOMAIN s = 1 .. Len(s) /\ IsFiniteSet(DOMAIN s)
         /\ \A i \in DOMAIN s : s[i] \in [of : STRING, rows : Nat, spread : Int]
<1>1. Len(s) \in Nat /\ DOMAIN s = 1 .. Len(s) BY DEF Stages
<1>2. IsFiniteSet(1 .. Len(s)) BY <1>1, FirstNumbers
<1>3. \A i \in DOMAIN s : s[i] \in [of : STRING, rows : Nat, spread : Int]
  <2> DEFINE K == [of : STRING, rows : Nat, spread : Int]
  <2>1. s \in Seq(K) BY DEF Stages
  <2> HIDE DEF K
  <2>2. \A i \in DOMAIN s : s[i] \in K BY <2>1
  <2> QED BY <2>2 DEF K
<1> QED BY <1>1, <1>2, <1>3

(* WorkOf and WorkShape in these terms.                                    *)
LEMMA WorkAndShape ==
  ASSUME NEW s
  PROVE  /\ WorkOf(s) = [work \in {<<s[i].of, s[i].rows>> : i \in DOMAIN s} |->
                           Cardinality(Doing(s, work))]
         /\ WorkShape(s) = [rows \in {s[i].rows : i \in DOMAIN s} |->
                              Cardinality(Reading(s, rows))]
BY DEF WorkOf, WorkShape, Doing, Reading

(* Stages that did the same work have the same shape: paired off by work,  *)
(* they are paired off by rows.                                            *)
LEMMA SameWorkSameShape ==
  ASSUME NEW s \in Stages, NEW t \in Stages, WorkOf(s) = WorkOf(t)
  PROVE  WorkShape(s) = WorkShape(t)
<1> DEFINE f == [i \in DOMAIN s |-> <<s[i].of, s[i].rows>>]
           g == [i \in DOMAIN t |-> <<t[i].of, t[i].rows>>]
           works(u) == {<<u[i].of, u[i].rows>> : i \in DOMAIN u}
<1>1. IsFiniteSet(DOMAIN s) /\ IsFiniteSet(DOMAIN t) BY AStagesLog
<1>2. \A k : /\ SentTo(f, DOMAIN s, k) = Doing(s, k)
             /\ SentTo(g, DOMAIN t, k) = Doing(t, k)
  BY DEF SentTo, Doing
<1>3. works(s) = works(t) /\ \A k \in works(s) : Cardinality(Doing(s, k)) = Cardinality(Doing(t, k))
  <2>1. /\ WorkOf(s) = [work \in works(s) |-> Cardinality(Doing(s, work))]
        /\ WorkOf(t) = [work \in works(t) |-> Cardinality(Doing(t, work))]
    BY WorkAndShape
  <2> HIDE DEF works
  <2>2. DOMAIN WorkOf(s) = works(s) /\ DOMAIN WorkOf(t) = works(t) BY <2>1
  <2>3. works(s) = works(t) BY <2>2
  <2>4. \A k \in works(s) : /\ WorkOf(s)[k] = Cardinality(Doing(s, k))
                            /\ WorkOf(t)[k] = Cardinality(Doing(t, k))
    BY <2>1, <2>3
  <2> QED BY <2>3, <2>4
<1>4. \A k : Cardinality(Doing(s, k)) = Cardinality(Doing(t, k))
  <2>1. TAKE k
  <2>2. CASE k \in works(s) BY <1>3, <2>2
  <2>3. CASE k \notin works(s)
    <3>1. k \notin works(t) BY <1>3, <2>3
    <3>2. Doing(s, k) = {} BY <2>3 DEF Doing
    <3>3. Doing(t, k) = {} BY <3>1 DEF Doing
    <3> QED BY <3>2, <3>3
  <2> QED BY <2>2, <2>3
<1>5. PICK b \in Bijection(DOMAIN s, DOMAIN t) : \A x \in DOMAIN s : g[b[x]] = f[x]
  <2>1. \A k : Cardinality(SentTo(f, DOMAIN s, k)) = Cardinality(SentTo(g, DOMAIN t, k))
    BY <1>2, <1>4
  <2> HIDE DEF f, g
  <2> QED BY <1>1, <2>1, MatchedByKey
<1>6. /\ \A x \in DOMAIN s : b[x] \in DOMAIN t
      /\ \A x, y \in DOMAIN s : b[x] = b[y] => x = y
      /\ \A e \in DOMAIN t : \E x \in DOMAIN s : b[x] = e
  BY <1>5 DEF Bijection, Injection, Surjection, IsInjective
<1>7. \A x \in DOMAIN s : t[b[x]].rows = s[x].rows BY <1>5, <1>6
<1>8. ASSUME NEW r PROVE Cardinality(Reading(s, r)) = Cardinality(Reading(t, r))
  <2>1. Reading(s, r) \in SUBSET (DOMAIN s) /\ IsFiniteSet(Reading(s, r))
    BY <1>1, FS_Subset DEF Reading
  <2>2. Moved(b, Reading(s, r)) = Reading(t, r) BY <1>6, <1>7 DEF Moved, Reading
  <2>3. KeepsApart(b, DOMAIN s) BY <1>6 DEF KeepsApart
  <2> QED BY <2>1, <2>2, <2>3, MovedIsAsLarge
<1>9. {s[i].rows : i \in DOMAIN s} = {t[i].rows : i \in DOMAIN t} BY <1>6, <1>7
<1> QED
  <2> DEFINE R(u) == {u[i].rows : i \in DOMAIN u}
  <2>1. /\ WorkShape(s) = [r \in R(s) |-> Cardinality(Reading(s, r))]
        /\ WorkShape(t) = [r \in R(t) |-> Cardinality(Reading(t, r))]
    BY WorkAndShape
  <2>2. R(s) = R(t) BY <1>9
  <2> HIDE DEF R
  <2> QED BY <1>8, <2>1, <2>2

(* Where a count of rows tells the part of the query it is of, two logs of *)
(* the same shape show the same work.                                      *)
RowsTell(s, t) == \A i \in DOMAIN s, j \in DOMAIN t : s[i].rows = t[j].rows => s[i].of = t[j].of

(* What it means that the shapes are the same.                             *)
LEMMA SameShape ==
  ASSUME NEW s \in Stages, NEW t \in Stages, WorkShape(s) = WorkShape(t)
  PROVE  /\ {s[i].rows : i \in DOMAIN s} = {t[i].rows : i \in DOMAIN t}
         /\ \A r \in {s[i].rows : i \in DOMAIN s} :
              Cardinality(Reading(s, r)) = Cardinality(Reading(t, r))
<1> DEFINE R(u) == {u[i].rows : i \in DOMAIN u}
<1>1. /\ WorkShape(s) = [r \in R(s) |-> Cardinality(Reading(s, r))]
      /\ WorkShape(t) = [r \in R(t) |-> Cardinality(Reading(t, r))]
  BY WorkAndShape
<1> HIDE DEF R
<1>2. DOMAIN WorkShape(s) = R(s) /\ DOMAIN WorkShape(t) = R(t) BY <1>1
<1>3. R(s) = R(t) BY <1>2
<1>4. \A r \in R(s) : /\ WorkShape(s)[r] = Cardinality(Reading(s, r))
                      /\ WorkShape(t)[r] = Cardinality(Reading(t, r))
  BY <1>1, <1>3
<1> QED BY <1>3, <1>4 DEF R

LEMMA SameShapeSameWork ==
  ASSUME NEW s \in Stages, NEW t \in Stages, WorkShape(s) = WorkShape(t),
         RowsTell(s, s), RowsTell(s, t), RowsTell(t, t)
  PROVE  WorkOf(s) = WorkOf(t)
<1> DEFINE works(u) == {<<u[i].of, u[i].rows>> : i \in DOMAIN u}
<1>1. /\ {s[i].rows : i \in DOMAIN s} = {t[i].rows : i \in DOMAIN t}
      /\ \A r \in {s[i].rows : i \in DOMAIN s} :
           Cardinality(Reading(s, r)) = Cardinality(Reading(t, r))
  BY SameShape
<1>2. ASSUME NEW i \in DOMAIN s
      PROVE  LET w == <<s[i].of, s[i].rows>> IN
             /\ w \in works(t)
             /\ Doing(s, w) = Reading(s, s[i].rows)
             /\ Doing(t, w) = Reading(t, s[i].rows)
  <2> DEFINE w == <<s[i].of, s[i].rows>>
  <2>1. \A j \in DOMAIN s : s[j].rows = s[i].rows => s[j].of = s[i].of BY DEF RowsTell
  <2>2. \A j \in DOMAIN t : t[j].rows = s[i].rows => t[j].of = s[i].of BY DEF RowsTell
  <2>3. PICK j \in DOMAIN t : t[j].rows = s[i].rows BY <1>1
  <2>4. w = <<t[j].of, t[j].rows>> BY <2>2, <2>3
  <2>5. w \in works(t) BY <2>4
  <2>6. Doing(s, w) = Reading(s, s[i].rows) BY <2>1 DEF Doing, Reading
  <2>7. Doing(t, w) = Reading(t, s[i].rows) BY <2>2 DEF Doing, Reading
  <2> QED BY <2>5, <2>6, <2>7
<1>3. ASSUME NEW j \in DOMAIN t PROVE <<t[j].of, t[j].rows>> \in works(s)
  <2>1. PICK i \in DOMAIN s : s[i].rows = t[j].rows BY <1>1
  <2>2. s[i].of = t[j].of BY <2>1 DEF RowsTell
  <2> QED BY <2>1, <2>2
<1>4. works(s) = works(t)
  <2>1. works(s) \subseteq works(t) BY <1>2
  <2>2. works(t) \subseteq works(s) BY <1>3
  <2> QED BY <2>1, <2>2
<1>5. \A w \in works(s) : Cardinality(Doing(s, w)) = Cardinality(Doing(t, w))
  <2>1. TAKE w \in works(s)
  <2>2. PICK i \in DOMAIN s : w = <<s[i].of, s[i].rows>> OBVIOUS
  <2>3. Doing(s, w) = Reading(s, s[i].rows) /\ Doing(t, w) = Reading(t, s[i].rows)
    BY <1>2, <2>2
  <2>4. Cardinality(Reading(s, s[i].rows)) = Cardinality(Reading(t, s[i].rows)) BY <1>1
  <2> QED BY <2>3, <2>4
<1>6. /\ WorkOf(s) = [w \in works(s) |-> Cardinality(Doing(s, w))]
      /\ WorkOf(t) = [w \in works(t) |-> Cardinality(Doing(t, w))]
  BY WorkAndShape
<1> HIDE DEF works
<1> QED BY <1>4, <1>5, <1>6

-----------------------------------------------------------------------------
(* The stage that carries the work.                                        *)

(* The first of the stages with the most rows, if any has rows.            *)
LEMMA CarriesTheMost ==
  ASSUME NEW s \in Stages, CarryingStage(s) # NoStage
  PROVE  \E i \in DOMAIN s :
           /\ CarryingStage(s) = s[i] /\ s[i].rows > 0
           /\ \A j \in DOMAIN s : s[j].rows <= s[i].rows
<1> DEFINE ranked == {i \in DOMAIN s : s[i].rows > 0}
           Beats(i, j) == s[j].rows < s[i].rows \/ (s[j].rows = s[i].rows /\ i <= j)
           P == {c \in SUBSET (DOMAIN s) : c = {} \/ \E i \in c : \A j \in c : Beats(i, j)}
<1>1. /\ DOMAIN s \in SUBSET Nat /\ IsFiniteSet(DOMAIN s)
      /\ \A i \in DOMAIN s : s[i].rows \in Nat
  <2>1. Len(s) \in Nat BY DEF Stages
  <2> QED BY <2>1, AStagesLog
<1>2. {} \in P OBVIOUS
<1>3. ASSUME NEW c \in SUBSET (DOMAIN s), NEW x \in (DOMAIN s) \ c, c \in P
      PROVE  c \cup {x} \in P
  <2>1. Beats(x, x) BY <1>1
  <2>2. CASE c = {}
    <3>1. \A j \in c \cup {x} : Beats(x, j) BY <2>1, <2>2
    <3> HIDE DEF Beats
    <3> QED BY <3>1
  <2>3. CASE c # {}
    <3>1. PICK i \in c : \A j \in c : Beats(i, j) BY <1>3, <2>3
    <3>2. i \in DOMAIN s /\ x \in DOMAIN s OBVIOUS
    <3>3. Beats(i, x) \/ Beats(x, i) BY <1>1, <3>2
    <3>4. CASE Beats(i, x)
      <4>1. \A j \in c \cup {x} : Beats(i, j) BY <3>1, <3>4
      <4> HIDE DEF Beats
      <4> QED BY <4>1
    <3>5. CASE Beats(x, i)
      <4>1. ASSUME NEW j \in c PROVE Beats(x, j)
        <5>1. Beats(i, j) /\ j \in DOMAIN s BY <3>1, <4>1
        <5> QED BY <1>1, <3>2, <3>5, <5>1
      <4>2. \A j \in c \cup {x} : Beats(x, j) BY <2>1, <4>1
      <4> HIDE DEF Beats
      <4> QED BY <4>2
    <3> QED BY <3>3, <3>4, <3>5
  <2> QED BY <2>2, <2>3
<1>4. ranked \in P
  <2> HIDE DEF P
  <2>1. \A c \in SUBSET (DOMAIN s) : \A x \in (DOMAIN s) \ c : c \in P => c \cup {x} \in P
    BY <1>3
  <2>2. \A c \in SUBSET (DOMAIN s) : c \in P BY <1>1, <1>2, <2>1, OneMemberMore
  <2> QED BY <2>2
<1> DEFINE chosen == CHOOSE i \in ranked : \A j \in ranked : Beats(i, j)
<1>5. ranked # {} /\ CarryingStage(s) = s[chosen]
  <2>1. CarryingStage(s) = IF ranked = {} THEN NoStage ELSE s[chosen]
    BY DEF CarryingStage, FirstLargest
  <2> QED BY <2>1
<1>6. chosen \in ranked /\ \A j \in ranked : Beats(chosen, j)
  <2>1. \E i \in ranked : \A j \in ranked : Beats(i, j) BY <1>4, <1>5
  <2> HIDE DEF ranked, Beats
  <2> QED BY <2>1
<1> HIDE DEF chosen
<1>7. chosen \in DOMAIN s /\ s[chosen].rows > 0 BY <1>6
<1>8. ASSUME NEW j \in DOMAIN s PROVE s[j].rows <= s[chosen].rows
  <2>1. CASE j \in ranked BY <1>1, <1>6, <1>7, <2>1
  <2>2. CASE j \notin ranked BY <1>1, <1>7, <2>2
  <2> QED BY <2>1, <2>2
<1> QED BY <1>5, <1>7, <1>8

(* Two logs of one shape are carried by one part of the query.             *)
LEMMA SameShapeSameCarrier ==
  ASSUME NEW s \in Stages, NEW t \in Stages, WorkShape(s) = WorkShape(t), RowsTell(s, t),
         CarryingStage(s) # NoStage, CarryingStage(t) # NoStage
  PROVE  CarryingStage(s).of = CarryingStage(t).of
<1>1. PICK i \in DOMAIN s : /\ CarryingStage(s) = s[i]
                            /\ \A k \in DOMAIN s : s[k].rows <= s[i].rows
  BY CarriesTheMost
<1>2. PICK j \in DOMAIN t : /\ CarryingStage(t) = t[j]
                            /\ \A k \in DOMAIN t : t[k].rows <= t[j].rows
  BY CarriesTheMost
<1>3. {s[k].rows : k \in DOMAIN s} = {t[k].rows : k \in DOMAIN t} BY SameShape
<1>4. PICK a \in DOMAIN t : t[a].rows = s[i].rows BY <1>3
<1>5. PICK b \in DOMAIN s : s[b].rows = t[j].rows BY <1>3
<1>6. s[i].rows <= t[j].rows /\ t[j].rows <= s[i].rows BY <1>1, <1>2, <1>4, <1>5
<1>7. s[i].rows \in Nat /\ t[j].rows \in Nat BY AStagesLog
<1>8. s[i].rows = t[j].rows BY <1>6, <1>7
<1> QED BY <1>1, <1>2, <1>8 DEF RowsTell

-----------------------------------------------------------------------------
(* check_comparable: one shape.                                            *)
LEMMA OneShape ==
  ASSUME NEW logs, NEW n \in Nat \ {0}, DOMAIN logs = 1 .. n
  PROVE  Comparable(logs)
         <=> \A i, j \in 1 .. n : WorkShape(logs[i].stages) = WorkShape(logs[j].stages)
<1> DEFINE f == [i \in 1 .. n |-> WorkShape(logs[i].stages)]
           shapes == {WorkShape(logs[i].stages) : i \in 1 .. n}
<1>1. IsFiniteSet(1 .. n) BY FirstNumbers
<1>2. IsFiniteSet(shapes)
  <2>1. f \in Surjection(1 .. n, shapes) BY DEF Surjection
  <2> HIDE DEF f, shapes
  <2> QED BY <1>1, <2>1, FS_Surjection
<1>3. Comparable(logs) <=> Cardinality(shapes) = 1 BY DEF Comparable
<1>4. Cardinality(shapes) = 1 <=> \E w : shapes = {w}
  <2> HIDE DEF shapes
  <2> QED BY <1>2, FS_Singleton
<1>5. ASSUME \E w : shapes = {w}
      PROVE  \A i, j \in 1 .. n : f[i] = f[j]
  <2>1. PICK w : shapes = {w} BY <1>5
  <2>2. \A i \in 1 .. n : f[i] \in shapes OBVIOUS
  <2> HIDE DEF f, shapes
  <2> QED BY <2>1, <2>2
<1>6. ASSUME \A i, j \in 1 .. n : f[i] = f[j]
      PROVE  \E w : shapes = {w}
  <2>1. 1 \in 1 .. n OBVIOUS
  <2>2. shapes = {f[i] : i \in 1 .. n} OBVIOUS
  <2> HIDE DEF f, shapes
  <2>3. \A i \in 1 .. n : f[i] = f[1] BY <1>6, <2>1
  <2>4. shapes = {f[1]} BY <2>1, <2>2, <2>3
  <2> QED BY <2>4
<1>7. \A i \in 1 .. n : f[i] = WorkShape(logs[i].stages) OBVIOUS
<1> HIDE DEF f, shapes
<1> QED BY <1>3, <1>4, <1>5, <1>6, <1>7

(* bench.py:113, 289: a report of both arms is refused only where some pass*)
(* did other work; where rows tell the part of the query, it is refused    *)
(* wherever one did, and what is printed follows one part throughout.      *)
THEOREM ReportsCompareOneWork ==
  ReadingsSpec => []ComparedDidTheSameWork
<1>1. PassesAsScheduled => ComparedDidTheSameWork
  <2> SUFFICES ASSUME PassesAsScheduled, BothRan
               PROVE  /\ Report = "not comparable" => OtherWork
                      /\ RowsTellThePart =>
                           /\ OtherWork => Report = "not comparable"
                           /\ Reported =>
                                \A i \in DOMAIN passes :
                                  CarryingStage(passes[i].stages).of
                                  = CarryingStage(passes[1].stages).of
    BY DEF ComparedDidTheSameWork
  <2> DEFINE n == Len(passes)
             log(i) == passes[i].stages
  <2>1. n \in Nat \ {0} /\ DOMAIN passes = 1 .. n /\ passes # <<>>
    <3>1. passes # <<>>
      <4> SUFFICES ASSUME passes = <<>> PROVE FALSE OBVIOUS
      <4>1. {i \in DOMAIN passes : passes[i].arm = "left"} = {} OBVIOUS
      <4>2. Len(Left) = 0 BY <4>1, ReadingsOf, FS_EmptySet DEF Left
      <4>3. Left \in Seq(Int) BY ReadingsOf DEF Left
      <4> QED BY <4>2, <4>3, EmptySeq DEF BothRan
    <3>2. passes \in Seq(Ran) BY DEF PassesAsScheduled
    <3>3. Len(passes) # 0 BY <3>1, <3>2, EmptySeq
    <3> QED BY <3>1, <3>2, <3>3
  <2>2. \A i \in 1 .. n : log(i) \in Stages
    <3>1. \A i \in 1 .. n : passes[i] \in Ran BY <2>1 DEF PassesAsScheduled
    <3> QED BY <3>1 DEF Ran
  <2>3. Report = "not comparable" <=> ~ Comparable(passes) BY <2>1 DEF Report
  <2>4. Comparable(passes)
        <=> \A i, j \in 1 .. n : WorkShape(log(i)) = WorkShape(log(j))
    <3> HIDE DEF n
    <3> QED BY <2>1, OneShape
  <2>5. OtherWork <=> \E i, j \in 1 .. n : WorkOf(log(i)) # WorkOf(log(j))
    <3>1. {WorkOf(passes[i].stages) : i \in DOMAIN passes} = {WorkOf(log(i)) : i \in 1 .. n}
      BY <2>1
    <3> HIDE DEF log, n
    <3> QED BY <3>1 DEF OtherWork
  <2>6. ASSUME RowsTellThePart, NEW i \in 1 .. n, NEW j \in 1 .. n
        PROVE  RowsTell(log(i), log(j))
    <3>1. ASSUME NEW k \in 1 .. n, NEW a \in DOMAIN log(k)
          PROVE  log(k)[a] \in UNION {{passes[m].stages[b] : b \in DOMAIN passes[m].stages} :
                                        m \in DOMAIN passes}
      BY <2>1, <3>1
    <3> HIDE DEF log, n
    <3> QED BY <2>6, <3>1 DEF RowsTellThePart, RowsTell
  <2> HIDE DEF log, n
  <2>7. ASSUME ~ Comparable(passes) PROVE OtherWork
    <3>1. PICK i \in 1 .. n, j \in 1 .. n : WorkShape(log(i)) # WorkShape(log(j))
      BY <2>4, <2>7
    <3>2. WorkOf(log(i)) # WorkOf(log(j)) BY <2>2, <3>1, SameWorkSameShape
    <3> QED BY <2>5, <3>2
  <2>8. ASSUME RowsTellThePart, Comparable(passes) PROVE ~ OtherWork
    <3>1. ASSUME NEW i \in 1 .. n, NEW j \in 1 .. n PROVE WorkOf(log(i)) = WorkOf(log(j))
      <4>1. WorkShape(log(i)) = WorkShape(log(j)) BY <2>4, <2>8
      <4>2. RowsTell(log(i), log(i)) /\ RowsTell(log(i), log(j)) /\ RowsTell(log(j), log(j))
        BY <2>6, <2>8
      <4> QED BY <2>2, <4>1, <4>2, SameShapeSameWork
    <3> QED BY <2>5, <3>1
  <2>9. ASSUME RowsTellThePart, Reported, NEW i \in 1 .. n
        PROVE  CarryingStage(log(i)).of = CarryingStage(log(1)).of
    <3>1. 1 \in 1 .. n BY <2>1
    <3>2. Comparable(passes) BY <2>9, ReportedBothRan
    <3>3. WorkShape(log(i)) = WorkShape(log(1)) BY <2>4, <3>1, <3>2
    <3>4. \A k \in 1 .. n : CarryingStage(log(k)) # NoStage
      <4>1. ~ \E k \in DOMAIN passes :
                NoStage \in {CarryingStage(passes[k].stages), WorstStage(passes[k].stages)}
        BY <2>9, <3>2, ReportedBothRan DEF Reported, Report
      <4> QED BY <2>1, <4>1 DEF log
    <3>5. RowsTell(log(i), log(1)) BY <2>6, <2>9, <3>1
    <3> QED BY <2>2, <3>1, <3>3, <3>4, <3>5, SameShapeSameCarrier
  <2> QED BY <2>1, <2>3, <2>7, <2>8, <2>9 DEF log
<1> QED BY <1>1, PassesComeAsScheduled, PTL
=============================================================================
