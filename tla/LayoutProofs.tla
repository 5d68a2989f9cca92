---------------------------- MODULE LayoutProofs ----------------------------
(***************************************************************************)
(* For any queries, counts, slots, retries and lost values: what `sjp      *)
(* layout` advises is a count Spark would accept that fits the volume and  *)
(* the slots, its exit status says what it printed, and what it says of    *)
(* stages it only knows by byte counts is so of the query behind the log.  *)
(***************************************************************************)
EXTENDS Tuning, Counting

-----------------------------------------------------------------------------
(* Division rounded up.                                                    *)

LEMMA CeilDivType ==
  ASSUME NEW a \in Nat, NEW b \in Nat \ {0}
  PROVE  CeilDiv(a, b) \in Nat
BY DEF CeilDiv

(* Enough, and one less would not be.                                      *)
LEMMA CeilDivTight ==
  ASSUME NEW a \in Nat, NEW b \in Nat \ {0}
  PROVE  /\ CeilDiv(a, b) * b >= a
         /\ (CeilDiv(a, b) - 1) * b < a
<1> DEFINE q == (a + b - 1) \div b
           r == (a + b - 1) % b
<1>1. q \in Int /\ r \in 0 .. b - 1 /\ a + b - 1 = b * q + r
  OBVIOUS
<1>2. q * b = b * q /\ (q - 1) * b = b * q - b
  BY <1>1
<1>3. q * b >= a /\ (q - 1) * b < a
  BY <1>1, <1>2
<1> QED
  BY <1>3 DEF CeilDiv

LEMMA MultipleHasNoRest ==
  ASSUME NEW k \in Nat, NEW b \in Nat \ {0}
  PROVE  (k * b) % b = 0
<1> DEFINE q == (k * b) \div b
           r == (k * b) % b
<1>1. k * b \in Nat
  OBVIOUS
<1>2. q \in Int /\ r \in 0 .. b - 1 /\ k * b = b * q + r
  BY <1>1
<1>3. (k - q) * b = r
  BY <1>2
<1>4. k - q < 1
  <2>1. SUFFICES ASSUME k - q >= 1 PROVE FALSE
    BY <1>2
  <2>2. 1 * b <= (k - q) * b
    BY <1>2, <2>1, TimesMonotone
  <2> QED
    BY <1>2, <1>3, <2>2
<1>5. k - q > -1
  <2>1. SUFFICES ASSUME k - q <= -1 PROVE FALSE
    BY <1>2
  <2>2. (k - q) * b <= (-1) * b
    BY <1>2, <2>1, TimesMonotone
  <2> QED
    BY <1>2, <1>3, <2>2
<1>6. k - q = 0
  BY <1>2, <1>4, <1>5
<1> QED
  BY <1>2, <1>3, <1>6

LEMMA TargetType ==
  ASSUME NEW v \in Nat, NEW slots \in Nat \ {0}
  PROVE  /\ FromVolume(v) \in Nat \ {0}
         /\ Target(v, slots) \in Nat \ {0}
         /\ Target(v, slots) >= slots
         /\ Target(v, slots) >= FromVolume(v)
<1> DEFINE f == FromVolume(v)
           most == Larger(f, slots)
           rounds == CeilDiv(most, slots)
<1>1. f \in Nat \ {0}
  BY CeilDivType, LayoutAssumption DEF FromVolume, Larger
<1>2. most \in Nat /\ most >= f /\ most >= slots
  BY <1>1 DEF Larger
<1> HIDE DEF most
<1>3. rounds \in Nat /\ rounds * slots >= most
  BY <1>2, CeilDivType, CeilDivTight
<1> HIDE DEF rounds, f
<1>4. rounds * slots \in Nat /\ rounds * slots >= f /\ rounds * slots >= slots
  BY <1>1, <1>2, <1>3
<1>5. Target(v, slots) = rounds * slots
  BY DEF Target, rounds, most, f
<1> QED
  BY <1>1, <1>4, <1>5 DEF f

(* Size_of's arithmetic, for any volume and slots.                         *)
LEMMA TargetFits ==
  ASSUME NEW v \in Nat, NEW slots \in Nat \ {0},
         NEW b, b.target = Target(v, slots), b.volume = v
  PROVE  Fits(b, slots)
<1> DEFINE f == FromVolume(v)
           most == Larger(f, slots)
           rounds == CeilDiv(most, slots)
           t == Target(v, slots)
<1>1. /\ f \in Nat \ {0} /\ t \in Nat \ {0} /\ t >= slots /\ t >= f
      /\ Advisory \in Nat \ {0}
  BY TargetType, LayoutAssumption
<1>2. most \in Nat /\ (most = f \/ (most = slots /\ slots >= f))
  BY <1>1 DEF Larger
<1>3. /\ rounds \in Nat
      /\ (rounds - 1) * slots < most
  BY <1>2, CeilDivType, CeilDivTight
<1>4. t = rounds * slots
  BY DEF Target
<1>5. CeilDiv(v, Advisory) \in Nat /\ CeilDiv(v, Advisory) * Advisory >= v
      /\ (CeilDiv(v, Advisory) - 1) * Advisory < v
  BY <1>1, CeilDivType, CeilDivTight
<1>6. f >= CeilDiv(v, Advisory) /\ (f = 1 \/ f = CeilDiv(v, Advisory))
  BY <1>5 DEF FromVolume, Larger
<1> DEFINE c == CeilDiv(v, Advisory)
<1>7. t * Advisory >= v
  <2>1. c * Advisory <= t * Advisory
    <3>1. c \in Int /\ t \in Int /\ Advisory \in Nat /\ c <= t
      BY <1>1, <1>5, <1>6
    <3> HIDE DEF c, t
    <3> QED
      BY <3>1, TimesMonotone
  <2>2. c * Advisory \in Nat /\ t * Advisory \in Nat
    BY <1>1, <1>5
  <2> QED
    BY <1>5, <2>1, <2>2
<1>8. Waves(t, slots)[2] = 0
  BY <1>3, <1>4, MultipleHasNoRest DEF Waves
<1>9. ASSUME NEW n \in 1 .. t - 1, n >= slots, n % slots = 0
      PROVE  n * Advisory < v
  <2> DEFINE q == n \div slots
  <2>1. q \in Int /\ n = slots * q
    BY <1>9
  <2>2. q < rounds
    <3>1. SUFFICES ASSUME rounds <= q PROVE FALSE
      BY <1>3, <2>1
    <3>2. rounds * slots <= q * slots
      <4> HIDE DEF q, rounds
      <4> QED
        BY <1>3, <2>1, <3>1, TimesMonotone
    <3>3. q * slots = n
      BY <2>1
    <3> QED
      BY <1>1, <1>4, <3>2, <3>3
  <2>3. n <= (rounds - 1) * slots
    <3>1. q \in Int /\ rounds - 1 \in Int /\ q <= rounds - 1
      BY <1>3, <2>1, <2>2
    <3>2. q * slots <= (rounds - 1) * slots
      <4> HIDE DEF q, rounds
      <4> QED
        BY <3>1, TimesMonotone
    <3> QED
      BY <2>1, <3>2
  <2>4. n < most
    <3>1. (rounds - 1) * slots \in Int
      BY <1>3
    <3> HIDE DEF most, rounds
    <3> QED
      BY <1>2, <1>3, <2>3, <3>1
  <2>5. most = f /\ n < f
    BY <1>2, <1>9, <2>4
  <2>6. f = c /\ n <= c - 1
    BY <1>5, <1>6, <2>5
  <2>7. n * Advisory <= (c - 1) * Advisory
    <3>1. n \in Int /\ c - 1 \in Int /\ Advisory \in Nat
      BY <1>1, <1>5
    <3> HIDE DEF c
    <3> QED
      BY <3>1, <2>6, TimesMonotone
  <2>8. n * Advisory \in Int /\ (c - 1) * Advisory \in Int
    BY <1>1, <1>5
  <2> QED
    BY <1>5, <2>7, <2>8
<1>10. \A n \in 1 .. t - 1 : n < slots \/ n % slots # 0 \/ n * Advisory < v
  <2> SUFFICES ASSUME NEW n \in 1 .. t - 1, ~(n < slots), n % slots = 0
               PROVE  n * Advisory < v
    OBVIOUS
  <2> QED
    BY <1>1, <1>9
<1> HIDE DEF t
<1> QED
  BY <1>1, <1>7, <1>8, <1>10 DEF Fits, t

-----------------------------------------------------------------------------
(* The first of some exchanges.                                            *)

(* What layout.py may rely on in an application read from a log.           *)
AppType ==
  /\ \A n \in DOMAIN query : app.tree[n].declared \in Nat \cup {None}
  /\ DOMAIN app.tree = DOMAIN query
  /\ app.plans \in Nat
  /\ app.slots \in Nat \cap SlotsSeen
  /\ \A k \in DOMAIN app.acc : app.acc[k] \in Nat

LEMMA LeadIsAMember ==
  ASSUME NEW p, NEW group \in SUBSET ({p} \X Nat), group # {}
  PROVE  Lead(group) \in group
<1> DEFINE nodes == {x[2] : x \in group}
<1>1. nodes \in SUBSET Nat /\ nodes # {}
  OBVIOUS
<1>2. PICK n \in nodes : \A m \in nodes : n <= m
  BY <1>1, HasLeast
<1>3. \E x \in group : \A y \in group : x[2] <= y[2]
  BY <1>2
<1> QED
  BY <1>3 DEF Lead

-----------------------------------------------------------------------------
(* One block of the report.                                                *)

LEMMA MetricType ==
  ASSUME AppType, NEW x, NEW name
  PROVE  Metric(app, x, name) \in Nat \cup {None}
BY DEF AppType, Metric

LEMMA DecisionType ==
  ASSUME query \in Queries, AppType, NEW p \in Nat, NEW x \in Shuffles(app, p)
  PROVE  /\ Decision(app, x) \subseteq Shuffles(app, p)
         /\ Decision(app, x) # {}
         /\ IsFiniteSet(Shuffles(app, p))
         /\ Shuffles(app, p) \subseteq {p} \X Nat
         /\ \A y \in Shuffles(app, p) : y[2] \in DOMAIN query
<1>1. query \in Seq(QueryNode) /\ DOMAIN query = 1 .. Len(query) /\ Len(query) \in Nat
  BY TuningAssumption
<1>2. Exchanges(app.tree) \subseteq 1 .. Len(query)
  BY <1>1 DEF AppType, Exchanges
<1>3. IsFiniteSet(Exchanges(app.tree))
  <2>1. 1 \in Int /\ Len(query) \in Int
    BY <1>1
  <2>2. IsFiniteSet(1 .. Len(query))
    BY <2>1, FS_Interval
  <2> QED
    BY <1>2, <2>2, FS_Subset
<1>4. IsFiniteSet({p}) /\ IsFiniteSet({p} \X Exchanges(app.tree))
  BY <1>3, FS_Singleton, FS_Product
<1>5. x[1] = p /\ Together(app, x) \subseteq Shuffles(app, p)
  BY DEF Together, Shuffles
<1>6. Decision(app, x) \subseteq Shuffles(app, p) /\ x \in Decision(app, x)
  BY <1>5 DEF Decision, Together
<1> QED
  BY <1>1, <1>2, <1>4, <1>6 DEF Shuffles

LEMMA VolumeType ==
  ASSUME AppType, NEW group, IsFiniteSet(group)
  PROVE  Volume(app, group) \in Nat \cup {None}
<1> SUFFICES ASSUME \A x \in group : Written(app, x) # None
             PROVE  Volume(app, group) \in Nat
  BY DEF Volume
<1> DEFINE bytes(x) == {x} \X (1 .. Written(app, x))
           all == {bytes(x) : x \in group}
           f == [x \in group |-> bytes(x)]
<1>1. ASSUME NEW x \in group PROVE IsFiniteSet(bytes(x))
  <2>1. Written(app, x) \in Nat
    BY MetricType DEF Written
  <2>2. 1 \in Int /\ Written(app, x) \in Int
    BY <2>1
  <2>3. IsFiniteSet(1 .. Written(app, x))
    BY <2>2, FS_Interval
  <2>4. IsFiniteSet({x})
    BY FS_Singleton
  <2> QED
    BY <2>3, <2>4, FS_Product
<1>2. f \in Surjection(group, all)
  BY DEF Surjection
<1>3. IsFiniteSet(all)
  <2> HIDE DEF f, all
  <2> QED
    BY <1>2, FS_Surjection
<1>4. IsFiniteSet(UNION all)
  <2>1. \A T \in all : IsFiniteSet(T)
    BY <1>1
  <2> HIDE DEF all
  <2> QED
    BY <1>3, <2>1, FS_UNION
<1>5. Cardinality(UNION all) \in Nat
  BY <1>4, FS_CardinalityType
<1>6. Volume(app, group) = Cardinality(UNION all)
  BY DEF Volume
<1> QED
  BY <1>5, <1>6

BlockType(b) ==
  /\ b.exchanges # {}
  /\ b.current \in Nat \cup {None}
  /\ b.volume \in Nat \cup {None}
  /\ b.target \in (Nat \ {0}) \cup {None}

LEMMA BlockIsSound ==
  ASSUME query \in Queries, AppType, ~Raises(app),
         NEW p \in 1 .. app.plans, NEW d \in Decisions(app, p)
  PROVE  /\ BlockType(Block(app, d))
         /\ Block(app, d).target # None => Fits(Block(app, d), app.slots)
<1> DEFINE b == Block(app, d)
           v == Volume(app, d)
<1>1. PICK x \in Shuffles(app, p) : d = Decision(app, x)
  BY DEF Decisions
<1>2. p \in Nat
  BY DEF AppType
<1>3. /\ d \subseteq Shuffles(app, p) /\ d # {} /\ IsFiniteSet(d)
      /\ d \in SUBSET ({p} \X Nat)
      /\ \A y \in d : y[2] \in DOMAIN query
  BY <1>1, <1>2, DecisionType, FS_Subset
<1>4. Lead(d) \in d
  BY <1>2, <1>3, LeadIsAMember
<1>5. Current(app, d) \in Nat \cup {None}
  <2>1. Partitions(app, Lead(d)) \in Nat \cup {None}
    BY MetricType DEF Partitions
  <2>2. Node(app, Lead(d)).declared \in Nat \cup {None}
    BY <1>3, <1>4 DEF AppType, Node
  <2> QED
    BY <2>1, <2>2 DEF Current
<1>6. v \in Nat \cup {None}
  BY <1>3, VolumeType
<1>7. b.exchanges = d /\ b.current = Current(app, d) /\ b.volume = v
      /\ b.target = IF Refused(app, d) THEN None ELSE Target(v, app.slots)
  BY DEF Block
<1>8. CASE Refused(app, d)
  BY <1>3, <1>5, <1>6, <1>7, <1>8 DEF BlockType
<1>9. CASE ~Refused(app, d)
  <2>1. v \in Nat /\ Current(app, d) # None
    BY <1>6, <1>9 DEF Refused
  <2>2. app.slots \in Nat \ {0}
    BY <2>1 DEF Raises, AppType
  <2>3. b.target = Target(v, app.slots)
    BY <1>7, <1>9
  <2> HIDE DEF b, v
  <2>4. b.target \in Nat \ {0}
    BY <2>1, <2>2, <2>3, TargetType
  <2>5. Fits(b, app.slots)
    BY <1>7, <2>1, <2>2, <2>3, TargetFits
  <2> QED
    BY <1>3, <1>5, <1>6, <1>7, <2>4, <2>5 DEF BlockType, b
<1> QED
  BY <1>8, <1>9

(* A decision that is not refused has a number for a target.               *)
LEMMA TargetIsANumber ==
  ASSUME query \in Queries, AppType, ~Raises(app),
         NEW p \in 1 .. app.plans, NEW d \in Decisions(app, p), ~Refused(app, d)
  PROVE  /\ Block(app, d).target = Target(Volume(app, d), app.slots)
         /\ Block(app, d).target # None
<1>1. Block(app, d).target = Target(Volume(app, d), app.slots)
  BY DEF Block
<1>2. Volume(app, d) \in Nat
  <2>1. Block(app, d).volume \in Nat \cup {None}
    BY BlockIsSound DEF BlockType
  <2> QED
    BY <2>1 DEF Block, Refused
<1>3. app.slots \in Nat \ {0}
  BY DEF Refused, Raises, AppType
<1>4. Target(Volume(app, d), app.slots) \in Nat
  BY <1>2, <1>3, TargetType
<1> QED
  BY <1>1, <1>4, LayoutAssumption

-----------------------------------------------------------------------------
(* The invariant: what is printed is the report of the application read.   *)

Printed ==
  report # None =>
    /\ phase = "tune"
    /\ ~Raises(app)
    /\ report = Report(app)
    /\ status = IF Actionable(app) THEN FOUND ELSE OK

IInv == TypeOK /\ (phase # "run" => AppType) /\ Printed

(* Whatever Spark does, the log read back is an application's.             *)
LEMMA RunsAreTyped ==
  ASSUME TypeOK, NEW plans \in 0 .. MaxPlans, NEW slots \in SlotsSeen,
         NEW hot, NEW retried, NEW early, NEW missing,
         app' = Ran(plans, slots, retried, early, hot, missing),
         query' = query
  PROVE  AppType'
<1> DEFINE a == Ran(plans, slots, retried, early, hot, missing)
<1>1. query \in Seq(QueryNode) /\ conf \in Nat
  BY TuningAssumption DEF TypeOK
<1>2. \A n \in DOMAIN query : query[n] \in QueryNode
  BY <1>1
<1>3. ASSUME NEW n \in DOMAIN query
      PROVE  /\ Counted(query[n], conf) \in Nat
             /\ Text(query[n], conf).declared \in Nat \cup {None}
             /\ \A name \in Names : Values(query[n], conf)[name] \in Nat
  <2>1. query[n].count \in Nat /\ query[n].estimated \in Nat /\ query[n].written \in Nat
    BY <1>2, <1>3 DEF QueryNode
  <2>2. Counted(query[n], conf) \in Nat
    BY <1>1, <2>1 DEF Counted
  <2> QED
    BY <2>1, <2>2 DEF Text, Values, Names
<1>4. plans \in Nat /\ slots \in Nat \cap SlotsSeen
  BY TuningAssumption
<1>5. /\ a.tree = [n \in DOMAIN query |-> Text(query[n], conf)]
      /\ a.plans = plans /\ a.slots = slots
      /\ a.acc = [k \in ((1 .. plans) \X Exchanges(query) \X Names) \ {missing} |->
                    Values(query[k[2]], conf)[k[3]]]
  BY DEF Ran
<1>6. \A k \in DOMAIN a.acc : a.acc[k] \in Nat
  <2> SUFFICES ASSUME NEW k \in DOMAIN a.acc PROVE a.acc[k] \in Nat
    OBVIOUS
  <2>1. k[2] \in DOMAIN query /\ k[3] \in Names
    BY <1>5 DEF Exchanges
  <2> QED
    BY <1>3, <1>5, <2>1
<1> HIDE DEF a
<1>7. app' = a
  BY DEF a
<1> QED
  BY <1>3, <1>4, <1>5, <1>6, <1>7 DEF AppType

LEMMA ReportType ==
  ASSUME query \in Queries, AppType, ~Raises(app), NEW b \in Report(app).counts
  PROVE  BlockType(b) /\ (b.target # None => Fits(b, app.slots))
<1>1. b \in Blocks(app)
  BY DEF Report
<1>2. PICK p \in 1 .. app.plans : \E d \in Decisions(app, p) : b = Block(app, d)
  BY <1>1 DEF Blocks
<1> QED
  BY <1>2, BlockIsSound

LEMMA InvInit == Init => IInv
BY TuningAssumption DEF Init, IInv, TypeOK, Printed

LEMMA InvNext == IInv /\ [Next]_vars => IInv'
<1> SUFFICES ASSUME IInv, [Next]_vars PROVE IInv'
  OBVIOUS
<1>1. ASSUME NEW plans \in 0 .. MaxPlans, NEW slots \in SlotsSeen, NEW hot,
             RunQuery(plans, slots, hot)
      PROVE  IInv'
  <2>1. /\ phase = "run" /\ phase' = "read"
        /\ UNCHANGED <<query, conf, report, status, basis>>
    BY <1>1 DEF RunQuery
  <2>2. PICK retried, early, missing :
          app' = Ran(plans, slots, retried, early, hot, missing)
    BY <1>1 DEF RunQuery
  <2>3. AppType'
    BY <2>1, <2>2, RunsAreTyped DEF IInv
  <2>4. report = None /\ report' = None
    BY <2>1 DEF IInv, Printed
  <2>5. TypeOK'
    BY <2>1, <2>4 DEF IInv, TypeOK
  <2> QED
    BY <2>3, <2>4, <2>5 DEF IInv, Printed
<1>2. CASE LayoutCommand
  <2>1. /\ phase = "read" /\ phase' = "tune" /\ ~Raises(app) /\ report' = Report(app)
        /\ status' = IF Actionable(app) THEN FOUND ELSE OK
        /\ UNCHANGED <<query, conf, app, basis>>
    BY <1>2 DEF LayoutCommand
  <2>2. AppType /\ AppType'
    BY <2>1 DEF IInv, AppType
  <2>3. \A b \in report'.counts : BlockType(b)
    BY <2>1, <2>2, ReportType DEF IInv, TypeOK
  <2>4. TypeOK'
    BY <2>1, <2>3 DEF IInv, TypeOK, BlockType
  <2>5. Raises(app)' = Raises(app) /\ Report(app)' = Report(app)
        /\ Actionable(app)' = Actionable(app)
    BY <2>1
  <2>6. Printed'
    BY <2>1, <2>5 DEF Printed
  <2> QED
    BY <2>2, <2>4, <2>6 DEF IInv
<1>3. CASE LayoutCommandRaises
  BY <1>3 DEF LayoutCommandRaises, IInv, TypeOK, AppType, Printed
<1>4. CASE TakeAdvice
  <2>1. PICK b \in report.counts : b.says = "change" /\ conf' = b.target
    BY <1>4 DEF TakeAdvice
  <2>2. /\ phase = "tune" /\ report # None /\ phase' = "run" /\ report' = None
        /\ status' = None /\ query' = query
        /\ basis' = IF Calm(app) /\ app.plans = 1 THEN app.slots ELSE None
    BY <1>4 DEF TakeAdvice, Again
  <2>3. b.target # None
    <3>1. b \in Blocks(app)
      BY <2>1, <2>2 DEF IInv, Printed, Report
    <3>2. PICK p \in 1 .. app.plans : \E d \in Decisions(app, p) : b = Block(app, d)
      BY <3>1 DEF Blocks
    <3>3. PICK d \in Decisions(app, p) : b = Block(app, d)
      BY <3>2
    <3>4. ~Refused(app, d)
      BY <2>1, <3>3 DEF Block, Says
    <3> QED
      BY <2>2, <3>3, <3>4, TargetIsANumber DEF IInv, TypeOK, Printed
  <2>4. conf' \in Nat \ {0}
    BY <2>1, <2>2, <2>3 DEF IInv, TypeOK
  <2>5. basis' \in {None} \cup SlotsSeen
    BY <2>2 DEF IInv, AppType
  <2> QED
    BY <2>2, <2>4, <2>5 DEF IInv, TypeOK, Printed
<1>5. CASE RunAgain
  BY <1>5 DEF RunAgain, Again, IInv, TypeOK, Printed
<1>6. CASE UNCHANGED vars
  <2>1. /\ UNCHANGED <<query, conf, app, phase, report, status, basis>>
        /\ Raises(app)' = Raises(app) /\ Report(app)' = Report(app)
        /\ Actionable(app)' = Actionable(app)
    BY <1>6 DEF vars
  <2>2. TypeOK' /\ (phase' # "run" => AppType')
    BY <2>1 DEF IInv, TypeOK, AppType
  <2>3. Printed'
    BY <2>1 DEF IInv, Printed
  <2> QED
    BY <2>2, <2>3 DEF IInv
<1> QED
  BY <1>1, <1>2, <1>3, <1>4, <1>5, <1>6 DEF Next

LEMMA Invariant == Spec => []IInv
BY InvInit, InvNext, PTL DEF Spec

-----------------------------------------------------------------------------
(* Whatever is run, retried or lost, every variable keeps its type and     *)
(* every count that is advised is one Spark would accept.                  *)
THEOREM TuningTypeCorrect == Spec => []TypeOK
<1>1. IInv => TypeOK
  BY DEF IInv
<1> QED
  BY <1>1, Invariant, PTL

(* size_of's target, whatever was written and however many slots: full     *)
(* rounds, no partition over the advisory size, and no smaller count does. *)
THEOREM TargetsAlwaysFit == Spec => []TargetsFit
<1>1. IInv => TargetsFit
  <2>1. SUFFICES ASSUME IInv, Reported, NEW b \in report.counts, b.target # None
                 PROVE  Fits(b, app.slots)
    BY DEF TargetsFit
  <2> QED
    BY <2>1, ReportType DEF IInv, TypeOK, Printed, Reported
<1> QED
  BY <1>1, Invariant, PTL

(* layout_command exits with 1 exactly when a line it printed asks for a   *)
(* change, although actionable does not read the lines.                    *)
THEOREM StatusIsHonest == Spec => []StatusIsWhatWasPrinted
<1>1. IInv => StatusIsWhatWasPrinted
  <2>1. SUFFICES ASSUME IInv, Reported PROVE StatusIsWhatWasPrinted
    BY DEF StatusIsWhatWasPrinted
  <2>2. /\ report = Report(app) /\ ~Raises(app) /\ AppType /\ query \in Queries
        /\ status = IF Actionable(app) THEN FOUND ELSE OK
    BY <2>1 DEF IInv, Printed, Reported, TypeOK
  <2>3. report.counts = Blocks(app) /\ report.sides = AllCandidates(app)
    BY <2>2 DEF Report
  <2>4. ASSUME NEW p \in 1 .. app.plans, NEW d \in Decisions(app, p)
        PROVE  Block(app, d).says = "change" <=>
                 /\ Says(app, d) # "withheld"
                 /\ Block(app, d).target \notin {None, Current(app, d)}
    <3>1. Block(app, d).says = Says(app, d)
      BY DEF Block
    <3>2. CASE Refused(app, d)
      BY <3>1, <3>2 DEF Says, Block
    <3>3. CASE ~Refused(app, d)
      BY <2>2, <3>1, <3>3, TargetIsANumber DEF Says
    <3> QED
      BY <3>2, <3>3
  <2>5. (\E b \in report.counts : b.says = "change") <=>
          \E p \in 1 .. app.plans : \E d \in Decisions(app, p) :
            /\ Says(app, d) # "withheld"
            /\ Block(app, d).target \notin {None, Current(app, d)}
    BY <2>3, <2>4 DEF Blocks
  <2>6. Actionable(app) <=>
          \/ \E b \in report.counts : b.says = "change"
          \/ \E c \in report.sides : c.worth_it
    BY <2>3, <2>5 DEF Actionable
  <2> QED
    BY <2>2, <2>6 DEF StatusIsWhatWasPrinted, FOUND, OK
<1> QED
  BY <1>1, Invariant, PTL
-----------------------------------------------------------------------------
(* What a log shows of the run behind it: the plan's text, every metric    *)
(* but one at most, and the stages, one of them perhaps tried twice.       *)

MetricKeys(plans) == (1 .. plans) \X Exchanges(query) \X Names

RunOf(a, retried, early, hot, missing) ==
  /\ a.tree = [n \in DOMAIN query |-> Text(query[n], conf)]
  /\ a.acc = [k \in MetricKeys(a.plans) \ {missing} |-> Values(query[k[2]], conf)[k[3]]]
  /\ a.stages = UNION {Attempts(id, retried, early, hot) : id \in StageIds(a.plans)}

IsARun(a) == \E retried, early, hot, missing : RunOf(a, retried, early, hot, missing)

RunInv == phase # "run" => IsARun(app)

LEMMA RunInvStays == IInv /\ RunInv /\ [Next]_vars => RunInv'
<1> SUFFICES ASSUME IInv, RunInv, [Next]_vars PROVE RunInv' OBVIOUS
<1>1. ASSUME NEW plans \in 0 .. MaxPlans, NEW slots \in SlotsSeen, NEW hot,
             RunQuery(plans, slots, hot)
      PROVE  RunInv'
  <2>1. query' = query /\ conf' = conf BY <1>1 DEF RunQuery
  <2>2. PICK retried, early, missing :
          app' = Ran(plans, slots, retried, early, hot, missing)
    BY <1>1 DEF RunQuery
  <2>3. RunOf(Ran(plans, slots, retried, early, hot, missing), retried, early, hot, missing)
    BY DEF RunOf, Ran, MetricKeys
  <2>4. RunOf(app', retried, early, hot, missing) BY <2>2, <2>3
  <2>5. IsARun(app') BY <2>4 DEF IsARun
  <2>6. IsARun(app)' = IsARun(app')
    BY <2>1 DEF IsARun, RunOf, MetricKeys, StageIds, Attempts, Wrote
  <2> QED BY <2>5, <2>6 DEF RunInv
<1>2. CASE LayoutCommand \/ LayoutCommandRaises \/ UNCHANGED vars
  <2>1. query' = query /\ conf' = conf /\ app' = app /\ (phase' # "run" => phase # "run")
    BY <1>2 DEF LayoutCommand, LayoutCommandRaises, vars
  <2>2. IsARun(app)' = IsARun(app)
    BY <2>1 DEF IsARun, RunOf, MetricKeys, StageIds, Attempts, Wrote
  <2> QED BY <2>1, <2>2 DEF RunInv
<1>3. CASE TakeAdvice \/ RunAgain
  BY <1>3 DEF TakeAdvice, RunAgain, Again, RunInv
<1> QED BY <1>1, <1>2, <1>3 DEF Next

LEMMA RunInvariant == Spec => []RunInv
<1>1. Init => RunInv BY DEF Init, RunInv
<1> QED BY <1>1, RunInvStays, Invariant, PTL DEF Spec

(* The plan read back has the query's exchanges, origins and schemes.      *)
LEMMA TreeShows ==
  ASSUME IsARun(app)
  PROVE  /\ DOMAIN app.tree = DOMAIN query
         /\ Exchanges(app.tree) = Exchanges(query)
         /\ \A n \in DOMAIN query : /\ app.tree[n].op = query[n].op
                                   /\ app.tree[n].up = query[n].up
                                   /\ app.tree[n].scheme = query[n].scheme
                                   /\ app.tree[n].origin = query[n].origin
<1>1. app.tree = [n \in DOMAIN query |-> Text(query[n], conf)] BY DEF IsARun, RunOf
<1>2. \A n \in DOMAIN query : /\ app.tree[n].op = query[n].op
                              /\ app.tree[n].up = query[n].up
                              /\ app.tree[n].scheme = query[n].scheme
                              /\ app.tree[n].origin = query[n].origin
  BY <1>1 DEF Text
<1>3. DOMAIN app.tree = DOMAIN query BY <1>1
<1> QED BY <1>2, <1>3 DEF Exchanges, IsExchange

LEMMA AnExchange ==
  ASSUME query \in Queries, IsARun(app), NEW p \in 1 .. app.plans, NEW x \in Shuffles(app, p)
  PROVE  /\ x[1] = p /\ x[2] \in Exchanges(query) /\ x = <<p, x[2]>>
         /\ x[2] \in Nat /\ x[2] # None /\ x[2] \in DOMAIN query
         /\ query[x[2]].op = EXCHANGE
<1>1. x \in {p} \X Exchanges(query) BY TreeShows DEF Shuffles
<1>2. x[1] = p /\ x[2] \in Exchanges(query) /\ x = <<p, x[2]>> BY <1>1
<1>3. x[2] \in DOMAIN query /\ query[x[2]].op = EXCHANGE
  BY <1>2 DEF Exchanges, IsExchange
<1>4. DOMAIN query \subseteq Nat BY TuningAssumption
<1> QED BY <1>2, <1>3, <1>4, LayoutAssumption

(* A metric is what the exchange counted, or nothing when it was lost; of  *)
(* two metrics one at least reached the log.                               *)
LEMMA MetricsAreShown ==
  ASSUME query \in Queries, IsARun(app), NEW p \in 1 .. app.plans, NEW x \in Shuffles(app, p),
         NEW name \in Names
  PROVE  /\ <<p, x[2], name>> \in MetricKeys(app.plans)
         /\ Metric(app, x, name) = IF <<p, x[2], name>> \in DOMAIN app.acc
                                   THEN Values(query[x[2]], conf)[name] ELSE None
<1>1. /\ x[1] = p /\ x[2] \in Exchanges(query) /\ x[2] # None BY AnExchange
<1> DEFINE k == <<p, x[2], name>>
<1>2. k \in MetricKeys(app.plans) /\ k[2] = x[2] /\ k[3] = name BY <1>1 DEF MetricKeys
<1>3. PICK missing :
        app.acc = [l \in MetricKeys(app.plans) \ {missing} |-> Values(query[l[2]], conf)[l[3]]]
  BY DEF IsARun, RunOf
<1> HIDE DEF k
<1>4. k \in DOMAIN app.acc => app.acc[k] = Values(query[x[2]], conf)[name]
  BY <1>2, <1>3
<1>5. Metric(app, x, name) = IF k \in DOMAIN app.acc THEN app.acc[k] ELSE None
  BY <1>1 DEF Metric, k
<1> QED BY <1>2, <1>4, <1>5 DEF k

LEMMA OneMetricMissing ==
  ASSUME IsARun(app), NEW k \in MetricKeys(app.plans), NEW l \in MetricKeys(app.plans), k # l
  PROVE  k \in DOMAIN app.acc \/ l \in DOMAIN app.acc
BY DEF IsARun, RunOf

-----------------------------------------------------------------------------
(* The stages of a run in which nothing was tried twice.                   *)

StageFor(id, hot) ==
  [id |-> id, attempt |-> 0,
   parents |-> {<<id[1], e>> : e \in {f \in Exchanges(query) : Reader(query, f) = id[2]}},
   bytes |-> Wrote(id),
   verdict |-> IF id[2] \in hot THEN SKEWED ELSE EVEN]

LEMMA OnceTried ==
  ASSUME IsARun(app), NoneRetried
  PROVE  \E hot : app.stages = {StageFor(id, hot) : id \in StageIds(app.plans)}
<1>1. PICK retried, early, hot, missing : RunOf(app, retried, early, hot, missing)
  BY DEF IsARun
<1>2. app.stages = UNION {Attempts(id, retried, early, hot) : id \in StageIds(app.plans)}
  BY <1>1 DEF RunOf
<1>3. ASSUME NEW id \in StageIds(app.plans) PROVE id # retried
  <2> SUFFICES ASSUME id = retried PROVE FALSE OBVIOUS
  <2>1. \E s \in Attempts(id, retried, early, hot) : s.attempt = 1
    <3> DEFINE s(a) ==
          [id |-> id, attempt |-> a,
           parents |-> {<<id[1], e>> : e \in {f \in Exchanges(query) : Reader(query, f) = id[2]}},
           bytes |-> IF id # retried THEN Wrote(id)
                     ELSE IF a = 0 THEN early ELSE Wrote(id) - early,
           verdict |-> IF id[2] \in hot THEN SKEWED ELSE EVEN]
    <3>1. Attempts(id, retried, early, hot) = {s(a) : a \in {0, 1}} BY DEF Attempts
    <3>2. s(1).attempt = 1 OBVIOUS
    <3> HIDE DEF s
    <3>3. s(1) \in Attempts(id, retried, early, hot) BY <3>1
    <3> QED BY <3>2, <3>3
  <2>2. \E s \in app.stages : s.attempt = 1 BY <1>2, <2>1
  <2> QED BY <2>2 DEF NoneRetried
<1>4. \A id \in StageIds(app.plans) :
        Attempts(id, retried, early, hot) = {StageFor(id, hot)}
  BY <1>3 DEF Attempts, StageFor
<1>5. app.stages = {StageFor(id, hot) : id \in StageIds(app.plans)}
  BY <1>2, <1>4
<1> QED BY <1>5

(* The stage that reads an exchange is one of the query's.                 *)
LEMMA ReaderIsAStage ==
  ASSUME query \in Queries, NEW e \in DOMAIN query
  PROVE  Reader(query, e) \in Ends(query) \cup {0} /\ Reader(query, e) \in Nat
<1>1. DOMAIN query = 1 .. Len(query) /\ Len(query) \in Nat BY TuningAssumption
<1>2. ASSUME NEW n PROVE StageOf(query, n) \in Ends(query) \cup {0}
  <2> DEFINE over == Above(query)[n] \cap Ends(query)
  <2>1. over \in SUBSET Nat /\ \A m \in over : m <= Len(query) BY <1>1 DEF Ends
  <2>2. over \subseteq Ends(query) OBVIOUS
  <2>3. StageOf(query, n) = IF over = {} THEN 0 ELSE CHOOSE m \in over : \A k \in over : k <= m
    BY DEF StageOf
  <2> HIDE DEF over
  <2>4. over # {} => \E m \in over : \A k \in over : k <= m BY <1>1, <2>1, HasLargest
  <2>5. over # {} => (CHOOSE m \in over : \A k \in over : k <= m) \in over BY <2>4
  <2> QED BY <2>2, <2>3, <2>5
<1>3. Ends(query) \cup {0} \subseteq Nat BY <1>1 DEF Ends
<1>4. Reader(query, e) \in Ends(query) \cup {0} BY <1>2 DEF Reader
<1> QED BY <1>3, <1>4

LEMMA StagesOfARun ==
  ASSUME query \in Queries, AppType
  PROVE  /\ IsFiniteSet(StageIds(app.plans)) /\ StageIds(app.plans) \subseteq Nat \X Nat
         /\ \A p \in 1 .. app.plans : \A m \in Ends(query) \cup {0} :
              <<p, m>> \in StageIds(app.plans)
         /\ \A id \in StageIds(app.plans) : \A hot : StageFor(id, hot) \in Stage
<1>1. DOMAIN query = 1 .. Len(query) /\ Len(query) \in Nat /\ query \in Seq(QueryNode)
  BY TuningAssumption
<1>2. app.plans \in Nat BY DEF AppType
<1>3. Ends(query) \subseteq 1 .. Len(query) /\ Exchanges(query) \subseteq 1 .. Len(query)
  BY <1>1 DEF Ends, Exchanges
<1>4. IsFiniteSet(Ends(query) \cup {0})
  <2>1. IsFiniteSet(1 .. Len(query)) BY <1>1, FS_Interval
  <2>2. IsFiniteSet(Ends(query)) BY <1>3, <2>1, FS_Subset
  <2> QED BY <2>2, FS_AddElement
<1>5. IsFiniteSet(1 .. app.plans) BY <1>2, FS_Interval
<1>6. IsFiniteSet(StageIds(app.plans)) BY <1>4, <1>5, FS_Product DEF StageIds
<1>7. StageIds(app.plans) \subseteq Nat \X Nat BY <1>2, <1>3 DEF StageIds
<1>8. ASSUME NEW id \in StageIds(app.plans), NEW hot PROVE StageFor(id, hot) \in Stage
  <2>1. id \in Nat \X Nat /\ id[1] \in Nat BY <1>7
  <2>2. Wrote(id) \in Nat
    <3>1. id[2] = 0 \/ id[2] \in DOMAIN query BY <1>3, <1>1 DEF StageIds
    <3>2. \A n \in DOMAIN query : query[n].written \in Nat
      <4>1. \A n \in DOMAIN query : query[n] \in QueryNode BY <1>1
      <4> QED BY <4>1 DEF QueryNode
    <3> QED BY <3>1, <3>2 DEF Wrote
  <2> DEFINE up == {<<id[1], e>> : e \in {f \in Exchanges(query) : Reader(query, f) = id[2]}}
             verdict == IF id[2] \in hot THEN SKEWED ELSE EVEN
  <2>3. up \in SUBSET (Nat \X Nat) BY <1>1, <1>3, <2>1
  <2>4. verdict \in OUTCOMES BY DEF SKEWED, EVEN, OUTCOMES
  <2>5. StageFor(id, hot) = [id |-> id, attempt |-> 0, parents |-> up, bytes |-> Wrote(id),
                             verdict |-> verdict]
    BY DEF StageFor
  <2> HIDE DEF up, verdict
  <2> QED BY <2>1, <2>2, <2>3, <2>4, <2>5 DEF Stage
<1> QED BY <1>6, <1>7, <1>8 DEF StageIds

(* Bytes name a stage only when it is the exchange's own; and the stage    *)
(* read is the one the query has below it.                                 *)
LEMMA StagesAreFound ==
  ASSUME query \in Queries, AppType, IsARun(app), NoneRetried,
         NEW hot, app.stages = {StageFor(id, hot) : id \in StageIds(app.plans)},
         NEW p \in 1 .. app.plans, NEW x \in Shuffles(app, p)
  PROVE  /\ StageFor(<<p, Reader(query, x[2])>>, hot) \in app.stages
         /\ ReadingStage(app, x) # None =>
              ReadingStage(app, x) = StageFor(<<p, Reader(query, x[2])>>, hot)
         /\ Identifiable(x) => ReadingStage(app, x) # None
<1> DEFINE e == x[2]
           own == <<p, e>>
           below == <<p, Reader(query, e)>>
           ids == StageIds(app.plans)
           wrote == {s \in app.stages : s.bytes = Written(app, x)}
           same == {id \in ids : Wrote(id) = query[e].written}
           reads == {s \in app.stages : own \in s.parents}
<1>1. /\ x[1] = p /\ e \in Exchanges(query) /\ x = own /\ e \in Nat /\ e # None
      /\ e \in DOMAIN query /\ query[e].op = EXCHANGE
  BY AnExchange
<1>2. Reader(query, e) \in Ends(query) \cup {0} BY <1>1, ReaderIsAStage
<1>3. own \in ids /\ below \in ids
  <2>1. e \in Ends(query) BY <1>1 DEF Ends
  <2> QED BY <1>2, <2>1, StagesOfARun
<1>4. IsFiniteSet(ids) /\ \A id \in ids : StageFor(id, hot) # None
  BY StagesOfARun, LayoutAssumption
<1>5. \A id \in ids : /\ StageFor(id, hot) \in app.stages
                      /\ StageFor(id, hot).id = id /\ StageFor(id, hot).bytes = Wrote(id)
  BY DEF StageFor
<1>6. Wrote(own) = query[e].written
  <2>1. own[2] = e OBVIOUS
  <2>2. e # 0
    <3>1. DOMAIN query = 1 .. Len(query) BY TuningAssumption
    <3> QED BY <1>1, <3>1
  <2> HIDE DEF own, e
  <2> QED BY <1>1, <2>1, <2>2 DEF Wrote
<1>7. Written(app, x) = query[e].written \/ Written(app, x) = None
  BY MetricsAreShown DEF Names, Written, Values
<1> HIDE DEF e, own, below, ids
<1>8. ASSUME NEW id \in ids
      PROVE  own \in StageFor(id, hot).parents <=> id = below
  <2>1. PICK q \in 1 .. app.plans, m \in Ends(query) \cup {0} : id = <<q, m>>
    BY DEF ids, StageIds
  <2>2. own \in StageFor(id, hot).parents
        <=> \E f \in Exchanges(query) : own = <<q, f>> /\ Reader(query, f) = m
    BY <2>1 DEF StageFor
  <2>3. own \in StageFor(id, hot).parents <=> p = q /\ Reader(query, e) = m
    BY <1>1, <2>2 DEF own
  <2> QED BY <2>1, <2>3 DEF below
<1>9. reads = {StageFor(below, hot)}
  <2>1. \A s \in app.stages : \E id \in ids : s = StageFor(id, hot) BY DEF ids
  <2>2. \A s \in reads : s = StageFor(below, hot) BY <1>8, <2>1
  <2>3. StageFor(below, hot) \in reads BY <1>3, <1>5, <1>8
  <2> QED BY <2>2, <2>3
<1>10. ASSUME WritingStage(app, x) # None
       PROVE  WritingStage(app, x) = StageFor(own, hot) /\ Written(app, x) # None
  <2>1. Written(app, x) # None /\ Cardinality(wrote) = 1
        /\ WritingStage(app, x) = CHOOSE s \in wrote : TRUE
    BY <1>10 DEF WritingStage
  <2>2. StageFor(own, hot) \in wrote BY <1>3, <1>5, <1>6, <1>7, <2>1
  <2>3. IsFiniteSet(wrote)
    <3> DEFINE f == [id \in ids |-> StageFor(id, hot)]
    <3>1. f \in Surjection(ids, app.stages) BY DEF Surjection, ids
    <3> HIDE DEF f
    <3>2. IsFiniteSet(app.stages) BY <1>4, <3>1, FS_Surjection
    <3> QED BY <3>2, FS_Subset
  <2>4. PICK s : wrote = {s} BY <2>1, <2>3, FS_Singleton
  <2>5. wrote = {StageFor(own, hot)} BY <2>2, <2>4
  <2> HIDE DEF wrote
  <2> QED BY <2>1, <2>5
<1>11. ASSUME Identifiable(x) PROVE WritingStage(app, x) # None
  <2>1. /\ <<p, e, "shuffle bytes written">> \in DOMAIN app.acc /\ Cardinality(same) = 1
    BY <1>1, <1>11 DEF Identifiable, ids, e
  <2>2. Written(app, x) = query[e].written /\ Written(app, x) # None
    <3>1. Written(app, x) = query[e].written
      BY <2>1, MetricsAreShown DEF Names, Written, Values, e
    <3>2. query[e].written \in Nat
      <4>1. query \in Seq(QueryNode) BY TuningAssumption
      <4>2. query[e] \in QueryNode BY <1>1, <4>1
      <4> QED BY <4>2 DEF QueryNode
    <3> QED BY <3>1, <3>2, LayoutAssumption
  <2>3. own \in same BY <1>3, <1>6
  <2>4. IsFiniteSet(same) BY <1>4, FS_Subset
  <2>5. PICK i : same = {i} BY <2>1, <2>4, FS_Singleton
  <2>6. same = {own} BY <2>3, <2>5
  <2>7. wrote = {StageFor(own, hot)}
    <3>1. \A s \in wrote : s = StageFor(own, hot)
      <4> SUFFICES ASSUME NEW s \in wrote PROVE s = StageFor(own, hot) OBVIOUS
      <4>1. PICK id \in ids : s = StageFor(id, hot) BY DEF ids
      <4>2. Wrote(id) = query[e].written BY <1>5, <2>2, <4>1
      <4>3. id \in same BY <4>2
      <4>4. id = own BY <2>6, <4>3
      <4> QED BY <4>1, <4>4
    <3>2. StageFor(own, hot) \in wrote BY <1>3, <1>5, <1>6, <2>2
    <3> QED BY <3>1, <3>2
  <2>8. Cardinality(wrote) = 1 BY <2>7, FS_Singleton
  <2> HIDE DEF wrote
  <2>9. WritingStage(app, x) = CHOOSE s \in wrote : TRUE
    BY <2>2, <2>8 DEF WritingStage, wrote
  <2>10. WritingStage(app, x) = StageFor(own, hot) BY <2>7, <2>9
  <2> QED BY <1>3, <1>4, <2>10
<1>12. ASSUME WritingStage(app, x) # None
       PROVE  ReadingStage(app, x) = StageFor(below, hot)
  <2>1. WritingStage(app, x).id = own BY <1>3, <1>5, <1>10, <1>12
  <2>2. Cardinality(reads) = 1 BY <1>9, FS_Singleton
  <2>3. ReadingStage(app, x) = CHOOSE s \in reads : TRUE
    BY <1>12, <2>1, <2>2 DEF ReadingStage
  <2> HIDE DEF reads
  <2> QED BY <1>9, <2>3
<1>13. ReadingStage(app, x) # None => WritingStage(app, x) # None BY DEF ReadingStage
<1> QED BY <1>3, <1>4, <1>5, <1>11, <1>12, <1>13 DEF below, e
-----------------------------------------------------------------------------
(* decisions() puts every exchange under one count.                        *)

LEMMA DecidedWith ==
  ASSUME query \in Queries, AppType, IsARun(app), NEW p \in 1 .. app.plans,
         NEW x \in Shuffles(app, p), NEW y \in Decision(app, x)
  PROVE  /\ y \in Shuffles(app, p)
         /\ Decision(app, y) = Decision(app, x)
         /\ y # x => /\ DecidesWith(app, y) = DecidesWith(app, x)
                     /\ DecidesWith(app, x) # None
                     /\ Partitions(app, y) = Partitions(app, x)
<1>1. x[1] = p /\ Together(app, x) \subseteq Shuffles(app, p)
  BY DEF Together, Shuffles
<1>2. y \in Shuffles(app, p) /\ y[1] = p BY <1>1 DEF Decision, Shuffles
<1>3. CASE y = x BY <1>2, <1>3
<1>4. CASE y # x
  <2>1. /\ Decision(app, x) = Together(app, x)
        /\ \A z \in Together(app, x) : Partitions(app, z) = Partitions(app, x)
    BY <1>4 DEF Decision
  <2>2. DecidesWith(app, y) = DecidesWith(app, x) /\ DecidesWith(app, x) # None
    BY <1>4, <2>1 DEF Together
  <2>3. Together(app, x) = {z \in Shuffles(app, p) : DecidesWith(app, z) = DecidesWith(app, x)}
    BY <1>1, <2>2 DEF Together
  <2>4. Together(app, y) = {z \in Shuffles(app, p) : DecidesWith(app, z) = DecidesWith(app, x)}
    BY <1>2, <2>2 DEF Together
  <2>5. Partitions(app, y) = Partitions(app, x) BY <2>1
  <2>6. Decision(app, y) = Together(app, y) BY <2>1, <2>3, <2>4, <2>5 DEF Decision
  <2> QED BY <1>2, <2>1, <2>2, <2>3, <2>4, <2>5, <2>6
<1> QED BY <1>3, <1>4

LEMMA ABlock ==
  ASSUME NEW b
  PROVE  b \in Report(app).counts
         <=> \E p \in 1 .. app.plans : \E x \in Shuffles(app, p) :
               b = Block(app, Decision(app, x))
BY DEF Report, Blocks, Decisions

(* One block for each exchange.                                            *)
LEMMA OneBlockEach ==
  ASSUME query \in Queries, AppType, IsARun(app), NEW p \in 1 .. app.plans,
         NEW e \in Exchanges(query)
  PROVE  Cardinality({b \in Report(app).counts : <<p, e>> \in b.exchanges}) = 1
<1> DEFINE x == <<p, e>>
           own == Block(app, Decision(app, x))
           with == {b \in Report(app).counts : x \in b.exchanges}
<1>1. \A d : Block(app, d).exchanges = d BY DEF Block
<1>2. x \in Shuffles(app, p) BY TreeShows DEF Shuffles
<1>3. x \in Decision(app, x) BY DEF Decision, Together
<1>4. own \in with BY <1>1, <1>2, <1>3, ABlock
<1> HIDE DEF x
<1>5. ASSUME NEW b \in with PROVE b = own
  <2>1. PICK q \in 1 .. app.plans : \E y \in Shuffles(app, q) : b = Block(app, Decision(app, y))
    BY ABlock
  <2>2. PICK y \in Shuffles(app, q) : b = Block(app, Decision(app, y)) BY <2>1
  <2>3. x \in Decision(app, y) BY <1>1, <2>2
  <2>4. Decision(app, x) = Decision(app, y) BY <2>3, DecidedWith
  <2> QED BY <2>2, <2>4
<1>6. with = {own} BY <1>4, <1>5
<1> HIDE DEF with, own
<1>7. Cardinality(with) = 1 BY <1>6, FS_Singleton
<1> QED BY <1>7 DEF with, x

(* Two exchanges under one count.                                          *)
LEMMA OneCountForTwo ==
  ASSUME query \in Queries, conf \in Nat, AppType, IsARun(app), NEW p \in 1 .. app.plans,
         NEW x \in Shuffles(app, p), NEW y \in Decision(app, x), y # x
  PROVE  /\ ByConfig(x) /\ ByConfig(y) /\ x[1] = y[1]
         /\ Counted(query[x[2]], conf) = Counted(query[y[2]], conf)
         /\ NoneRetried => Reader(query, x[2]) = Reader(query, y[2])
<1>1. /\ y \in Shuffles(app, p)
      /\ DecidesWith(app, y) = DecidesWith(app, x) /\ DecidesWith(app, x) # None
      /\ Partitions(app, y) = Partitions(app, x)
  BY DecidedWith
<1>2. /\ x[1] = p /\ y[1] = p /\ x = <<p, x[2]>> /\ y = <<p, y[2]>> /\ x[2] # y[2]
      /\ x[2] \in DOMAIN query /\ y[2] \in DOMAIN query
  BY <1>1, AnExchange
<1>3. ASSUME NEW z \in {x, y} PROVE ByConfig(z) /\ ReadingStage(app, z) # None
  <2>1. Kind(app, z) = CONFIG /\ ReadingStage(app, z) # None BY <1>1 DEF DecidesWith
  <2>2. Kind(app, z) = OriginKind(query[z[2]].origin) BY <1>2, TreeShows DEF Kind, Node
  <2> QED BY <2>1, <2>2 DEF OriginKind, CONFIG, QUERY, UNRECOGNISED, ByConfig
<1>4. Counted(query[x[2]], conf) = Counted(query[y[2]], conf)
  <2> DEFINE kx == <<p, x[2], "number of partitions">>
             ky == <<p, y[2], "number of partitions">>
  <2>1. /\ kx \in MetricKeys(app.plans) /\ ky \in MetricKeys(app.plans)
        /\ Partitions(app, x) = IF kx \in DOMAIN app.acc THEN Counted(query[x[2]], conf) ELSE None
        /\ Partitions(app, y) = IF ky \in DOMAIN app.acc THEN Counted(query[y[2]], conf) ELSE None
    BY <1>1, MetricsAreShown DEF Partitions, Values, Names
  <2>2. kx # ky BY <1>2
  <2>3. kx \in DOMAIN app.acc \/ ky \in DOMAIN app.acc BY <2>1, <2>2, OneMetricMissing
  <2>4. \A n \in DOMAIN query : Counted(query[n], conf) # None
    <3>1. query \in Seq(QueryNode) BY TuningAssumption
    <3>2. \A n \in DOMAIN query : query[n] \in QueryNode BY <3>1
    <3>3. \A n \in DOMAIN query : query[n].count \in Nat BY <3>2 DEF QueryNode
    <3> QED BY <3>3, LayoutAssumption DEF Counted
  <2> QED BY <1>1, <1>2, <2>1, <2>3, <2>4
<1>5. ASSUME NoneRetried PROVE Reader(query, x[2]) = Reader(query, y[2])
  <2>1. PICK hot : app.stages = {StageFor(id, hot) : id \in StageIds(app.plans)}
    BY <1>5, OnceTried
  <2>2. /\ ReadingStage(app, x) = StageFor(<<p, Reader(query, x[2])>>, hot)
        /\ ReadingStage(app, y) = StageFor(<<p, Reader(query, y[2])>>, hot)
    BY <1>1, <1>3, <1>5, <2>1, StagesAreFound
  <2>3. ReadingStage(app, x).id = ReadingStage(app, y).id BY <1>1, <1>3 DEF DecidesWith
  <2>4. <<p, Reader(query, x[2])>> = <<p, Reader(query, y[2])>> BY <2>2, <2>3 DEF StageFor
  <2> QED BY <2>4
<1> QED BY <1>2, <1>3, <1>4, <1>5

(* Every exchange is under exactly one count, and exchanges under one      *)
(* count share one: decisions() never prints an exchange twice or leaves   *)
(* one out, and never sizes together what Spark counts apart.              *)
THEOREM GroupsShareACount == Spec => []OneDecisionOneCount
<1> SUFFICES ASSUME IInv, RunInv PROVE OneDecisionOneCount
  BY Invariant, RunInvariant, PTL
<1> SUFFICES ASSUME Reported PROVE OneDecisionOneCount BY DEF OneDecisionOneCount
<1>1. /\ query \in Queries /\ conf \in Nat /\ AppType /\ IsARun(app)
      /\ report = Report(app)
  BY DEF IInv, TypeOK, RunInv, Printed, Reported
<1>2. ASSUME NEW p \in 1 .. app.plans, NEW e \in Exchanges(query)
      PROVE  Cardinality({b \in report.counts : <<p, e>> \in b.exchanges}) = 1
  BY <1>1, OneBlockEach
<1>3. ASSUME NEW b \in report.counts, NEW x \in b.exchanges, NEW y \in b.exchanges, x # y
      PROVE  /\ ByConfig(x) /\ ByConfig(y)
             /\ Counted(query[x[2]], conf) = Counted(query[y[2]], conf)
             /\ x[1] = y[1]
             /\ NoneRetried => Reader(query, x[2]) = Reader(query, y[2])
  <2>1. PICK p \in 1 .. app.plans : \E z \in Shuffles(app, p) : b = Block(app, Decision(app, z))
    BY <1>1, ABlock
  <2>2. PICK z \in Shuffles(app, p) : b = Block(app, Decision(app, z)) BY <2>1
  <2>3. x \in Decision(app, z) /\ y \in Decision(app, z) BY <2>2 DEF Block
  <2>4. x \in Shuffles(app, p) /\ Decision(app, x) = Decision(app, z) BY <1>1, <2>3, DecidedWith
  <2> QED BY <1>1, <1>3, <2>3, <2>4, OneCountForTwo
<1> QED BY <1>2, <1>3 DEF OneDecisionOneCount

-----------------------------------------------------------------------------
(* A cut is argued against for the stage that reads the exchanges.         *)

LEMMA HotKeyOfTheReader ==
  ASSUME query \in Queries, AppType, IsARun(app), NoneRetried,
         NEW p \in 1 .. app.plans, NEW x \in Shuffles(app, p), Identifiable(x)
  PROVE  HotKey(app, x) = SKEWED <=> ReaderIsHot(x)
<1>1. PICK hot : app.stages = {StageFor(id, hot) : id \in StageIds(app.plans)}
  BY OnceTried
<1> DEFINE below == <<p, Reader(query, x[2])>>
<1>2. StageFor(below, hot) \in app.stages /\ ReadingStage(app, x) = StageFor(below, hot)
      /\ ReadingStage(app, x) # None
  BY <1>1, StagesAreFound
<1>3. x[1] = p BY AnExchange
<1>4. HotKey(app, x) = StageFor(below, hot).verdict BY <1>2 DEF HotKey
<1>5. \A s \in app.stages : s.id = below => s = StageFor(below, hot)
  BY <1>1 DEF StageFor
<1>6. StageFor(below, hot).id = below BY DEF StageFor
<1>7. ReaderIsHot(x) <=> \E s \in app.stages : s.id = below /\ s.verdict = SKEWED
  BY <1>3 DEF ReaderIsHot
<1> HIDE DEF below
<1> QED BY <1>2, <1>4, <1>5, <1>6, <1>7

(* What is withheld is a cut; and where the log tells who reads the        *)
(* exchanges, a cut is withheld exactly for hash exchanges read by a stage *)
(* with a hot key.                                                         *)
THEOREM CutsAreOfTheReader == Spec => []CutsKnowTheirReader
<1> SUFFICES ASSUME IInv, RunInv PROVE CutsKnowTheirReader
  BY Invariant, RunInvariant, PTL
<1> SUFFICES ASSUME Reported, NEW b \in report.counts, b.target # None
             PROVE  /\ b.says = "withheld" => b.target < b.current
                    /\ (b.target < b.current /\ NoneRetried /\ \A x \in b.exchanges : Identifiable(x)) =>
                         (b.says = "withheld" <=> \A x \in b.exchanges : Hashed(x) /\ ReaderIsHot(x))
  BY DEF CutsKnowTheirReader
<1>1. /\ query \in Queries /\ conf \in Nat /\ AppType /\ IsARun(app)
      /\ report = Report(app)
  BY DEF IInv, TypeOK, RunInv, Printed, Reported
<1>2. PICK p \in 1 .. app.plans : \E z \in Shuffles(app, p) : b = Block(app, Decision(app, z))
  BY <1>1, ABlock
<1>3. PICK z \in Shuffles(app, p) : b = Block(app, Decision(app, z)) BY <1>2
<1> DEFINE d == Decision(app, z)
           lead == Lead(d)
<1>4. /\ d \subseteq Shuffles(app, p) /\ d # {} /\ d \in SUBSET ({p} \X Nat)
  <2>1. p \in Nat BY <1>1 DEF AppType
  <2> QED BY <1>1, <2>1, DecisionType
<1>5. lead \in d BY <1>4, LeadIsAMember
<1>6. /\ b.exchanges = d /\ b.current = Current(app, d) /\ b.says = Says(app, d)
      /\ b.target = IF Refused(app, d) THEN None ELSE Target(Volume(app, d), app.slots)
  BY <1>3 DEF Block
<1> HIDE DEF lead
<1>7. /\ ~Refused(app, d) /\ b.target = Target(Volume(app, d), app.slots)
      /\ b.says = "withheld" <=> Withheld(app, d)
  BY <1>6 DEF Says
<1>8. Withheld(app, d) <=> /\ b.target < b.current
                           /\ \A x \in d : Node(app, x).scheme = KEY_HASH
                           /\ HotKey(app, lead) = SKEWED
  BY <1>6, <1>7 DEF Withheld, lead
<1>9. \A x \in d : Node(app, x).scheme = KEY_HASH <=> Hashed(x)
  BY <1>1, <1>4, AnExchange, TreeShows DEF Node, Hashed
<1>10. ASSUME NoneRetried, \A x \in d : Identifiable(x), NEW x \in d
       PROVE  ReaderIsHot(x) <=> HotKey(app, lead) = SKEWED
  <2>1. x \in Shuffles(app, p) /\ lead \in Shuffles(app, p) BY <1>4, <1>5
  <2>2. HotKey(app, lead) = SKEWED <=> ReaderIsHot(lead)
    BY <1>1, <1>5, <1>10, <2>1, HotKeyOfTheReader
  <2>3. x[1] = lead[1] /\ Reader(query, x[2]) = Reader(query, lead[2])
    <3>1. lead \in Decision(app, x) BY <1>1, <1>5, <1>10, DecidedWith
    <3>2. CASE lead # x BY <1>1, <1>10, <2>1, <3>1, <3>2, OneCountForTwo
    <3> QED BY <3>2
  <2>4. ReaderIsHot(x) <=> ReaderIsHot(lead) BY <2>3 DEF ReaderIsHot
  <2> QED BY <2>2, <2>4
<1> HIDE DEF d
<1> QED BY <1>5, <1>6, <1>7, <1>8, <1>9, <1>10
-----------------------------------------------------------------------------
(* Advice that was taken settles.                                          *)

Decided == {e \in Exchanges(query) : ByConfig(<<1, e>>)}

(* OneCount, said of the query alone: its exchanges are told by their      *)
(* bytes and read by one stage.                                            *)
Single ==
  /\ \A e \in Decided :
       /\ Cardinality({id \in StageIds(1) : Wrote(id) = query[e].written}) = 1
       /\ query[e].scheme # "SinglePartition"
  /\ \A e, f \in Decided : Reader(query, e) = Reader(query, f)

(* What its decided exchanges write.                                       *)
Bytes == Cardinality(UNION {{x} \X (1 .. query[x[2]].written) : x \in {1} \X Decided})

(* A count taken from a calm run is the target of all of them.             *)
Settled == (basis # None /\ Single) => conf = Target(Bytes, basis)

LEMMA CalmMetrics ==
  ASSUME query \in Queries, IsARun(app), Calm(app), NEW p \in 1 .. app.plans,
         NEW x \in Shuffles(app, p), NEW name \in Names
  PROVE  Metric(app, x, name) = Values(query[x[2]], conf)[name]
<1>1. DOMAIN app.acc = MetricKeys(app.plans) BY TreeShows DEF Calm, MetricKeys
<1> QED BY <1>1, MetricsAreShown

(* In a calm run of such a query one block has a target, and it is for     *)
(* everything the configuration decides.                                   *)
LEMMA CalmBlock ==
  ASSUME query \in Queries, conf \in Nat \ {0}, AppType, IsARun(app), Calm(app), app.plans = 1,
         Single, NEW b \in Report(app).counts, b.says = "change"
  PROVE  /\ b.target = Target(Bytes, app.slots) /\ b.current = conf
         /\ b.target # b.current
<1>1. PICK p \in 1 .. app.plans : \E z \in Shuffles(app, p) : b = Block(app, Decision(app, z))
  BY ABlock
<1>2. PICK z \in Shuffles(app, p) : b = Block(app, Decision(app, z)) BY <1>1
<1> DEFINE d == Decision(app, z)
           lead == Lead(d)
           all == {1} \X Decided
<1>3. p = 1 /\ 1 \in 1 .. app.plans OBVIOUS
<1>4. d \subseteq Shuffles(app, 1) /\ d # {} /\ d \in SUBSET ({1} \X Nat)
  BY <1>2, <1>3, DecisionType
<1>5. lead \in d BY <1>4, LeadIsAMember
<1>6. lead \in Shuffles(app, 1) /\ d = Decision(app, lead)
  BY <1>2, <1>3, <1>5, DecidedWith
<1>7. /\ ~Refused(app, d) /\ b.current = Current(app, d)
      /\ b.target = Target(Volume(app, d), app.slots)
      /\ b.target # b.current
  <2>1. b.says = Says(app, d) /\ b.current = Current(app, d)
        /\ b.target = IF Refused(app, d) THEN None ELSE Target(Volume(app, d), app.slots)
    BY <1>2 DEF Block
  <2> HIDE DEF d
  <2> QED BY <2>1 DEF Says
<1>8. Kind(app, lead) = CONFIG BY <1>7 DEF Refused
<1> HIDE DEF lead
<1>9. ASSUME NEW y \in Shuffles(app, 1)
      PROVE  /\ y = <<1, y[2]>> /\ y[2] \in Exchanges(query) /\ y[2] \in DOMAIN query
             /\ Kind(app, y) = CONFIG <=> y \in all
  <2>1. y = <<1, y[2]>> /\ y[2] \in Exchanges(query) /\ y[2] \in DOMAIN query
    BY <1>3, AnExchange
  <2>2. Kind(app, y) = OriginKind(query[y[2]].origin) BY <2>1, TreeShows DEF Kind, Node
  <2>3. Kind(app, y) = CONFIG <=> query[y[2]].origin \in ConfigDecided
    BY <2>2 DEF OriginKind, ConfigDecided, QueryDecided, CONFIG, QUERY, UNRECOGNISED
  <2>4. y \in all <=> y[2] \in Decided
    <3> DEFINE e == y[2]
    <3>1. y = <<1, e>> BY <2>1
    <3> HIDE DEF e
    <3>2. y \in all <=> e \in Decided BY <3>1
    <3> QED BY <3>2 DEF e
  <2>5. y[2] \in Decided <=> query[y[2]].origin \in ConfigDecided
    <3>1. \A e : ByConfig(<<1, e>>) <=> query[e].origin \in ConfigDecided BY DEF ByConfig
    <3> QED BY <2>1, <3>1 DEF Decided
  <2> HIDE DEF all
  <2> QED BY <2>1, <2>3, <2>4, <2>5
<1>10. all \subseteq Shuffles(app, 1) BY TreeShows DEF Shuffles, Decided
<1> DEFINE reader == Reader(query, lead[2])
<1>11. ASSUME NEW y \in all
       PROVE  DecidesWith(app, y) = <<1, reader>> /\ DecidesWith(app, y) # None
  <2>1. y \in Shuffles(app, 1) /\ y = <<1, y[2]>> /\ y[2] \in Decided /\ Kind(app, y) = CONFIG
    BY <1>9, <1>10
  <2>2. PICK hot : app.stages = {StageFor(id, hot) : id \in StageIds(app.plans)}
    BY OnceTried DEF Calm, NoneRetried
  <2>3. Identifiable(y)
    <3>1. <<1, y[2], "shuffle bytes written">> \in DOMAIN app.acc
      <4>1. DOMAIN app.acc = MetricKeys(app.plans) BY TreeShows DEF Calm, MetricKeys
      <4>2. y[2] \in Exchanges(query) BY <2>1 DEF Decided
      <4> QED BY <1>3, <4>1, <4>2 DEF MetricKeys, Names
    <3>2. y[1] = 1 BY <2>1
    <3>3. Cardinality({id \in StageIds(app.plans) : Wrote(id) = query[y[2]].written}) = 1
      BY <2>1 DEF Single
    <3> QED BY <3>1, <3>2, <3>3 DEF Identifiable
  <2>4. ReadingStage(app, y) # None
        /\ ReadingStage(app, y) = StageFor(<<1, Reader(query, y[2])>>, hot)
    BY <1>3, <2>1, <2>2, <2>3, StagesAreFound DEF Calm, NoneRetried
  <2>5. Reader(query, y[2]) = reader
    <3>1. lead \in all BY <1>6, <1>8, <1>9
    <3>2. lead[2] \in Decided BY <3>1
    <3> QED BY <2>1, <3>2 DEF Single
  <2>6. DecidesWith(app, y) = <<1, reader>> BY <2>1, <2>4, <2>5 DEF DecidesWith, StageFor
  <2>7. <<1, reader>> # None
    <3>1. reader \in Nat BY <1>6, <1>9, ReaderIsAStage
    <3>2. <<1, reader>> \in Nat \X Nat BY <3>1
    <3> QED BY <3>2, LayoutAssumption
  <2> QED BY <2>6, <2>7
<1> HIDE DEF reader
<1>12. lead \in all BY <1>6, <1>8, <1>9
<1>13. ASSUME NEW y \in all
       PROVE  Partitions(app, y) = conf /\ Written(app, y) = query[y[2]].written
  <2>1. y \in Shuffles(app, 1) /\ y[2] \in Decided /\ query[y[2]].origin \in ConfigDecided
    BY <1>10, <1>13 DEF Decided, ByConfig
  <2>2. Counted(query[y[2]], conf) = conf
    <3>1. query[y[2]].scheme # "SinglePartition" BY <2>1 DEF Single
    <3> QED BY <2>1, <3>1 DEF Counted, ConfigDecided, QueryDecided
  <2>3. /\ Partitions(app, y) = Values(query[y[2]], conf)["number of partitions"]
        /\ Written(app, y) = Values(query[y[2]], conf)["shuffle bytes written"]
    BY <1>3, <2>1, CalmMetrics DEF Partitions, Written, Names
  <2> QED BY <2>2, <2>3 DEF Values, Names
<1>14. Together(app, lead) = all
  <2>1. DecidesWith(app, lead) = <<1, reader>> /\ DecidesWith(app, lead) # None
    BY <1>11, <1>12
  <2>2. lead[1] = 1 BY <1>12
  <2>3. ASSUME NEW y \in Shuffles(app, 1), DecidesWith(app, y) = DecidesWith(app, lead)
        PROVE  y \in all
    BY <1>9, <2>1, <2>3 DEF DecidesWith
  <2> HIDE DEF all
  <2> QED BY <1>10, <1>11, <1>12, <2>1, <2>2, <2>3 DEF Together
<1>15. d = all
  <2> HIDE DEF all, d
  <2> QED BY <1>6, <1>12, <1>13, <1>14 DEF Decision
<1>16. Current(app, d) = conf
  <2>1. Partitions(app, Lead(d)) = conf BY <1>12, <1>13 DEF lead
  <2>2. conf # None BY LayoutAssumption
  <2> HIDE DEF d
  <2> QED BY <2>1, <2>2 DEF Current
<1>17. Volume(app, d) = Bytes
  <2>1. \A x \in d : Written(app, x) = query[x[2]].written BY <1>13, <1>15
  <2>2. Volume(app, d) = IF \E x \in d : Written(app, x) = None THEN None
                         ELSE Cardinality(UNION {{x} \X (1 .. Written(app, x)) : x \in d})
    BY DEF Volume
  <2>3. Volume(app, d) # None BY <1>7 DEF Refused
  <2>4. {{x} \X (1 .. Written(app, x)) : x \in d} = {{x} \X (1 .. query[x[2]].written) : x \in d}
    <3> HIDE DEF d
    <3> QED BY <2>1
  <2>5. Volume(app, d) = Cardinality(UNION {{x} \X (1 .. Written(app, x)) : x \in d})
    <3> HIDE DEF d
    <3> QED BY <2>2, <2>3
  <2> QED BY <1>15, <2>4, <2>5 DEF Bytes
<1> HIDE DEF d
<1> QED BY <1>7, <1>16, <1>17

LEMMA SettledStays == IInv /\ RunInv /\ Settled /\ [Next]_vars => Settled'
<1> SUFFICES ASSUME IInv, RunInv, Settled, [Next]_vars PROVE Settled' OBVIOUS
<1>1. CASE TakeAdvice
  <2>1. PICK b \in report.counts : b.says = "change" /\ conf' = b.target
    BY <1>1 DEF TakeAdvice
  <2>2. /\ query' = query
        /\ basis' = IF Calm(app) /\ app.plans = 1 THEN app.slots ELSE None
        /\ phase = "tune" /\ report # None
    BY <1>1 DEF TakeAdvice
  <2>3. /\ query \in Queries /\ conf \in Nat \ {0} /\ AppType /\ IsARun(app)
        /\ report = Report(app)
    BY <2>2 DEF IInv, TypeOK, RunInv, Printed
  <2>4. Single' = Single /\ Bytes' = Bytes
    BY <2>2 DEF Single, Bytes, Decided, ByConfig, StageIds, Wrote
  <2>5. ASSUME basis' # None, Single PROVE conf' = Target(Bytes, basis')
    <3>1. Calm(app) /\ app.plans = 1 /\ basis' = app.slots BY <2>2, <2>5
    <3>2. b.target = Target(Bytes, app.slots) BY <2>1, <2>3, <2>5, <3>1, CalmBlock
    <3> QED BY <2>1, <3>1, <3>2
  <2> QED BY <2>4, <2>5 DEF Settled
<1>2. ASSUME UNCHANGED <<query, conf, basis>> PROVE Settled'
  BY <1>2 DEF Settled, Single, Bytes, Decided, ByConfig, StageIds, Wrote
<1>3. ASSUME NEW plans, NEW slots, NEW hot, RunQuery(plans, slots, hot)
      PROVE  UNCHANGED <<query, conf, basis>>
  BY <1>3 DEF RunQuery
<1>4. CASE LayoutCommand \/ LayoutCommandRaises \/ RunAgain \/ UNCHANGED vars
  <2>1. UNCHANGED <<query, conf, basis>>
    BY <1>4 DEF LayoutCommand, LayoutCommandRaises, RunAgain, vars
  <2> QED BY <1>2, <2>1
<1> QED BY <1>1, <1>2, <1>3, <1>4 DEF Next

LEMMA SettledInvariant == Spec => []Settled
<1>1. Init => Settled BY DEF Init, Settled
<1> QED BY <1>1, SettledStays, Invariant, RunInvariant, PTL DEF Spec

(* A count taken from a calm run is not argued with by the next calm run   *)
(* on as many slots: size_of gives one target for one volume, and nothing  *)
(* else `sjp layout` reads of the second run has moved it.                 *)
THEOREM TakenAdviceSettles == Spec => []AdviceSettles
<1> SUFFICES ASSUME IInv, RunInv, Settled PROVE AdviceSettles
  BY Invariant, RunInvariant, SettledInvariant, PTL
<1> SUFFICES ASSUME Reported, basis = app.slots, Calm(app), app.plans = 1, OneCount,
                    NEW b \in report.counts, b.says = "change"
             PROVE  FALSE
  BY DEF AdviceSettles
<1>1. /\ query \in Queries /\ conf \in Nat \ {0} /\ AppType /\ IsARun(app)
      /\ report = Report(app)
  BY DEF IInv, TypeOK, RunInv, Printed, Reported
<1>2. Single
  <2>1. ASSUME NEW e \in Decided PROVE Identifiable(<<1, e>>) /\ query[e].scheme # "SinglePartition"
    BY DEF OneCount, Decided
  <2>2. \A e \in Decided :
          Cardinality({id \in StageIds(1) : Wrote(id) = query[e].written}) = 1
    BY <2>1 DEF Identifiable
  <2>3. \A e, f \in Decided : Reader(query, e) = Reader(query, f) BY DEF OneCount, Decided
  <2> QED BY <2>1, <2>2, <2>3 DEF Single
<1>3. b.target = Target(Bytes, app.slots) /\ b.current = conf /\ b.target # b.current
  BY <1>1, <1>2, CalmBlock
<1>4. basis # None BY <1>1, LayoutAssumption DEF AppType
<1> QED BY <1>2, <1>3, <1>4 DEF Settled
-----------------------------------------------------------------------------
(* The operators over one in a plan: a chain, for every operator is listed *)
(* after the one above it.                                                 *)

TreeOf(tree, N) ==
  /\ N \in Nat /\ DOMAIN tree = 1 .. N
  /\ \A n \in 1 .. N : tree[n].up \in Nat /\ tree[n].up < n

PathsTo(f, tree, m) ==
  f = [n \in 1 .. m |-> {n} \cup (IF tree[n].up = 0 THEN {} ELSE f[tree[n].up])]

LEMMA PathsExist ==
  ASSUME NEW tree, NEW N, TreeOf(tree, N)
  PROVE  \E f : PathsTo(f, tree, N)
<1> DEFINE S == {m \in Nat : m <= N => \E f : PathsTo(f, tree, m)}
<1>1. 0 \in S
  <2> DEFINE z == [n \in 1 .. 0 |-> {}]
  <2>1. PathsTo(z, tree, 0) BY DEF PathsTo
  <2> QED BY <2>1
<1>2. ASSUME NEW m \in Nat, m \in S PROVE m + 1 \in S
  <2> SUFFICES ASSUME m + 1 <= N PROVE \E f : PathsTo(f, tree, m + 1) OBVIOUS
  <2>0. N \in Nat /\ m <= N BY DEF TreeOf
  <2>1. PICK f : PathsTo(f, tree, m) BY <1>2, <2>0
  <2> DEFINE over(g, n) == {n} \cup (IF tree[n].up = 0 THEN {} ELSE g[tree[n].up])
             h == [n \in 1 .. m + 1 |-> over(f, n)]
  <2>2. \A n \in 1 .. m : f[n] = over(f, n) BY <2>1 DEF PathsTo
  <2>3. \A n \in 1 .. m : h[n] = f[n]
    <3>1. \A n \in 1 .. m : n \in 1 .. m + 1 OBVIOUS
    <3> HIDE DEF over
    <3> QED BY <2>2, <3>1
  <2>4. ASSUME NEW n \in 1 .. m + 1 PROVE over(h, n) = over(f, n)
    <3>1. tree[n].up \in Nat /\ tree[n].up < n BY <2>0 DEF TreeOf
    <3>2. CASE tree[n].up = 0 BY <3>2
    <3>3. CASE tree[n].up # 0
      <4>1. tree[n].up \in 1 .. m BY <3>1, <3>3
      <4> HIDE DEF h
      <4> QED BY <2>3, <3>3, <4>1
    <3> QED BY <3>2, <3>3
  <2>5. h = [n \in 1 .. m + 1 |-> over(h, n)]
    <3> HIDE DEF over
    <3> QED BY <2>4
  <2>6. PathsTo(h, tree, m + 1) BY <2>5 DEF PathsTo
  <2> QED BY <2>6
<1> HIDE DEF S
<1>3. \A m \in Nat : m \in S BY <1>1, <1>2, InductionOverNat
<1> QED BY <1>3 DEF S, TreeOf

LEMMA AboveIs ==
  ASSUME NEW tree, NEW N, TreeOf(tree, N)
  PROVE  \A n \in 1 .. N :
           Above(tree)[n] = {n} \cup (IF tree[n].up = 0 THEN {} ELSE Above(tree)[tree[n].up])
<1> DEFINE P(f) == f = [n \in DOMAIN tree |->
                          {n} \cup (IF tree[n].up = 0 THEN {} ELSE f[tree[n].up])]
<1>0. DOMAIN tree = 1 .. N BY DEF TreeOf
<1>1. ASSUME NEW f PROVE P(f) <=> PathsTo(f, tree, N) BY <1>0 DEF PathsTo
<1>2. P(CHOOSE f : P(f))
  <2>1. \E f : P(f) BY <1>1, PathsExist
  <2> HIDE DEF P
  <2> QED BY <2>1
<1>3. Above(tree) = CHOOSE f : P(f) BY DEF Above
<1>4. PathsTo(Above(tree), tree, N)
  <2> HIDE DEF P
  <2> QED BY <1>1, <1>2, <1>3
<1> QED BY <1>4 DEF PathsTo

(* A plan read back has the same chains as the query.                      *)
LEMMA AboveAgrees ==
  ASSUME NEW tree, NEW other, NEW N, TreeOf(tree, N), TreeOf(other, N),
         \A n \in 1 .. N : tree[n].up = other[n].up
  PROVE  \A n \in 1 .. N : Above(tree)[n] = Above(other)[n]
<1> DEFINE Bad == {n \in 1 .. N : Above(tree)[n] # Above(other)[n]}
<1> SUFFICES ASSUME Bad # {} PROVE FALSE OBVIOUS
<1>1. Bad \in SUBSET Nat OBVIOUS
<1>2. PICK n \in Bad : \A m \in Bad : n <= m BY <1>1, HasLeast
<1>3. /\ n \in 1 .. N /\ Above(tree)[n] # Above(other)[n]
      /\ tree[n].up \in Nat /\ tree[n].up < n /\ tree[n].up = other[n].up
  BY DEF TreeOf
<1> DEFINE u == tree[n].up
<1>4. /\ Above(tree)[n] = {n} \cup (IF u = 0 THEN {} ELSE Above(tree)[u])
      /\ Above(other)[n] = {n} \cup (IF u = 0 THEN {} ELSE Above(other)[u])
  <2>1. Above(other)[n] = {n} \cup (IF other[n].up = 0 THEN {} ELSE Above(other)[other[n].up])
    BY <1>3, AboveIs
  <2> QED BY <1>3, <2>1, AboveIs
<1>5. u # 0 /\ Above(tree)[u] # Above(other)[u] BY <1>3, <1>4
<1>6. N \in Nat /\ u \in 1 .. N
  <2>1. N \in Nat BY DEF TreeOf
  <2> HIDE DEF u
  <2>2. u \in Nat /\ u < n BY <1>3 DEF u
  <2> QED BY <1>3, <1>5, <2>1, <2>2
<1>7. u \in Bad
  <2> HIDE DEF u
  <2> QED BY <1>5, <1>6
<1> QED BY <1>2, <1>3, <1>7

LEMMA AboveIsBefore ==
  ASSUME NEW tree, NEW N, TreeOf(tree, N)
  PROVE  \A n \in 1 .. N : Above(tree)[n] \subseteq 1 .. n
<1> DEFINE Bad == {n \in 1 .. N : ~(Above(tree)[n] \subseteq 1 .. n)}
<1> SUFFICES ASSUME Bad # {} PROVE FALSE OBVIOUS
<1>1. Bad \in SUBSET Nat OBVIOUS
<1>2. PICK n \in Bad : \A m \in Bad : n <= m BY <1>1, HasLeast
<1>3. /\ n \in 1 .. N /\ ~(Above(tree)[n] \subseteq 1 .. n)
      /\ tree[n].up \in Nat /\ tree[n].up < n
  BY DEF TreeOf
<1>4. tree[n].up # 0 /\ ~(Above(tree)[tree[n].up] \subseteq 1 .. tree[n].up)
  BY <1>3, AboveIs
<1> DEFINE u == tree[n].up
<1>5. u \in Bad
  <2>1. N \in Nat BY DEF TreeOf
  <2>2. u \in 1 .. N BY <1>3, <1>4, <2>1
  <2> HIDE DEF u
  <2> QED BY <1>4, <2>2 DEF u
<1> QED BY <1>2, <1>3, <1>5

(* Over an operator of the chain is the chain's part before it.            *)
LEMMA AboveIsAChain ==
  ASSUME NEW tree, NEW N, TreeOf(tree, N)
  PROVE  \A e \in 1 .. N : \A b \in Above(tree)[e] :
           Above(tree)[b] = {a \in Above(tree)[e] : a <= b}
<1> DEFINE Fine(e) == \A b \in Above(tree)[e] : Above(tree)[b] = {a \in Above(tree)[e] : a <= b}
           Bad == {e \in 1 .. N : ~Fine(e)}
<1> SUFFICES ASSUME Bad # {} PROVE FALSE OBVIOUS
<1>1. Bad \in SUBSET Nat OBVIOUS
<1>2. PICK e \in Bad : \A m \in Bad : e <= m BY <1>1, HasLeast
<1>3. /\ e \in 1 .. N /\ ~Fine(e) /\ tree[e].up \in Nat /\ tree[e].up < e
      /\ Above(tree)[e] = {e} \cup (IF tree[e].up = 0 THEN {} ELSE Above(tree)[tree[e].up])
      /\ Above(tree)[e] \subseteq 1 .. e
  BY AboveIs, AboveIsBefore DEF TreeOf
<1>4. ASSUME NEW b \in Above(tree)[e]
      PROVE  Above(tree)[b] = {a \in Above(tree)[e] : a <= b}
  <2>1. CASE b = e BY <1>3, <2>1
  <2>2. CASE b # e
    <3> DEFINE u == tree[e].up
    <3>1. u \in 1 .. N /\ u < e /\ u \notin Bad /\ b \in Above(tree)[u]
      <4>1. u # 0 /\ b \in Above(tree)[u] BY <1>3, <2>2
      <4>2. N \in Nat BY DEF TreeOf
      <4>3. u \in Nat /\ u < e BY <1>3
      <4> HIDE DEF u
      <4>4. u \in 1 .. N BY <1>3, <4>1, <4>2, <4>3
      <4> QED BY <1>2, <1>3, <4>1, <4>3, <4>4
    <3>2. Above(tree)[e] = {e} \cup Above(tree)[u] BY <1>3, <3>1
    <3>3. Above(tree)[b] = {a \in Above(tree)[u] : a <= b} BY <3>1
    <3>4. b \in 1 .. u BY <3>1, AboveIsBefore
    <3> HIDE DEF u
    <3> QED BY <1>3, <3>1, <3>2, <3>3, <3>4
  <2> QED BY <2>1, <2>2
<1> QED BY <1>3, <1>4
LEMMA QueriesAreTrees ==
  ASSUME query \in Queries
  PROVE  TreeOf(query, Len(query))
<1>1. query \in Seq(QueryNode) /\ DOMAIN query = 1 .. Len(query) /\ Len(query) \in Nat
  BY TuningAssumption
<1>2. \A n \in DOMAIN query : query[n] \in QueryNode BY <1>1
<1>3. \A n \in DOMAIN query : query[n].up \in Nat BY <1>2 DEF QueryNode
<1> QED BY <1>1, <1>3, TuningAssumption DEF TreeOf

(* The first exchange below a side of a join feeds the join's stage.       *)
LEMMA FirstExchangeFeeds ==
  ASSUME query \in Queries, NEW join \in Joins(query),
         NEW side \in Sides(query, join), NEW other \in Sides(query, join), side # other,
         NEW e \in Exchanges(query), other \in Above(query)[e],
         \A m \in Exchanges(query) : other \in Above(query)[m] => e <= m
  PROVE  /\ join \in Above(query)[e] /\ side \notin Above(query)[e]
         /\ \/ Reader(query, e) = StageOf(query, join)
            \/ \E m \in Above(query)[e] : m > join /\ query[m].op = BROADCAST
<1> DEFINE N == Len(query)
           over(n) == Above(query)[n]
           u == query[e].up
<1>1. TreeOf(query, N) BY QueriesAreTrees
<1>2. N \in Nat /\ DOMAIN query = 1 .. N BY <1>1 DEF TreeOf
<1>3. /\ e \in 1 .. N /\ join \in 1 .. N /\ side \in 1 .. N /\ other \in 1 .. N
      /\ query[side].up = join /\ query[other].up = join /\ query[e].op = EXCHANGE
      /\ join # 0 /\ join < other /\ join < side
  BY <1>1, <1>2 DEF Exchanges, Joins, Sides, IsExchange, TreeOf
<1>4. query[join].op # EXCHANGE /\ join \notin Ends(query)
  <2>1. query[join].op \in {"SortMergeJoin", "BroadcastHashJoin"} BY DEF Joins, IsJoin, JoinNames
  <2> QED BY <2>1 DEF Ends, EXCHANGE, BROADCAST
<1>5. \A n \in 1 .. N : /\ over(n) = {n} \cup (IF query[n].up = 0 THEN {} ELSE over(query[n].up))
                        /\ over(n) \subseteq 1 .. n
                        /\ \A b \in over(n) : over(b) = {a \in over(n) : a <= b}
  BY <1>1, AboveIs, AboveIsBefore, AboveIsAChain
<1> HIDE DEF over
<1>6. ASSUME NEW n \in {side, other} PROVE over(n) = {n} \cup over(join)
  BY <1>3, <1>5
<1>7. other \in over(e) BY DEF over
<1>8. other \in 1 .. e /\ over(other) = {a \in over(e) : a <= other} BY <1>3, <1>5, <1>7
<1>9. over(join) \subseteq 1 .. join /\ join \in over(join)
  BY <1>3, <1>5
<1>10. join \in over(e) BY <1>6, <1>8, <1>9
<1>11. side \notin over(e)
  <2> SUFFICES ASSUME side \in over(e) PROVE FALSE OBVIOUS
  <2>1. over(side) = {a \in over(e) : a <= side} BY <1>3, <1>5
  <2>2. side \notin over(join) /\ other \notin over(join) BY <1>3, <1>9
  <2>3. side < other => side \in over(other) BY <1>3, <1>8
  <2>4. other < side => other \in over(side) BY <1>3, <1>7, <2>1
  <2> QED BY <1>3, <1>6, <2>2, <2>3, <2>4
<1>12. u # 0 /\ u \in 1 .. N /\ u < e /\ over(e) = {e} \cup over(u)
  <2>1. over(e) = {e} \cup (IF u = 0 THEN {} ELSE over(u)) BY <1>3, <1>5
  <2>2. join # e BY <1>3, <1>4
  <2>3. u # 0 BY <1>10, <2>1, <2>2
  <2>4. u \in Nat /\ u < e BY <1>1, <1>3 DEF TreeOf
  <2> HIDE DEF u
  <2> QED BY <1>2, <1>3, <2>1, <2>3, <2>4
<1> HIDE DEF u
<1>13. join \in over(u) /\ over(u) \subseteq 1 .. u /\ over(join) = {a \in over(u) : a <= join}
  <2>1. join # e BY <1>3, <1>4
  <2> QED BY <1>5, <1>10, <1>12, <2>1
<1>14. ASSUME NEW m \in over(u), query[m].op = EXCHANGE, m > join PROVE FALSE
  <2>1. m \in 1 .. N /\ m < e /\ m \in over(e) BY <1>2, <1>3, <1>12, <1>13
  <2>2. m \in Exchanges(query) BY <1>2, <1>14, <2>1 DEF Exchanges, IsExchange
  <2>3. other \in over(m)
    <3>1. CASE other <= m
      <4>1. over(m) = {a \in over(e) : a <= m} BY <1>3, <1>5, <2>1
      <4> QED BY <1>7, <3>1, <4>1
    <3>2. CASE m < other
      <4>1. m \in over(other) BY <1>8, <2>1, <3>2
      <4>2. m # other /\ over(other) = {other} \cup over(join)
        BY <1>3, <1>6, <2>1, <3>2
      <4>3. m \in over(join) BY <4>1, <4>2
      <4> QED BY <1>3, <1>9, <1>14, <2>1, <4>3
    <3> QED BY <1>3, <2>1, <3>1, <3>2
  <2>4. other \in Above(query)[m] BY <2>3 DEF over
  <2>5. e <= m BY <2>2, <2>4
  <2> QED BY <1>3, <2>1, <2>5
<1>15. ASSUME \A m \in over(e) : ~(m > join /\ query[m].op = BROADCAST)
       PROVE  Reader(query, e) = StageOf(query, join)
  <2>1. over(u) \cap Ends(query) = over(join) \cap Ends(query)
    <3>1. ASSUME NEW m \in over(u) \cap Ends(query) PROVE m \in over(join)
      <4>1. m \in 1 .. u /\ (query[m].op = EXCHANGE \/ query[m].op = BROADCAST)
        BY <1>13 DEF Ends
      <4>2. ~(m > join) BY <1>12, <1>14, <1>15, <4>1
      <4> QED BY <1>3, <1>13, <4>1, <4>2
    <3> QED BY <1>13, <3>1
  <2>2. Reader(query, e) = StageOf(query, u) BY <1>12 DEF Reader, u
  <2> QED BY <2>1, <2>2 DEF StageOf, over
<1> QED BY <1>10, <1>11, <1>15 DEF over

(* The shuffle `sjp layout` says a broadcast would save is one whose bytes *)
(* the join's own stage reads, unless a broadcast is already in between:   *)
(* candidates() takes the first exchange under the other side.             *)
THEOREM SavingsAreOfTheJoin == Spec => []SavedShuffleFedTheJoin
<1> SUFFICES ASSUME IInv, RunInv PROVE SavedShuffleFedTheJoin
  BY Invariant, RunInvariant, PTL
<1> SUFFICES ASSUME Reported, NEW c \in report.sides, c.worth_it
             PROVE  \E e \in Exchanges(query) :
                      /\ query[e].written = c.saved
                      /\ c.join \in Above(query)[e] /\ c.side \notin Above(query)[e]
                      /\ \/ Reader(query, e) = StageOf(query, c.join)
                         \/ \E m \in Above(query)[e] : m > c.join /\ query[m].op = BROADCAST
  BY DEF SavedShuffleFedTheJoin
<1>1. /\ query \in Queries /\ AppType /\ IsARun(app) /\ report = Report(app)
  BY DEF IInv, TypeOK, RunInv, Printed, Reported
<1>2. c \in AllCandidates(app) BY <1>1 DEF Report
<1>3. PICK p \in 1 .. app.plans : c \in Candidates(app, p) BY <1>2 DEF AllCandidates
<1>4. PICK join \in Joins(app.tree), side \in DOMAIN app.tree :
        side \in Sides(app.tree, join) /\ c = Candidate(app, p, join, side)
  <2>1. PICK d \in Joins(app.tree) \X DOMAIN app.tree :
          d[2] \in Sides(app.tree, d[1]) /\ c = Candidate(app, p, d[1], d[2])
    BY <1>3 DEF Candidates
  <2>2. d[1] \in Joins(app.tree) /\ d[2] \in DOMAIN app.tree OBVIOUS
  <2> QED BY <2>1, <2>2
<1> DEFINE other == CHOOSE n \in Sides(app.tree, join) : n # side
           e == FeedingExchange(app.tree, other)
           found == Walk(app.tree, other) \cap Exchanges(app.tree)
           N == Len(query)
<1>5. TreeOf(query, N) /\ N \in Nat /\ DOMAIN query = 1 .. N
  BY <1>1, QueriesAreTrees DEF TreeOf
<1>6. /\ DOMAIN app.tree = DOMAIN query /\ Exchanges(app.tree) = Exchanges(query)
      /\ \A n \in DOMAIN query : /\ app.tree[n].op = query[n].op
                                 /\ app.tree[n].up = query[n].up
  BY <1>1, TreeShows
<1>7. \A n \in 1 .. N : Above(app.tree)[n] = Above(query)[n]
  <2>1. TreeOf(app.tree, N) BY <1>5, <1>6 DEF TreeOf
  <2> QED BY <1>5, <1>6, <2>1, AboveAgrees
<1>8. join \in Joins(query) /\ Sides(app.tree, join) = Sides(query, join)
  BY <1>6 DEF Joins, IsJoin, Sides
<1>9. other \in Sides(query, join) /\ other # side
  <2>1. Cardinality(Sides(query, join)) = 2 BY <1>1, <1>8, TuningAssumption
  <2>2. \E n \in Sides(query, join) : n # side
    <3> SUFFICES ASSUME \A n \in Sides(query, join) : n = side PROVE FALSE OBVIOUS
    <3>1. Sides(query, join) = {side} BY <1>4, <1>8
    <3>2. Cardinality({side}) = 1 BY FS_Singleton
    <3> QED BY <2>1, <3>1, <3>2
  <2> QED BY <1>8, <2>2
<1>10. /\ c.join = join /\ c.side = side /\ c.saved = Written(app, <<p, e>>)
       /\ c.saved # None
  BY <1>4 DEF Candidate
<1>11. found = {m \in Exchanges(query) : other \in Above(query)[m]}
  <2>1. Exchanges(query) \subseteq 1 .. N BY <1>5 DEF Exchanges
  <2> HIDE DEF other
  <2>2. Walk(app.tree, other) = {m \in 1 .. N : other \in Above(app.tree)[m]}
    BY <1>5, <1>6 DEF Walk
  <2> QED BY <1>6, <1>7, <2>1, <2>2
<1>12. e # None
  BY <1>10 DEF Written, Metric
<1>13. e \in found /\ \A m \in found : e <= m
  <2>1. e = IF found = {} THEN None ELSE First(found) BY DEF FeedingExchange
  <2>2. found # {} /\ e = First(found) BY <1>12, <2>1
  <2>3. found \in SUBSET Nat BY <1>5, <1>11 DEF Exchanges
  <2> HIDE DEF found, e
  <2>4. \E n \in found : \A m \in found : n <= m BY <2>2, <2>3, HasLeast
  <2> QED BY <2>2, <2>4 DEF First
<1> HIDE DEF found, e, other
<1>14. e \in Exchanges(query) /\ <<p, e>> \in Shuffles(app, p)
  BY <1>6, <1>11, <1>13 DEF Shuffles
<1>15. c.saved = query[e].written
  <2>1. Written(app, <<p, e>>) = IF <<p, e, "shuffle bytes written">> \in DOMAIN app.acc
                                 THEN Values(query[e], conf)["shuffle bytes written"] ELSE None
    BY <1>1, <1>14, MetricsAreShown DEF Written, Names
  <2>2. Values(query[e], conf)["shuffle bytes written"] = query[e].written BY DEF Values, Names
  <2> QED BY <1>10, <2>1, <2>2
<1>16. side \in Sides(query, join) BY <1>4, <1>8
<1>17. other \in Above(query)[e]
       /\ \A m \in Exchanges(query) : other \in Above(query)[m] => e <= m
  BY <1>11, <1>13
<1>18. /\ join \in Above(query)[e] /\ side \notin Above(query)[e]
       /\ \/ Reader(query, e) = StageOf(query, join)
          \/ \E m \in Above(query)[e] : m > join /\ query[m].op = BROADCAST
  BY <1>1, <1>8, <1>9, <1>14, <1>16, <1>17, FirstExchangeFeeds
<1> QED BY <1>10, <1>14, <1>15, <1>18
=============================================================================
