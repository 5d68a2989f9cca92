------------------------------- MODULE Tuning -------------------------------
(***************************************************************************)
(* What `sjp layout` is for: a query is run, its log is read, one of the   *)
(* partition counts advised is put into spark.sql.shuffle.partitions, and  *)
(* the query is run again.                                                 *)
(*                                                                         *)
(* How an exchange becomes two stages' work is Spark's side, written from  *)
(* what layout.py matches: the stage above an exchange writes its bytes,   *)
(* the stage below reads them.  A run may execute the query any number of  *)
(* times up to MaxPlans, retry a stage, lose one accumulator value, or log *)
(* no executor at all.  The query writes as many bytes at any count.       *)
(***************************************************************************)
EXTENDS Layout

CONSTANTS
  Queries,      \* plans, with what each exchange writes and how it is counted
  Confs,        \* what spark.sql.shuffle.partitions may be to begin with
  SlotsSeen,    \* slots a log may show, 0 when it has no executor
  MaxPlans      \* bound on the executions of the query in one application

QueryNode == [op : STRING, up : Nat, scheme : STRING, origin : STRING, count : Nat,
              estimated : Nat, written : Nat]

ASSUME TuningAssumption ==
  /\ Queries \subseteq Seq(QueryNode)
  /\ \A q \in Queries : \A n \in DOMAIN q : q[n].up < n
  /\ \A q \in Queries : \A j \in Joins(q) : Cardinality(Sides(q, j)) = 2
  /\ Confs \subseteq Nat \ {0}
  /\ SlotsSeen \subseteq Nat
  /\ MaxPlans \in Nat

OK == 0
FOUND == 1
FAILED == 3

VARIABLES
  query,      \* the query's plan
  conf,       \* spark.sql.shuffle.partitions
  app,        \* the Application of the log read, None before the first
  phase,      \* "run", "read" or "tune"
  report,     \* what the command printed, None when it printed nothing
  status,     \* its exit status, None before
  basis       \* the slots of the calm run whose advice conf is, or None

vars == <<query, conf, app, phase, report, status, basis>>

-----------------------------------------------------------------------------
(* Spark.  A stage ends at an exchange or a broadcast; 0 is the last one.   *)

Ends(tree) == {n \in DOMAIN tree : tree[n].op \in {EXCHANGE, BROADCAST}}

(* The stage an operator's work is in, and the one an exchange feeds.      *)
StageOf(tree, n) ==
  LET over == Above(tree)[n] \cap Ends(tree)
  IN IF over = {} THEN 0 ELSE CHOOSE m \in over : \A k \in over : k <= m

Reader(tree, e) == IF tree[e].up = 0 THEN 0 ELSE StageOf(tree, tree[e].up)

Counted(node, c) ==
  CASE node.scheme = "SinglePartition" -> 1
    [] node.origin \in QueryDecided -> node.count
    [] OTHER -> c

Text(node, c) ==
  [op |-> node.op, up |-> node.up, scheme |-> node.scheme, origin |-> node.origin,
   declared |-> IF node.op # EXCHANGE \/ node.scheme = "SinglePartition"
                THEN None ELSE Counted(node, c)]

Names == {"number of partitions", "data size", "shuffle bytes written"}

Values(node, c) ==
  [name \in Names |->
     CASE name = "number of partitions" -> Counted(node, c)
       [] name = "data size" -> node.estimated
       [] OTHER -> node.written]

StageIds(plans) == (1 .. plans) \X (Ends(query) \cup {0})

Wrote(id) == IF id[2] = 0 \/ query[id[2]].op # EXCHANGE THEN 0 ELSE query[id[2]].written

(* A retried stage has two attempts; the first wrote `early` of its bytes. *)
Attempts(id, retried, early, hot) ==
  {[id |-> id, attempt |-> a,
    parents |-> {<<id[1], e>> : e \in {f \in Exchanges(query) : Reader(query, f) = id[2]}},
    bytes |-> IF id # retried THEN Wrote(id)
              ELSE IF a = 0 THEN early ELSE Wrote(id) - early,
    verdict |-> IF id[2] \in hot THEN SKEWED ELSE EVEN] :
     a \in IF id = retried THEN {0, 1} ELSE {0}}

(* `missing` is an accumulator value that never reached the log.           *)
Ran(plans, slots, retried, early, hot, missing) ==
  LET keys == (1 .. plans) \X Exchanges(query) \X Names
  IN [tree |-> [n \in DOMAIN query |-> Text(query[n], conf)],
      plans |-> plans,
      slots |-> slots,
      acc |-> [k \in keys \ {missing} |-> Values(query[k[2]], conf)[k[3]]],
      stages |-> UNION {Attempts(id, retried, early, hot) : id \in StageIds(plans)}]

-----------------------------------------------------------------------------
Init ==
  /\ query \in Queries
  /\ conf \in Confs
  /\ app = None
  /\ phase = "run"
  /\ report = None
  /\ status = None
  /\ basis = None

RunQuery(plans, slots, hot) ==
  /\ phase = "run"
  /\ \/ app' = Ran(plans, slots, None, 0, hot, None)
     \/ \E retried \in StageIds(plans), early \in 0 .. 1 :
          /\ early <= Wrote(retried)
          /\ app' = Ran(plans, slots, retried, early, hot, None)
     \/ \E missing \in (1 .. plans) \X Exchanges(query) \X Names :
          app' = Ran(plans, slots, None, 0, hot, missing)
  /\ phase' = "read"
  /\ UNCHANGED <<query, conf, report, status, basis>>

(* layout_command: the lines are all made before the first is printed.     *)
LayoutCommand ==
  /\ phase = "read"
  /\ ~Raises(app)
  /\ report' = Report(app)
  /\ status' = IF Actionable(app) THEN FOUND ELSE OK
  /\ phase' = "tune"
  /\ UNCHANGED <<query, conf, app, basis>>

LayoutCommandRaises ==
  /\ phase = "read"
  /\ Raises(app)
  /\ report' = None
  /\ status' = FAILED
  /\ phase' = "tune"
  /\ UNCHANGED <<query, conf, app, basis>>

(* Nothing retried and nothing missing.                                    *)
Calm(a) ==
  /\ \A s \in a.stages : s.attempt = 0
  /\ DOMAIN a.acc = (1 .. a.plans) \X Exchanges(a.tree) \X Names

Again ==
  /\ phase' = "run"
  /\ app' = None
  /\ report' = None
  /\ status' = None

TakeAdvice ==
  /\ phase = "tune"
  /\ report # None
  /\ \E b \in report.counts :
       /\ b.says = "change"
       /\ conf' = b.target
  /\ basis' = IF Calm(app) /\ app.plans = 1 THEN app.slots ELSE None
  /\ Again
  /\ UNCHANGED query

RunAgain ==
  /\ phase = "tune"
  /\ Again
  /\ UNCHANGED <<query, conf, basis>>

Next ==
  \/ \E plans \in 0 .. MaxPlans, slots \in SlotsSeen,
        hot \in {{}} \cup {{s} : s \in Ends(query) \cup {0}} : RunQuery(plans, slots, hot)
  \/ LayoutCommand
  \/ LayoutCommandRaises
  \/ TakeAdvice
  \/ RunAgain

Spec == Init /\ [][Next]_vars

-----------------------------------------------------------------------------
(* What is known of a run apart from what layout.py makes of it.           *)

Reported == phase = "tune" /\ report # None

NoneRetried == \A s \in app.stages : s.attempt = 0

(* Exactly one stage of the application wrote as many bytes.               *)
Identifiable(x) ==
  /\ <<x[1], x[2], "shuffle bytes written">> \in DOMAIN app.acc
  /\ Cardinality({id \in StageIds(app.plans) : Wrote(id) = query[x[2]].written}) = 1

ReaderIsHot(x) ==
  \E s \in app.stages : s.id = <<x[1], Reader(query, x[2])>> /\ s.verdict = SKEWED

ByConfig(x) == query[x[2]].origin \in ConfigDecided
Hashed(x) == query[x[2]].scheme = KEY_HASH

-----------------------------------------------------------------------------
(* Types.  A count that is advised is one Spark would accept.              *)
TypeOK ==
  /\ query \in Queries
  /\ conf \in Nat \ {0}
  /\ phase \in {"run", "read", "tune"}
  /\ status \in {None, OK, FOUND, FAILED}
  /\ basis \in {None} \cup SlotsSeen
  /\ report # None =>
       \A b \in report.counts :
         /\ b.exchanges # {}
         /\ b.current \in Nat \cup {None}
         /\ b.volume \in Nat \cup {None}
         /\ b.target \in (Nat \ {0}) \cup {None}

(* The report has every exchange once, and exchanges it puts under one     *)
(* count really share one: the configuration decides them, they were run   *)
(* at the same count, and their bytes went into one stage of one execution.*)
(* decisions() groups by a stage it finds from a byte count; stages that   *)
(* were retried wrote their bytes in parts, so they are left out.          *)
OneDecisionOneCount ==
  Reported =>
    /\ \A p \in 1 .. app.plans : \A e \in Exchanges(query) :
         Cardinality({b \in report.counts : <<p, e>> \in b.exchanges}) = 1
    /\ \A b \in report.counts : \A x, y \in b.exchanges : x # y =>
         /\ ByConfig(x) /\ ByConfig(y)
         /\ Counted(query[x[2]], conf) = Counted(query[y[2]], conf)
         /\ x[1] = y[1]
         /\ NoneRetried => Reader(query, x[2]) = Reader(query, y[2])

(* Cutting the count of hash exchanges is argued against exactly when the  *)
(* stage that reads them carries a hot key, whatever other stages do, as   *)
(* long as the log lets anybody tell which stage that is; a raise never    *)
(* is.  advise_decision() reads the first exchange of a decision only.     *)
CutsKnowTheirReader ==
  Reported =>
    \A b \in report.counts : b.target # None =>
      /\ b.says = "withheld" => b.target < b.current
      /\ (b.target < b.current /\ NoneRetried /\ \A x \in b.exchanges : Identifiable(x)) =>
           (b.says = "withheld" <=> \A x \in b.exchanges : Hashed(x) /\ ReaderIsHot(x))

(* The exit status is 1 exactly when something printed asks for a change.  *)
(* layout_lines and actionable go over the plans separately, one to print  *)
(* and one to count.                                                       *)
StatusIsWhatWasPrinted ==
  Reported =>
    (status = FOUND <=>
       \/ \E b \in report.counts : b.says = "change"
       \/ \E c \in report.sides : c.worth_it)

(* A target keeps every slot busy in every round, gives no partition more  *)
(* than the advisory size, and is the smallest count that does.            *)
Fits(b, slots) ==
  /\ b.target >= slots
  /\ Waves(b.target, slots)[2] = 0
  /\ b.target * Advisory >= b.volume
  /\ \A n \in 1 .. b.target - 1 :
       n < slots \/ n % slots # 0 \/ n * Advisory < b.volume

TargetsFit ==
  Reported => \A b \in report.counts : b.target # None => Fits(b, app.slots)

(* Advice settles: a count taken from a calm run on as many slots is not   *)
(* argued with by the next calm run, provided every exchange the           *)
(* configuration decides feeds one stage that the log identifies.          *)
OneCount ==
  LET decided == {e \in Exchanges(query) : ByConfig(<<1, e>>)}
  IN /\ \A e \in decided : Identifiable(<<1, e>>) /\ query[e].scheme # "SinglePartition"
     /\ \A e, f \in decided : Reader(query, e) = Reader(query, f)

AdviceSettles ==
  (Reported /\ basis = app.slots /\ Calm(app) /\ app.plans = 1 /\ OneCount) =>
    \A b \in report.counts : b.says # "change"

(* The shuffle a broadcast is said to save is one that fed the join's own  *)
(* stage, not one further down; a side that is broadcast already is        *)
(* the exception.                                                          *)
SavedShuffleFedTheJoin ==
  Reported =>
    \A c \in report.sides : c.worth_it =>
      \E e \in Exchanges(query) :
        /\ query[e].written = c.saved
        /\ c.join \in Above(query)[e] /\ c.side \notin Above(query)[e]
        /\ \/ Reader(query, e) = StageOf(query, c.join)
           \/ \E m \in Above(query)[e] : m > c.join /\ query[m].op = BROADCAST

(* layout.py:27 says the module refuses to recommend a count nobody can    *)
(* change.  Refuted: SinglePartition is one partition by definition and    *)
(* carries the origin the configuration decides.                           *)
AdviceCanBeTaken ==
  Reported =>
    \A b \in report.counts : b.says = "change" =>
      \A x \in b.exchanges : ByConfig(x) /\ query[x[2]].scheme # "SinglePartition"
=============================================================================
