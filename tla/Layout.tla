------------------------------- MODULE Layout -------------------------------
(***************************************************************************)
(* src/sjp/layout.py: what `sjp layout` advises of one application: a      *)
(* partition count for every exchange the configuration decides, and join  *)
(* sides small enough to broadcast.                                        *)
(*                                                                         *)
(* An application is a record: `tree` is the plan's text, run `plans`      *)
(* times over; `acc` holds the accumulator values that reached the log, by *)
(* execution, node and metric name; `slots`; and `stages`, a set of        *)
(* records of an id, an attempt, the parent ids, the bytes its tasks wrote *)
(* and the verdict skew.judge gives its row counts.  An exchange is named  *)
(* by its execution and node, <<p, n>>.                                    *)
(***************************************************************************)
EXTENDS Plan

CONSTANTS
  Advisory,      \* --advisory, bytes a partition should hold
  Threshold      \* --broadcast, estimated bytes under which a side is small

SKEWED == "skewed"
EVEN == "even"
OUTCOMES == {SKEWED, EVEN, "undecided"}

(* What is kept of a stage.                                                *)
Stage == [id : Nat \X Nat, attempt : Nat, parents : SUBSET (Nat \X Nat), bytes : Nat,
          verdict : OUTCOMES]

ASSUME LayoutAssumption ==
  /\ Advisory \in Nat \ {0}
  /\ Threshold \in Nat
  /\ None \notin Nat /\ None \notin Nat \X Nat /\ None \notin Stage

KEY_HASH == "hashpartitioning"

Larger(a, b) == IF a >= b THEN a ELSE b
CeilDiv(a, b) == (a + b - 1) \div b

-----------------------------------------------------------------------------
(* Sizing.                                                                 *)

(* Rounds, and how full the last one is.                                   *)
Waves(partitions, slots) == <<CeilDiv(partitions, slots), partitions % slots>>

FromVolume(written) == Larger(1, CeilDiv(written, Advisory))

(* Slip: neither the slots nor one partition as a floor.                   *)
TargetNoFloor(written, slots) == CeilDiv(CeilDiv(written, Advisory), slots) * slots

(* Slip: the last round left partly empty.                                 *)
TargetUnrounded(written, slots) == Larger(FromVolume(written), slots)

Target(written, slots) == CeilDiv(Larger(FromVolume(written), slots), slots) * slots

-----------------------------------------------------------------------------
(* The exchanges of an application, and the stages around one.             *)

Metric(app, x, name) ==
  IF x[2] # None /\ <<x[1], x[2], name>> \in DOMAIN app.acc
  THEN app.acc[<<x[1], x[2], name>>] ELSE None

Partitions(app, x) == Metric(app, x, "number of partitions")
Estimated(app, x) == Metric(app, x, "data size")
Written(app, x) == Metric(app, x, "shuffle bytes written")

Node(app, x) == app.tree[x[2]]
Kind(app, x) == OriginKind(Node(app, x).origin)

Shuffles(app, p) == {p} \X Exchanges(app.tree)

WritingStage(app, x) ==
  LET found == {s \in app.stages : s.bytes = Written(app, x)}
  IN IF Written(app, x) # None /\ Cardinality(found) = 1
     THEN CHOOSE s \in found : TRUE ELSE None

ReadingStage(app, x) ==
  LET upstream == WritingStage(app, x)
      found == {s \in app.stages : upstream.id \in s.parents}
  IN IF upstream # None /\ Cardinality(found) = 1
     THEN CHOOSE s \in found : TRUE ELSE None

(* Slip: the rows of the stage before the exchange.                        *)
HotKeyUpstream(app, x) ==
  LET stage == WritingStage(app, x)
  IN IF stage = None THEN None ELSE stage.verdict

HotKey(app, x) ==
  LET stage == ReadingStage(app, x)
  IN IF stage = None THEN None ELSE stage.verdict

-----------------------------------------------------------------------------
(* decisions(): the exchanges one count controls.                          *)

DecidesWith(app, x) ==
  LET stage == ReadingStage(app, x)
  IN IF Kind(app, x) # CONFIG \/ stage = None THEN None ELSE stage.id

(* Slip: every exchange a decision of its own.                             *)
TogetherAlone(app, x) == {x}

(* Slip: exchanges that nothing could be said of put together.             *)
TogetherUnknown(app, x) ==
  {y \in Shuffles(app, x[1]) : DecidesWith(app, y) = DecidesWith(app, x)}

Together(app, x) ==
  {x} \cup {y \in Shuffles(app, x[1]) :
              DecidesWith(app, y) = DecidesWith(app, x) /\ DecidesWith(app, x) # None}

Decision(app, x) ==
  LET group == Together(app, x)
  IN IF \A y \in group : Partitions(app, y) = Partitions(app, x) THEN group ELSE {x}

Decisions(app, p) == {Decision(app, x) : x \in Shuffles(app, p)}

(* group[0], in plan order.                                                *)
Lead(group) == CHOOSE x \in group : \A y \in group : x[2] <= y[2]

(* The sum over a decision: every byte that any of its exchanges wrote.    *)
Volume(app, group) ==
  IF \E x \in group : Written(app, x) = None THEN None
  ELSE Cardinality(UNION {{x} \X (1 .. Written(app, x)) : x \in group})

-----------------------------------------------------------------------------
(* size_of() and advise_decision(): one block of the report.               *)

Current(app, group) ==
  LET lead == Lead(group)
  IN IF Partitions(app, lead) \in {None, 0} THEN Node(app, lead).declared
                                            ELSE Partitions(app, lead)

Refused(app, group) ==
  \/ Current(app, group) = None
  \/ Volume(app, group) = None
  \/ Kind(app, Lead(group)) # CONFIG

Withheld(app, group) ==
  /\ Target(Volume(app, group), app.slots) < Current(app, group)
  /\ \A x \in group : Node(app, x).scheme = KEY_HASH
  /\ HotKey(app, Lead(group)) = SKEWED

(* "none" for a refusal, "withheld" for a cut this tool argues against,    *)
(* "change" and "keep" for the line with a target in it.                   *)
Says(app, group) ==
  IF Refused(app, group) THEN "none"
  ELSE IF Withheld(app, group) THEN "withheld"
  ELSE IF Target(Volume(app, group), app.slots) = Current(app, group) THEN "keep"
  ELSE "change"

Block(app, group) ==
  [exchanges |-> group, current |-> Current(app, group), volume |-> Volume(app, group),
   says |-> Says(app, group),
   target |-> IF Refused(app, group) THEN None ELSE Target(Volume(app, group), app.slots)]

(* waves() raises when there are no slots, for every count but an unknown. *)
Raises(app) ==
  /\ app.slots = 0
  /\ \E p \in 1 .. app.plans : \E d \in Decisions(app, p) : Current(app, d) # None

-----------------------------------------------------------------------------
(* candidates(): one record for each side of a join that was shuffled.     *)

Candidate(app, p, join, side) ==
  LET other == CHOOSE n \in Sides(app.tree, join) : n # side
      saved == Written(app, <<p, FeedingExchange(app.tree, other)>>)
  IN [execution |-> p, join |-> join, side |-> side, saved |-> saved,
      worth_it |-> /\ Estimated(app, <<p, FeedingExchange(app.tree, side)>>) < Threshold
                   /\ saved \notin {None, 0}]

Candidates(app, p) ==
  {Candidate(app, p, c[1], c[2]) :
     c \in {d \in Joins(app.tree) \X DOMAIN app.tree :
             /\ d[2] \in Sides(app.tree, d[1])
             /\ Estimated(app, <<p, FeedingExchange(app.tree, d[2])>>) # None}}

-----------------------------------------------------------------------------
(* layout_lines() and actionable(), which goes over the plans again.       *)

Blocks(app) == UNION {{Block(app, d) : d \in Decisions(app, p)} : p \in 1 .. app.plans}
AllCandidates(app) == UNION {Candidates(app, p) : p \in 1 .. app.plans}

Report(app) == [counts |-> Blocks(app), sides |-> AllCandidates(app)]

(* Slip: every decision whose target is another number.                    *)
ActionableWithheld(app) ==
  \/ \E c \in AllCandidates(app) : c.worth_it
  \/ \E p \in 1 .. app.plans : \E d \in Decisions(app, p) :
       Block(app, d).target \notin {None, Current(app, d)}

Actionable(app) ==
  \/ \E c \in AllCandidates(app) : c.worth_it
  \/ \E p \in 1 .. app.plans : \E d \in Decisions(app, p) :
       /\ Says(app, d) # "withheld"
       /\ Block(app, d).target \notin {None, Current(app, d)}
=============================================================================
