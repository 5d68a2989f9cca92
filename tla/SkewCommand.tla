----------------------------- MODULE SkewCommand -----------------------------
(***************************************************************************)
(* One `sjp skew` invocation: cli.main around commands.skew_command.  The  *)
(* arguments are parsed, unmeasurable metrics refused, the log read, every *)
(* stage judged on every metric, the report printed through a buffer into  *)
(* a pipe whose reader may go away at any moment, and a status returned.   *)
(***************************************************************************)
EXTENDS Skew

CONSTANTS
  Logs,         \* what the path may hold: sequences of stages, or Unreadable
  Unreadable,   \* a path that does not profile: build or read_events raises
  Usages,       \* arguments: [metrics, threshold, only, asks]
  NoFilter,     \* --only was not given
  Alphabet,     \* every metric name, in the order of the names
  BufferSize    \* lines the output buffer holds before it is written out

ASSUME BufferAssumption == BufferSize \in Nat \ {0}

(* What skew_parser and _args let through, and what model.build returns:   *)
(* a stage has its tasks' values for every measured metric.                *)
ASSUME CommandAssumption ==
  /\ Quantities \in Seq({m \in DOMAIN KindOf : Measurable(m)})
  /\ Kinds \in Seq(Members(Kinds))
  /\ {m \in DOMAIN KindOf : Measurable(m)} \subseteq Members(Alphabet)
  /\ DOMAIN Alphabet \subseteq Nat
  /\ \A usage \in Usages :
       /\ usage.metrics \in Seq(Members(usage.metrics))
       /\ usage.threshold \in [num : Int, den : Nat \ {0}]
       /\ usage.only \in Members(Outcomes) \cup {NoFilter}
       /\ usage.asks \in {"answer", "help", "nonsense"}
  /\ \A log \in Logs :
       log \in Seq([id : Nat, values : [{m \in DOMAIN KindOf : Measurable(m)} -> Seq(Int)]])
  /\ Unreadable \notin Logs

OK == 0
FOUND == 1
REFUSED == 2
FAILED == 3
UNFLUSHED == 120
BROKEN == 141

VARIABLES
  args,        \* the parsed arguments
  file,        \* what the log holds
  phase,       \* "parse", "refuse", "profile", "scan", "print", "flush", "exit"
  verdicts,    \* one per stage and metric, in the order judged
  buffer,      \* printed lines not yet written
  delivered,   \* lines written to the pipe
  reading,     \* the pipe's other end is open
  code,        \* what the command's function returned, -1 before
  status       \* what the process exits with, -1 while it runs

commandVars == <<args, file, phase, verdicts, buffer, delivered, reading, code, status>>

-----------------------------------------------------------------------------
(* skew_lines: the answer, the tally, the contract line, then the body.    *)

(* --metric not given means the default set.                               *)
Metrics == IF args.metrics = <<>> THEN Quantities ELSE args.metrics

(* metric_set_id: the names as a bag, so their order does not count.       *)
MetricSetId(metrics) ==
  [m \in Members(metrics) |-> Cardinality({i \in DOMAIN metrics : metrics[i] = m})]

MetricSetLabel(metrics) == IF metrics = Quantities THEN "default" ELSE "selected"

KindsWith(vs) == AtPlaces(Kinds, {i \in DOMAIN Kinds : HasWorst(vs, Kinds[i])})

(* Slip: the filter narrows what is counted, not only what is printed.     *)
StatusOfFiltered(vs, only) ==
  ExitStatus(IF only = NoFilter THEN vs ELSE Only(vs, only))

StatusOf(vs, only) == ExitStatus(vs)

Body(vs, only) == Ranked(IF only = NoFilter THEN vs ELSE Only(vs, only), Alphabet)

Report(vs, metrics, only) ==
  LET kinds == KindsWith(vs)
      shown == Body(vs, only)
      worst == [i \in DOMAIN kinds |-> [line |-> "worst", verdict |-> Worst(vs, kinds[i])]]
      body == [i \in DOMAIN shown |-> [line |-> "verdict", verdict |-> shown[i]]]
  IN <<[line |-> "header", verdicts |-> Len(vs)]>>
     \o (IF worst = <<>> THEN <<[line |-> "nothing skewed"]>> ELSE worst)
     \o <<[line |-> "tally", skewed |-> Count(vs, SKEWED), even |-> Count(vs, EVEN),
           undecided |-> Count(vs, UNDECIDED)]>>
     \o <<[line |-> "contract", status |-> ExitStatus(vs),
           label |-> MetricSetLabel(metrics), id |-> MetricSetId(metrics)]>>
     \o (IF only = NoFilter THEN <<>>
         ELSE <<[line |-> "showing", shown |-> Len(shown), of |-> Len(vs)]>>)
     \o body

-----------------------------------------------------------------------------
Init ==
  /\ args \in Usages
  /\ file \in Logs \cup {Unreadable}
  /\ phase = "parse"
  /\ verdicts = <<>>
  /\ buffer = <<>>
  /\ delivered = <<>>
  /\ reading = TRUE
  /\ code = -1
  /\ status = -1

Exit(s) == phase' = "exit" /\ status' = s

(* What argparse refuses, or answers with the help, leaves main by a       *)
(* SystemExit; help nobody reads fails at the interpreter's own last flush. *)
Parse ==
  /\ phase = "parse"
  /\ \/ args.asks = "answer" /\ phase' = "refuse" /\ UNCHANGED status
     \/ args.asks = "nonsense" /\ Exit(REFUSED)
     \/ args.asks = "help" /\ Exit(IF reading THEN OK ELSE UNFLUSHED)
  /\ UNCHANGED <<args, file, verdicts, buffer, delivered, reading, code>>

(* The refusal goes to stderr; main then flushes a stdout that is empty.   *)
Refuse ==
  /\ phase = "refuse"
  /\ Refused(Metrics) # {}
  /\ code' = REFUSED
  /\ phase' = "flush"
  /\ UNCHANGED <<args, file, verdicts, buffer, delivered, reading, status>>

Accept ==
  /\ phase = "refuse"
  /\ Refused(Metrics) = {}
  /\ phase' = "profile"
  /\ UNCHANGED <<args, file, verdicts, buffer, delivered, reading, code, status>>

(* Anything profile raises is caught by main: a status that is no answer.  *)
Profile ==
  /\ phase = "profile"
  /\ IF file = Unreadable THEN Exit(FAILED)
                          ELSE phase' = "scan" /\ UNCHANGED status
  /\ UNCHANGED <<args, file, verdicts, buffer, delivered, reading, code>>

(* One verdict of scan's double loop.  A threshold at or below an even     *)
(* stage's ratio raises at the first one.                                  *)
JudgeNext ==
  /\ phase = "scan"
  /\ Len(verdicts) < Len(file) * Len(Metrics)
  /\ IF MeansSomething(args.threshold)
     THEN /\ verdicts' = Append(verdicts,
               Scan(file, Metrics, args.threshold)[Len(verdicts) + 1])
          /\ UNCHANGED <<phase, status>>
     ELSE Exit(FAILED) /\ UNCHANGED verdicts
  /\ UNCHANGED <<args, file, buffer, delivered, reading, code>>

Scanned ==
  /\ phase = "scan"
  /\ Len(verdicts) = Len(file) * Len(Metrics)
  /\ phase' = "print"
  /\ UNCHANGED <<args, file, verdicts, buffer, delivered, reading, code, status>>

Printed == Len(delivered) + Len(buffer)
Lines == Report(verdicts, Metrics, args.only)

(* print() of the next line: into the buffer, or, when that is full, out   *)
(* with it.  A write nobody reads raises BrokenPipeError, caught by main.  *)
PrintLine ==
  /\ phase = "print"
  /\ Printed < Len(Lines)
  /\ IF Len(buffer) < BufferSize
     THEN /\ buffer' = Append(buffer, Lines[Printed + 1])
          /\ UNCHANGED <<delivered, phase, status>>
     ELSE IF reading
     THEN /\ delivered' = delivered \o buffer
          /\ buffer' = <<Lines[Printed + 1]>>
          /\ UNCHANGED <<phase, status>>
     ELSE Exit(BROKEN) /\ UNCHANGED <<buffer, delivered>>
  /\ UNCHANGED <<args, file, verdicts, reading, code>>

Return ==
  /\ phase = "print"
  /\ Printed = Len(Lines)
  /\ code' = StatusOf(verdicts, args.only)
  /\ phase' = "flush"
  /\ UNCHANGED <<args, file, verdicts, buffer, delivered, reading, status>>

(* Slip: the last flush is left to the interpreter, after the return.      *)
FlushLate ==
  /\ phase = "flush"
  /\ Exit(code)
  /\ IF reading THEN delivered' = delivered \o buffer /\ buffer' = <<>>
                ELSE UNCHANGED <<buffer, delivered>>
  /\ UNCHANGED <<args, file, verdicts, reading, code>>

(* Slip: a flush nobody reads is waited for.                               *)
FlushWaits ==
  /\ phase = "flush"
  /\ reading
  /\ delivered' = delivered \o buffer
  /\ buffer' = <<>>
  /\ Exit(code)
  /\ UNCHANGED <<args, file, verdicts, reading, code>>

(* main's flush inside the try: the status waits for the last line.        *)
Flush ==
  /\ phase = "flush"
  /\ IF reading \/ buffer = <<>>
     THEN /\ delivered' = delivered \o buffer
          /\ buffer' = <<>>
          /\ Exit(code)
     ELSE Exit(BROKEN) /\ UNCHANGED <<buffer, delivered>>
  /\ UNCHANGED <<args, file, verdicts, reading, code>>

(* `| head`: the reader has had enough.                                    *)
ReaderCloses ==
  /\ reading
  /\ status = -1
  /\ reading' = FALSE
  /\ UNCHANGED <<args, file, phase, verdicts, buffer, delivered, code, status>>

Command == Parse \/ Refuse \/ Accept \/ Profile \/ JudgeNext \/ Scanned
           \/ PrintLine \/ Return \/ Flush

Next == Command \/ ReaderCloses

Spec == Init /\ [][Next]_commandVars /\ WF_commandVars(Command)

-----------------------------------------------------------------------------
Answers == status = FOUND \/ (status = OK /\ args.asks # "help")

(* cli.py:35: 0 and 1 are answers, so nothing but an answer exits with     *)
(* them, the 0 of --help apart: every line of the report has been written  *)
(* to whoever reads it.  A refusal, a crash or a pipe cut at any line has  *)
(* another status.                                                         *)
AnswerWasDelivered ==
  Answers =>
    /\ Refused(Metrics) = {}
    /\ file # Unreadable
    /\ delivered = Report(Scan(file, Metrics, args.threshold), Metrics, args.only)

(* The answer is of the whole scan: FOUND exactly when some stage skewed   *)
(* on some judged metric, whatever --only left out of the body, and the    *)
(* status on the contract line is the one the shell gets.                  *)
SkewedSomewhere ==
  \E s \in Members(file), m \in Members(Metrics) :
    Judge(s, m, args.threshold).outcome = SKEWED

StatusIsOfTheWholeScan ==
  Answers =>
    /\ (status = FOUND) = SkewedSomewhere
    /\ \A i \in DOMAIN delivered :
         delivered[i].line = "contract" => delivered[i].status = status

(* The summary and the body agree: the first line the body has for a kind  *)
(* is about the stage the kind's worst line names, at the same ratio, be   *)
(* it on another metric.  The two are computed apart, by max() and by      *)
(* sorted().                                                               *)
BodyLeadsWithTheWorst ==
  phase = "print" /\ args.only \in {NoFilter, SKEWED} =>
    LET body == Body(verdicts, args.only) IN
    \A k \in Members(KindsWith(verdicts)) :
      LET worst == Worst(verdicts, k)
          first == body[CHOOSE i \in DOMAIN body :
                          /\ KindOf[body[i].metric] = k
                          /\ \A j \in 1 .. i - 1 : KindOf[body[j].metric] # k]
      IN first.stage = worst.stage /\ SameRatio(first.ratio, worst.ratio)

(* However the pipe is cut, the command comes to a status.                 *)
Exits == <>(status # -1)

=============================================================================
