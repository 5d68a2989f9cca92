------------------------------- MODULE SplitRun -------------------------------
(***************************************************************************)
(* What a manifest promises of a benchmark run in several invocations: one *)
(* warmup, then the schedule's runs, each recorded once and in order,      *)
(* whatever was interrupted in between; or nothing at all, once it can no  *)
(* longer be read.                                                         *)
(***************************************************************************)
EXTENDS Bench

CONSTANTS
  Arms,      \* the arms, in the order they were declared
  Passes     \* passes of the schedule

VARIABLES
  readable,  \* the manifest has not been lost
  warm,      \* the warmup has run
  runs       \* the arm of every run recorded

splitVars == <<readable, warm, runs>>

SplitInit == readable = TRUE /\ warm = FALSE /\ runs = <<>>

WarmUp ==
  /\ readable /\ ~warm
  /\ warm' = TRUE
  /\ UNCHANGED <<readable, runs>>

RecordNext ==
  /\ readable /\ warm
  /\ Len(runs) < Len(Order(Arms, Passes))
  /\ runs' = Append(runs, Order(Arms, Passes)[Len(runs) + 1])
  /\ UNCHANGED <<readable, warm>>

Lose ==
  /\ readable' = FALSE /\ warm' = FALSE /\ runs' = <<>>

SplitNext == WarmUp \/ RecordNext \/ Lose

SplitSpec == SplitInit /\ [][SplitNext]_splitVars
=============================================================================
