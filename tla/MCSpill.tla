------------------------------- MODULE MCSpill -------------------------------
(* A stage tried once and one that may be retried, after a skipped one.     *)
EXTENDS Spill

Task(memory, disk, peak) == [memory |-> memory, disk |-> disk, peak |-> peak]

MCStageIds == {1, 2}
MCRetried == {2}

(* Nothing; a spill with no peak, as a scan stage reports; a peak and no   *)
(* spill; both; one side of a spill alone.                                 *)
MCSizes == {Task(0, 0, 0), Task(4, 2, 0), Task(0, 0, 3), Task(7, 1, 5), Task(4, 0, 0)}
MCBudget == {"executor memory", "executor cores"}
MCRecorded == {"executor cores"}
=============================================================================
