----------------------------- MODULE MCBenchmark -----------------------------
(* Two arms; what is left to the .cfg are the bounds.                       *)
EXTENDS Benchmark

TwoArms == <<"current", "advised">>
=============================================================================
