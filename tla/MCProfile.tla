------------------------------ MODULE MCProfile ------------------------------
(* Small applications for TLC to profile: the values of SparkLog's          *)
(* constants that are functions.                                            *)
EXTENDS Profile

(* One job of one stage. *)
OneStage == [j \in Jobs |-> Stages]
NoParents == [s \in Stages |-> {}]

(* Job 0 runs stage 0, job 1 runs stage 1 and they may overlap. *)
JobPerStage == [j \in Jobs |-> {j}]

(* Every stage reports its own accumulator, numbered like the stage. *)
OwnReport == [s \in Stages |-> {s} \cap AccIds]
=============================================================================
