---------------------------- MODULE MCBenchReadings ----------------------------
(* A join of two shuffled sides, and how its log may differ from run to run.*)
EXTENDS BenchReadings

Stage(of, rows, spread) == [of |-> of, rows |-> rows, spread |-> spread]

LeftSide == Stage("left side", 4, 2)
RightSide == Stage("right side", 1, -1)
Joined == Stage("join", 9, 8)

MCUsual == <<LeftSide, RightSide, Joined>>

(* The sides the other way round; rows missing; a side tried again, with   *)
(* fewer rows and with as many; and other data, whose sides have each      *)
(* other's count of rows.                                                  *)
Swapped == <<RightSide, LeftSide, Joined>>
Different == {<<Stage("left side", 3, 2), RightSide, Joined>>,
              <<Stage("left side", 2, 2), LeftSide, RightSide, Joined>>,
              <<LeftSide, LeftSide, RightSide, Joined>>,
              <<Stage("left side", 1, 2), Stage("right side", 4, -1), Joined>>}

MCOutcomes == [wall : {1, 2, 4}, stages : {MCUsual}]
              \cup [wall : {1}, stages : {Swapped} \cup Different]
=============================================================================
