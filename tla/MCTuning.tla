------------------------------ MODULE MCTuning ------------------------------
(* Queries of up to four exchanges.  An advisory size of 4 bytes and a      *)
(* threshold of 10: 13 bytes want four partitions, 1 wants one.             *)
EXTENDS Tuning

Op(op, up) == [op |-> op, up |-> up, scheme |-> "", origin |-> "", count |-> 0,
               estimated |-> 0, written |-> 0]
Ex(up, scheme, origin, count, estimated, written) ==
  [op |-> EXCHANGE, up |-> up, scheme |-> scheme, origin |-> origin, count |-> count,
   estimated |-> estimated, written |-> written]
Hash(up, estimated, written) ==
  Ex(up, KEY_HASH, "ENSURE_REQUIREMENTS", 0, estimated, written)
ByNumber(up, count, written) ==
  Ex(up, "RoundRobinPartitioning", "REPARTITION_BY_NUM", count, 20, written)

SMJ(up) == Op("SortMergeJoin", up)
BHJ(up) == Op("BroadcastHashJoin", up)
Bcast(up) == Op(BROADCAST, up)
Other(up) == Op("Project", up)

(* The sample jobs: a grouping and a join over rows spread by hand.         *)
Grouped == <<Other(0), Ex(1, KEY_HASH, "REPARTITION_BY_NUM", 8, 20, 13), ByNumber(2, 8, 6)>>
Joined == <<SMJ(0), Hash(1, 20, 13), ByNumber(2, 8, 6), Hash(1, 3, 1)>>
ByColumn == <<Other(0), Ex(1, KEY_HASH, "REPARTITION_BY_COL", 0, 20, 13)>>
Rebalanced == <<Other(0), Ex(1, "RoundRobinPartitioning", "REBALANCE_PARTITIONS_BY_NONE", 0, 20, 13)>>

(* One side writes nothing, or as much as the other.                        *)
EmptySide == <<SMJ(0), Hash(1, 20, 13), Hash(1, 3, 0)>>
Twins == <<SMJ(0), Hash(1, 20, 5), Hash(1, 3, 5)>>

(* Two exchanges for the same stage, one of them round robin.               *)
Mixed == <<SMJ(0), Hash(1, 20, 13),
           Ex(1, "RoundRobinPartitioning", "REPARTITION_BY_COL", 0, 3, 1)>>

(* A global count over a join; a join of joins, with and without an         *)
(* exchange in between; a side broadcast after it was grouped.              *)
Global == <<Other(0), Ex(1, "SinglePartition", "ENSURE_REQUIREMENTS", 0, 2, 2),
            SMJ(2), Hash(3, 20, 13), Hash(3, 3, 1)>>
Chained == <<SMJ(0), Hash(1, 20, 9), SMJ(2), Hash(3, 20, 13), Hash(3, 3, 1), Hash(1, 5, 2)>>
Shared == <<SMJ(0), SMJ(1), Hash(2, 3, 1), Hash(2, 20, 13), Hash(1, 5, 2)>>
Broadcasted == <<BHJ(0), Hash(1, 20, 13), Bcast(1), Hash(3, 3, 1)>>

MCQueries == {Grouped, Joined, ByColumn, Rebalanced, EmptySide, Twins, Mixed, Global,
              Chained, Shared, Broadcasted}
=============================================================================
