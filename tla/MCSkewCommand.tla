---------------------------- MODULE MCSkewCommand ----------------------------
(* Logs of one or two stages whose metrics take the shapes the verdict      *)
(* tells apart, and the usages that reach every branch of the command.      *)
EXTENDS SkewCommand

MCKinds == <<"count", "bytes">>
MCQuantities == <<"memory_spilled", "disk_spilled", "records_read">>
MCAlphabet == <<"disk_spilled", "memory_spilled", "records_read">>
MCKindOf ==
  [m \in {"memory_spilled", "disk_spilled", "records_read", "launch_time"} |->
     CASE m = "records_read" -> "count" [] m = "launch_time" -> "instant"
       [] OTHER -> "bytes"]
MCFloors == [k \in {"count", "bytes"} |-> 2]

Even == <<2, 2, 2>>
Hot == <<1, 9, 1>>
Idle == <<0, 9, 0>>
Still == <<0, 0, 0>>
Small == <<0, 1, 0>>
Pair == <<1, 9>>

Stage(id, memory, disk, records) ==
  [id |-> id,
   values |-> [m \in Members(MCQuantities) |->
                 CASE m = "memory_spilled" -> memory [] m = "disk_spilled" -> disk
                   [] m = "records_read" -> records]]

OneStage == {<<Stage(0, m, d, r)>> : m \in {Even, Hot, Idle, Still, Small},
                                    d \in {Hot, Idle, Still}, r \in {Even, Hot}}
TwoStages == {<<Stage(0, m, d, Even), Stage(1, n, e, Still)>> :
                m, n \in {Even, Hot, Idle}, d, e \in {Hot, Idle}}
Short == {<<Stage(0, Pair, Pair, Pair)>>, <<Stage(0, <<>>, <<>>, <<>>)>>}

MCLogs == OneStage \cup TwoStages \cup Short

Four == [num |-> 4, den |-> 1]
One == [num |-> 1, den |-> 1]

Usage(metrics, threshold, only) ==
  [metrics |-> metrics, threshold |-> threshold, only |-> only, asks |-> "answer"]

MCUsages ==
  {Usage(<<>>, Four, "all"), Usage(<<>>, Four, SKEWED), Usage(<<>>, Four, EVEN),
   Usage(<<"disk_spilled", "memory_spilled">>, Four, "all"),
   Usage(<<"disk_spilled", "launch_time", "nope">>, Four, "all"),
   Usage(<<>>, One, "all"),
   [Usage(<<>>, Four, "all") EXCEPT !.asks = "help"],
   [Usage(<<>>, Four, "all") EXCEPT !.asks = "nonsense"]}
=============================================================================
