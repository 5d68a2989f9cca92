---------------------------- MODULE MCSkewGrowth ----------------------------
EXTENDS SkewGrowth
MCKinds == <<"bytes">>
MCQuantities == <<"memory_spilled">>
MCKindOf == [m \in {"memory_spilled"} |-> "bytes"]
MCFloors == [k \in {"bytes"} |-> 2]
MCValues == {-1, 0, 1, 2, 5, 9}
Four == [num |-> 4, den |-> 1]
=============================================================================
