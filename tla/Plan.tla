-------------------------------- MODULE Plan --------------------------------
(***************************************************************************)
(* src/sjp/plan.py: a physical plan, its exchanges and joins, the exchange *)
(* that fed each side of a join, and who chose an exchange's partition     *)
(* count.                                                                  *)
(*                                                                         *)
(* A plan is a sequence of nodes numbered the way walk() meets them, so    *)
(* parents come before children and "the first" of some nodes is the least *)
(* number.  A node is a record of its operator `op`, its parent `up` (0    *)
(* for the root) and what the text of an exchange says: scheme, origin and *)
(* declared count.  Taking that text apart is left out.                    *)
(***************************************************************************)
EXTENDS Naturals, Sequences, FiniteSets

CONSTANT None      \* Python's None

EXCHANGE == "Exchange"
BROADCAST == "BroadcastExchange"      \* not one of EXCHANGE's nodes: == is exact
JoinNames == {"SortMergeJoin", "BroadcastHashJoin"}

IsExchange(node) == node.op = EXCHANGE
IsJoin(node) == node.op \in JoinNames

CONFIG == "config"
QUERY == "query"
UNRECOGNISED == "unrecognised"

ConfigDecided == {"ENSURE_REQUIREMENTS", "REPARTITION_BY_COL"}
QueryDecided == {"REPARTITION_BY_NUM"}

OriginKind(origin) ==
  CASE origin \in ConfigDecided -> CONFIG
    [] origin \in QueryDecided -> QUERY
    [] OTHER -> UNRECOGNISED

-----------------------------------------------------------------------------
(* Every node, with the nodes above it and itself.                         *)
Above(tree) ==
  LET above[n \in DOMAIN tree] ==
        {n} \cup (IF tree[n].up = 0 THEN {} ELSE above[tree[n].up])
  IN above

Walk(tree, n) == {m \in DOMAIN tree : n \in Above(tree)[m]}

First(nodes) == CHOOSE n \in nodes : \A m \in nodes : n <= m

Exchanges(tree) == {n \in DOMAIN tree : IsExchange(tree[n])}
Joins(tree) == {n \in DOMAIN tree : IsJoin(tree[n])}

(* Slip: the exchange furthest down rather than the first one met.         *)
FeedingExchangeLast(tree, n) ==
  LET found == Walk(tree, n) \cap Exchanges(tree)
  IN IF found = {} THEN None ELSE CHOOSE e \in found : \A f \in found : f <= e

FeedingExchange(tree, n) ==
  LET found == Walk(tree, n) \cap Exchanges(tree)
  IN IF found = {} THEN None ELSE First(found)

(* The two children of a join; what fed one is FeedingExchange of it.      *)
Sides(tree, join) == {n \in DOMAIN tree : tree[n].up = join}
=============================================================================
