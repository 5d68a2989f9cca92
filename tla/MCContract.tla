------------------------------ MODULE MCContract ------------------------------
(* Two captures of a two line log, beside one command or a checked registry.*)
EXTENDS Contract

TwoEvents == <<"start", "task">>
Events == {"start", "task"}

Read(does) == [effect |-> READ, probe |-> TRUE, does |-> does]
Undrivable == [effect |-> READ, probe |-> FALSE, does |-> "inventory"]
Writes == [effect |-> WRITE, probe |-> FALSE, does |-> "plants"]

Nothing == [n \in {} |-> None]
Notes == [n \in {README} |-> <<TEXT>>]
Junk == [n \in {README} |-> <<ALIEN>>]

CONSTANTS c1, c2

Alone(does, files) ==
  [checked |-> FALSE, files |-> files, registry |-> <<Read(does)>>, captures |-> {c1, c2}]
Checked(registry) ==
  [checked |-> TRUE, files |-> Notes, registry |-> registry, captures |-> {c1}]

MCScenarios ==
  {Alone("inventory", Nothing), Alone("inventory", Notes),
   Alone("inventory", Junk), Alone("profile", Notes)}
  \cup {Checked(<<Read("nests"), Read("inventory")>>),
        Checked(<<Read("rewrites"), Writes, Read("restores")>>),
        Checked(<<Read("profile"), Read("plants")>>),
        Checked(<<Read("inventory"), Undrivable>>)}
=============================================================================
