------------------------------ MODULE Contract ------------------------------
(***************************************************************************)
(* src/sjp/contract.py: the check that a command declared a read changes   *)
(* nothing.  Each read of the registry is run between two snapshots of the *)
(* store and named when they differ.  A snapshot lists the directory and   *)
(* then reads its files one after another, while captures go on.           *)
(*                                                                         *)
(* The same module runs one command on its own, which is `sjp <command>`.  *)
(* Besides the real reads a registry may hold ones that do what no read    *)
(* should, as the controls in tests/test_contract_checks.py do.            *)
(***************************************************************************)
EXTENDS Inventory

CONSTANT Scenarios     \* [checked, files, registry, captures]: a registry checked,
                       \* or its only command run, over the files there at first,
                       \* while these captures go on

ASSUME ScenariosAssumption ==
  \A s \in Scenarios : /\ DOMAIN s.files \subseteq {README}
                      /\ \A m \in DOMAIN s.files : s.files[m] \in Contents

READ == "read"
WRITE == "write"

VARIABLES
  scenario,
  command,     \* the registry's entry in hand, 0 before the first
  step,        \* "begin", "next", "before", "run", "after", "done", "raised", "refused"
  left,        \* names the snapshot in progress has still to read
  seen,        \* what it has read
  first,       \* the snapshot taken before the command
  guilty,      \* [entry -> names that moved], as they are found
  marks,       \* [entry -> names it changed itself], of those that are no reads
  stirred,     \* another process changed the store since `first` was begun
  excused      \* the entries whose two snapshots somebody stirred between

checkVars == <<scenario, command, step, left, seen, first, guilty, marks, stirred,
               excused>>
vars == <<storeVars, readerVars, checkVars>>

Registry == scenario.registry
Entry == Registry[command]

Init ==
  /\ scenario \in Scenarios
  /\ store = scenario.files
  /\ StoreInit /\ ReaderInit
  /\ command = 0 /\ step = "begin"
  /\ left = {} /\ seen = Empty /\ first = Empty
  /\ guilty = Empty /\ marks = Empty /\ stirred = FALSE /\ excused = {}

-----------------------------------------------------------------------------
Unprobed == {k \in DOMAIN Registry : Registry[k].effect = READ /\ ~Registry[k].probe}

Begin ==
  /\ step = "begin"
  /\ step' = IF scenario.checked /\ Unprobed # {} THEN "refused" ELSE "next"
  /\ UNCHANGED <<storeVars, readerVars, scenario, command, left, seen, first, guilty,
                 marks, stirred, excused>>

(* snapshot: the names, and None for every directory.                      *)
Walk ==
  /\ left' = Files
  /\ seen' = [n \in DOMAIN store \ Files |-> None]

(* The next command; a write is not run.                                   *)
Take ==
  /\ step = "next"
  /\ command < Len(Registry)
  /\ command' = command + 1
  /\ IF ~scenario.checked
     THEN step' = "run" /\ UNCHANGED <<left, seen>>
     ELSE IF Registry[command + 1].effect = READ
     THEN step' = "before" /\ Walk
     ELSE step' = "next" /\ UNCHANGED <<left, seen>>
  /\ stirred' = FALSE
  /\ UNCHANGED <<storeVars, readerVars, scenario, first, guilty, marks, excused>>

End ==
  /\ step = "next"
  /\ command = Len(Registry)
  /\ step' = "done"
  /\ UNCHANGED <<storeVars, readerVars, scenario, command, left, seen, first, guilty,
                 marks, stirred, excused>>

(* Slip: files are told apart by their sizes.                              *)
DigestSize(lines) == Len(lines)

Digest(lines) == lines

(* Slip: a file that is gone is tried again.                               *)
ReadFileAgain ==
  /\ step \in {"before", "after"}
  /\ \E name \in left \cap DOMAIN store :
       seen' = Put(seen, name, Digest(store[name])) /\ left' = left \ {name}
  /\ UNCHANGED <<storeVars, readerVars, scenario, command, step, first, guilty, marks,
                 stirred, excused>>

(* One file of the snapshot; one renamed since the listing raises.         *)
ReadFile ==
  /\ step \in {"before", "after"}
  /\ \E name \in left :
       IF name \in DOMAIN store
       THEN /\ seen' = Put(seen, name, Digest(store[name]))
            /\ left' = left \ {name}
            /\ UNCHANGED step
       ELSE step' = "raised" /\ UNCHANGED <<seen, left>>
  /\ UNCHANGED <<storeVars, readerVars, scenario, command, first, guilty, marks, stirred,
                 excused>>

(* Slip: one snapshot before all the commands.                             *)
KeepFirst(new) == IF first = Empty THEN new ELSE first

Keep(new) == new

Run ==
  /\ step = "before"
  /\ left = {}
  /\ first' = Keep(seen)
  /\ seen' = Empty
  /\ step' = "run"
  /\ UNCHANGED <<storeVars, readerVars, scenario, command, left, guilty, marks, stirred,
                 excused>>

(* What a command does: a real read is stepped through in Inventory.       *)
Start ==
  /\ step = "run"
  /\ at = "idle"
  /\ Entry.does \in {"inventory", "profile"}
  /\ at' = IF Entry.does = "inventory" THEN "list" ELSE "first"
  /\ UNCHANGED <<storeVars, todo, reports, answer, held, checkVars>>

Left == [plants |-> Put(store, PLANTED, <<TEXT>>),
         nests |-> Put(store, NESTED, None),
         rewrites |-> IF README \in DOMAIN store THEN Put(store, README, <<ALIEN>>) ELSE store,
         restores |-> store]

Misbehave ==
  /\ step = "run"
  /\ at = "idle"
  /\ Entry.does \in DOMAIN Left
  /\ store' = Left[Entry.does]
  /\ at' = "answered"
  /\ answer' = OK
  /\ marks' = Put(marks, command, {n \in DOMAIN store' : n \notin DOMAIN store
                                                          \/ store'[n] # store[n]})
  /\ UNCHANGED <<capture, opened, deaths, todo, reports, held, scenario, command, step,
                 left, seen, first, guilty, stirred, excused>>

(* The command is over.  What it raised goes through main for a command on *)
(* its own, and out of the check otherwise.                                *)
Over ==
  /\ step = "run"
  /\ at = "answered"
  /\ at' = "idle" /\ todo' = {} /\ reports' = Empty /\ answer' = None /\ held' = Empty
  /\ first' = IF scenario.checked /\ answer = FAILED THEN Empty ELSE first
  /\ IF ~scenario.checked
     THEN step' = "done" /\ UNCHANGED <<left, seen>>
     ELSE IF answer = FAILED
     THEN step' = "raised" /\ UNCHANGED <<left, seen>>
     ELSE step' = "after" /\ Walk
  /\ UNCHANGED <<storeVars, scenario, command, guilty, marks, stirred, excused>>

(* Slip: only names that came or went.                                     *)
DifferencesOfNames(before, after) ==
  (DOMAIN before \ DOMAIN after) \cup (DOMAIN after \ DOMAIN before)

Differences(before, after) ==
  {n \in DOMAIN before \cup DOMAIN after :
     n \notin DOMAIN before \cap DOMAIN after \/ before[n] # after[n]}

Compare ==
  /\ step = "after"
  /\ left = {}
  /\ guilty' = IF Differences(first, seen) = {} THEN guilty
               ELSE Put(guilty, command, Differences(first, seen))
  /\ excused' = IF stirred THEN excused \cup {command} ELSE excused
  /\ seen' = Empty
  /\ step' = "next"
  /\ UNCHANGED <<storeVars, readerVars, scenario, command, left, first, marks, stirred>>

Check == Begin \/ Take \/ End \/ ReadFile \/ Run \/ Start \/ Misbehave \/ Over \/ Compare

Writer(c) ==
  /\ c \in scenario.captures
  /\ CaptureStep(c)
  /\ stirred' = (stirred \/ (scenario.checked /\ step \in {"before", "run", "after"}
                             /\ store' # store))
  /\ UNCHANGED <<readerVars, scenario, command, step, left, seen, first, guilty, marks,
                 excused>>

Next ==
  \/ \E c \in Captures : Writer(c)
  \/ ReaderStep /\ UNCHANGED checkVars
  \/ Check

Spec == Init /\ [][Next]_vars

FairSpec == Spec /\ WF_vars(Check \/ (ReaderStep /\ UNCHANGED checkVars))

-----------------------------------------------------------------------------
(* contract.py:41 "return the names that changed it".  Every command that  *)
(* was graded and changed something is named, for what it changed, whatever*)
(* captures did meanwhile; and one that changed nothing is named only if   *)
(* the store was changed by somebody else between its own two snapshots.   *)
Trace(k) == IF k \in DOMAIN marks THEN marks[k] ELSE {}

Graded == {k \in 1 .. command : /\ Registry[k].effect = READ
                                /\ k < command \/ step \in {"next", "done"}}

NamedForATrace ==
  scenario.checked =>
    \A k \in Graded :
      /\ Trace(k) # {} => k \in DOMAIN guilty /\ Trace(k) \subseteq guilty[k]
      /\ k \in DOMAIN guilty => Trace(k) # {} \/ k \in excused

(* The check and the command come to an end, however captures write.       *)
Ends == <>(step \in {"done", "raised", "refused"})
=============================================================================
