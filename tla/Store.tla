-------------------------------- MODULE Store --------------------------------
(***************************************************************************)
(* The store sjp reads, a directory of event logs, and the captures that   *)
(* fill it: jobs/sample.py's run, one process each.  A capture lists the   *)
(* directory, starts a Spark session that writes <application>.inprogress, *)
(* runs its job, stops the session, which renames the log, and lists the   *)
(* directory again to tell its own log from the rest.                      *)
(*                                                                         *)
(* A name is a number, in the order the names sort: README.md first, then  *)
(* what a command may have left, then the logs by age, each one's final    *)
(* name just before its .inprogress one.  A file is the sequence of its    *)
(* lines, each the name of its event, or a line that is not one.           *)
(***************************************************************************)
EXTENDS Naturals, Sequences, FiniteSets

CONSTANTS
  Captures,     \* capture processes
  Script,       \* the events of a whole application, in order
  None,         \* no path, no answer, not a file
  MaxDeaths     \* captures that die or whose job raises

HALF == "half a line"         \* Spark flushed in the middle of one
TEXT == "text"                \* a line that is not JSON
ALIEN == "alien"              \* not UTF-8, or JSON that is no object

ASSUME StoreAssumption ==
  /\ Script \in Seq(STRING \ {HALF, TEXT, ALIEN}) /\ Script # <<>>
  /\ None \notin Nat
  /\ MaxDeaths \in Nat

README == 0
PLANTED == 1
NESTED == 2
Final(n) == 2 * n + 1
InProgress(n) == 2 * n + 2

VARIABLES
  store,      \* [name -> lines], None for the lines of a directory
  capture,    \* [Captures -> [pc, before, log, path]]
  opened,     \* the sessions started: they name their logs in order
  deaths

storeVars == <<store, capture, opened, deaths>>

Put(files, name, lines) ==
  [m \in DOMAIN files \cup {name} |-> IF m = name THEN lines ELSE files[m]]
Drop(files, name) == [m \in DOMAIN files \ {name} |-> files[m]]

StoreInit ==
  /\ capture = [c \in Captures |-> [pc |-> "idle", before |-> {}, log |-> 0, path |-> None]]
  /\ opened = 0
  /\ deaths = 0

-----------------------------------------------------------------------------
(* run: the names there before.                                            *)
Before(c) ==
  /\ capture[c].pc = "idle"
  /\ capture' = [capture EXCEPT ![c].pc = "session", ![c].before = DOMAIN store]
  /\ UNCHANGED <<store, opened, deaths>>

(* _session: Spark opens the log when its context starts.                  *)
OpenLog(c) ==
  /\ capture[c].pc = "session"
  /\ opened' = opened + 1
  /\ capture' = [capture EXCEPT ![c].pc = "job", ![c].log = opened + 1]
  /\ store' = Put(store, InProgress(opened + 1), <<>>)
  /\ UNCHANGED deaths

Lines(c) == store[InProgress(capture[c].log)]
Torn(lines) == lines # <<>> /\ lines[Len(lines)] = HALF
Written(lines) == IF Torn(lines) THEN Len(lines) - 1 ELSE Len(lines)

(* Spark writes the next event, or a part of it.                           *)
WriteLine(c) ==
  /\ capture[c].pc = "job"
  /\ Written(Lines(c)) < Len(Script)
  /\ \/ store' = Put(store, InProgress(capture[c].log),
                     SubSeq(Script, 1, Written(Lines(c)) + 1))
     \/ /\ ~Torn(Lines(c))
        /\ store' = Put(store, InProgress(capture[c].log), Append(Lines(c), HALF))
  /\ UNCHANGED <<capture, opened, deaths>>

(* spark.stop() in the finally: everything is flushed, the log renamed.    *)
Renamed(c) ==
  Put(Drop(store, InProgress(capture[c].log)), Final(capture[c].log), Lines(c))

StopSession(c) ==
  /\ capture[c].pc = "job"
  /\ Lines(c) = Script
  /\ store' = Renamed(c)
  /\ capture' = [capture EXCEPT ![c].pc = "stopped"]
  /\ UNCHANGED <<opened, deaths>>

(* The job raised: the session is stopped all the same, and run raises.    *)
JobRaises(c) ==
  /\ deaths < MaxDeaths
  /\ capture[c].pc = "job"
  /\ ~Torn(Lines(c))
  /\ store' = Renamed(c)
  /\ capture' = [capture EXCEPT ![c].pc = "failed", ![c].before = {}]
  /\ deaths' = deaths + 1
  /\ UNCHANGED opened

(* The process is killed and its log stays as it is.                       *)
Die(c) ==
  /\ deaths < MaxDeaths
  /\ capture[c].pc \in {"session", "job", "stopped"}
  /\ capture' = [capture EXCEPT ![c].pc = "failed", ![c].before = {}]
  /\ deaths' = deaths + 1
  /\ UNCHANGED <<store, opened>>

Fresh(c) == DOMAIN store \ capture[c].before

Latest(names) == CHOOSE n \in names : \A m \in names : m <= n
Earliest(names) == CHOOSE n \in names : \A m \in names : n <= m

(* Slip: the first of the new names.                                       *)
TakenFirst(names) == Earliest(names)

(* sorted(after - before)[-1]                                              *)
Taken(names) == Latest(names)

(* The names there after; with none new it raises.                         *)
Return(c) ==
  /\ capture[c].pc = "stopped"
  /\ capture' = IF Fresh(c) = {} THEN [capture EXCEPT ![c].pc = "failed"]
                ELSE [capture EXCEPT ![c].pc = "returned", ![c].before = {},
                                                ![c].path = Taken(Fresh(c))]
  /\ UNCHANGED <<store, opened, deaths>>

CaptureStep(c) ==
  \/ Before(c) \/ OpenLog(c) \/ WriteLine(c) \/ StopSession(c) \/ JobRaises(c)
  \/ Die(c) \/ Return(c)

-----------------------------------------------------------------------------
Contents == Seq({Script[i] : i \in DOMAIN Script} \cup {HALF, TEXT, ALIEN})

StoreTypeOK ==
  /\ DOMAIN store \subseteq Nat
  /\ \A m \in DOMAIN store : store[m] \in Contents \cup {None}
  /\ capture \in [Captures -> [pc : {"idle", "session", "job", "stopped", "returned", "failed"},
                               before : SUBSET Nat, log : Nat, path : Nat \cup {None}]]
  /\ opened \in Nat
  /\ deaths \in 0 .. MaxDeaths

(* sample.py:218 "return the log file it produced": the path returned is   *)
(* the capture's own finished log, unless another capture began to write   *)
(* one in the same directory later and before this one returned; then it   *)
(* may be that one's, and never an older log or a file that is none.       *)
ReturnsItsOwnOrAYounger ==
  \A c \in Captures : capture[c].pc = "returned" =>
    \/ capture[c].path = Final(capture[c].log)
    \/ \E d \in Captures :
         /\ capture[d].log > capture[c].log
         /\ capture[c].path \in {Final(capture[d].log), InProgress(capture[d].log)}
=============================================================================
