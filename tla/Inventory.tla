------------------------------ MODULE Inventory ------------------------------
(***************************************************************************)
(* The commands that read a store while captures write into it: `sjp       *)
(* inventory`, which lists the directory and then opens each file of the   *)
(* list, and the commands that profile one log of it.  A file is opened    *)
(* and read to its end in one step: it only grows, and a rename does not   *)
(* disturb whoever has it open, so this reads what it held at that end.    *)
(***************************************************************************)
EXTENDS Store

CONSTANT Consumes     \* the events some handler of model.py is registered for

OK == 0
FOUND == 1
FAILED == 3

VARIABLES
  at,        \* "idle", or where the command is: "list", "read", "first",
             \* "profile", "answered"
  todo,      \* the names listed and not read yet
  reports,   \* [name -> report], as inventory collects them
  answer,    \* what the command returned, FAILED when it raised, None before
  held       \* the store as it was when it was listed

readerVars == <<at, todo, reports, answer, held>>

Empty == [n \in {} |-> None]

ReaderInit == at = "idle" /\ todo = {} /\ reports = Empty /\ answer = None /\ held = Empty

Files == {n \in DOMAIN store : store[n] # None}

Members(lines) == {lines[i] : i \in DOMAIN lines}

(* read_events and event_counts: what the first unreadable line raises.    *)
NotAnEventLog(lines) == lines = <<>> \/ Members(lines) \cap {HALF, TEXT} # {}

(* Slip: half a line raises json's own error.                              *)
RaisesTorn(lines) == Members(lines) \cap {HALF, ALIEN} # {}

Raises(lines) == ALIEN \in Members(lines)

Report(lines) ==
  IF NotAnEventLog(lines)
  THEN [error |-> TRUE, events |-> 0, missing |-> {}]
  ELSE [error |-> FALSE, events |-> Len(lines), missing |-> Consumes \ Members(lines)]

Answered(status) == at' = "answered" /\ answer' = status

-----------------------------------------------------------------------------
(* logs_under                                                              *)
ListLogs ==
  /\ at = "list"
  /\ at' = "read"
  /\ todo' = Files
  /\ held' = store
  /\ UNCHANGED <<reports, answer, storeVars>>

(* Slip: a file that cannot be read is passed over.                        *)
CollectReadable(name) ==
  IF NotAnEventLog(store[name]) THEN reports ELSE Put(reports, name, Report(store[name]))

Collect(name) == Put(reports, name, Report(store[name]))

(* The next file of the list.  One that was renamed since raises, and so   *)
(* does what no except clause here expects.                                *)
ReadLog ==
  /\ at = "read"
  /\ todo # {}
  /\ LET name == Earliest(todo) IN
     IF name \notin DOMAIN store
     THEN Answered(FAILED) /\ UNCHANGED <<todo, reports>>
     ELSE IF Raises(store[name])
     THEN Answered(FAILED) /\ UNCHANGED <<todo, reports>>
     ELSE /\ reports' = Collect(name)
          /\ todo' = todo \ {name}
          /\ UNCHANGED <<at, answer>>
  /\ UNCHANGED <<held, storeVars>>

Unreadable == {n \in DOMAIN reports : reports[n].error}

InventoryAnswers ==
  /\ at = "read"
  /\ todo = {}
  /\ Answered(IF reports = Empty THEN FAILED ELSE IF Unreadable # {} THEN FOUND ELSE OK)
  /\ UNCHANGED <<todo, reports, held, storeVars>>

(* _first_log: a name that is not one of a note's.                         *)
FirstLog ==
  /\ at = "first"
  /\ IF Files \ {README} = {}
     THEN Answered(FAILED) /\ UNCHANGED todo
     ELSE /\ todo' = {Earliest(Files \ {README})}
          /\ at' = "profile"
          /\ UNCHANGED answer
  /\ UNCHANGED <<reports, held, storeVars>>

(* profile and what is printed of it: a log that lacks an event some       *)
(* handler takes may be refused, or may be one that cannot be printed, and *)
(* some commands answer it.                                                *)
ProfileLog ==
  /\ at = "profile"
  /\ \E name \in todo :
       IF name \notin DOMAIN store
       THEN Answered(FAILED)
       ELSE IF Raises(store[name]) \/ NotAnEventLog(store[name])
       THEN Answered(FAILED)
       ELSE \/ \E status \in {OK, FOUND} : Answered(status)
            \/ ~(Consumes \subseteq Members(store[name])) /\ Answered(FAILED)
  /\ UNCHANGED <<todo, reports, held, storeVars>>

ReaderStep == ListLogs \/ ReadLog \/ InventoryAnswers \/ FirstLog \/ ProfileLog

-----------------------------------------------------------------------------
(* A file listed, now: under its name, or under the one it was given since.*)
Now(name) == IF name \in DOMAIN store THEN store[name] ELSE store[name - 1]

WholeEvents(lines) == Members(lines) \ {HALF}

(* What an inventory answers is true of the time it took: it has every     *)
(* file that was there when it listed the store and nothing else, counts   *)
(* no fewer events than a log had then and no more than it has now, says   *)
(* missing what the log did not have then and still did not when it was    *)
(* read, and its status says whether any could not be read.                *)
InventoryIsOfItsTime ==
  at = "answered" /\ answer \in {OK, FOUND} /\ held # Empty =>
    /\ DOMAIN reports = {n \in DOMAIN held : held[n] # None}
    /\ answer = FOUND <=> \E n \in DOMAIN reports : reports[n].error
    /\ \A n \in DOMAIN reports : ~reports[n].error =>
         /\ reports[n].events \in Written(held[n]) .. Written(Now(n))
         /\ reports[n].missing \cap WholeEvents(held[n]) = {}
         /\ Consumes \ WholeEvents(Now(n)) \subseteq reports[n].missing

(* eventlog.py:86 "Aborting would hide every log after it": a file that    *)
(* cannot be read does not end an inventory, unless it is no text at all;  *)
(* nothing else does but a log renamed between the listing and its turn,   *)
(* or a directory without files.                                           *)
AbortsOnlyForARename ==
  at = "answered" /\ answer = FAILED /\ held # Empty =>
    \/ \E n \in DOMAIN held : held[n] # None /\ ALIEN \in Members(held[n])
    \/ DOMAIN held \ DOMAIN store # {}
    \/ \A n \in DOMAIN held : held[n] = None
=============================================================================
