----------------------------- MODULE StoreProofs -----------------------------
(***************************************************************************)
(* What is proved of captures in a store, for any number of them, beside   *)
(* any command or check.                                                   *)
(***************************************************************************)
EXTENDS Contract, Counting

-----------------------------------------------------------------------------
(* Facts about names.                                                      *)

(* A bounded set of naturals has a largest, so sorted(...)[-1] is there.   *)
LEMMA LatestOfBounded ==
  ASSUME NEW S \in SUBSET Nat, S # {}, NEW b \in Nat, \A m \in S : m <= b
  PROVE  Latest(S) \in S /\ \A m \in S : m <= Latest(S)
BY HasLargest DEF Latest

-----------------------------------------------------------------------------
(* The invariant.                                                          *)

Pcs == {"idle", "session", "job", "stopped", "returned", "failed"}

LogNames == {Final(n) : n \in 1 .. opened} \cup {InProgress(n) : n \in 1 .. opened}

(* What the directory may hold: no name of a log not yet begun.            *)
NamesKnown == DOMAIN store \subseteq {README, PLANTED, NESTED} \cup LogNames

(* Logs are named in the order they are begun, one for each session.       *)
OneOwnerEach ==
  /\ \A n \in 1 .. opened : \E c \in Captures : capture[c].log = n
  /\ \A c, d \in Captures : capture[c].log = capture[d].log /\ capture[c].log # 0 => c = d

(* What a capture has in the directory, and what it found there.           *)
OldThen(c) ==
  /\ capture[c].pc \in {"idle", "session"} => capture[c].log = 0
  /\ capture[c].pc \in {"job", "stopped", "returned"} => capture[c].log # 0
  /\ capture[c].log \in 0 .. opened
  /\ capture[c].pc = "session" => \A m \in capture[c].before : m < Final(opened + 1)
  /\ capture[c].pc \in {"job", "stopped"} =>
       \A m \in capture[c].before : m < Final(capture[c].log)

HoldsItsLog(c) ==
  /\ capture[c].pc = "job" => /\ InProgress(capture[c].log) \in DOMAIN store
                              /\ Lines(c) \in Contents
  /\ capture[c].pc = "stopped" => /\ Final(capture[c].log) \in DOMAIN store
                                  /\ InProgress(capture[c].log) \notin DOMAIN store

IInv ==
  /\ StoreTypeOK
  /\ NamesKnown
  /\ OneOwnerEach
  /\ \A c \in Captures : OldThen(c) /\ HoldsItsLog(c)
  /\ ReturnsItsOwnOrAYounger

-----------------------------------------------------------------------------
(* What a file may hold.                                                   *)

LEMMA ContentsClosed ==
  /\ <<>> \in Contents /\ <<TEXT>> \in Contents /\ <<ALIEN>> \in Contents
  /\ \A k \in 0 .. Len(Script) : SubSeq(Script, 1, k) \in Contents
  /\ \A lines \in Contents : /\ Append(lines, HALF) \in Contents
                             /\ Len(lines) \in Nat
<1> DEFINE Lexicon == {Script[i] : i \in DOMAIN Script} \cup {HALF, TEXT, ALIEN}
<1>1. \A k \in 0 .. Len(Script) : SubSeq(Script, 1, k) \in Seq(Lexicon)
  <2>1. TAKE k \in 0 .. Len(Script)
  <2>2. Script \in Seq(STRING) /\ Len(Script) \in Nat /\ DOMAIN Script = 1 .. Len(Script)
    BY StoreAssumption
  <2>3. SubSeq(Script, 1, k) = [i \in 1 .. k |-> Script[i]]
    BY <2>2
  <2>4. \A i \in 1 .. k : Script[i] \in Lexicon
    BY <2>2
  <2> QED  BY <2>2, <2>3, <2>4
<1>2. <<>> \in Seq(Lexicon) /\ <<TEXT>> \in Seq(Lexicon) /\ <<ALIEN>> \in Seq(Lexicon)
  OBVIOUS
<1>3. \A lines \in Seq(Lexicon) : Append(lines, HALF) \in Seq(Lexicon) /\ Len(lines) \in Nat
  OBVIOUS
<1> QED  BY <1>1, <1>2, <1>3 DEF Contents

FilesOK(files) ==
  /\ DOMAIN files \subseteq Nat
  /\ \A m \in DOMAIN files : files[m] \in Contents \cup {None}

(* After is files with lines under a name.                                 *)
WrittenUnder(after, files, name, lines) ==
  /\ FilesOK(after)
  /\ DOMAIN after = DOMAIN files \cup {name}
  /\ after[name] = lines
  /\ \A m \in DOMAIN files \ {name} : after[m] = files[m]

LEMMA PutIsFiles ==
  ASSUME NEW files, FilesOK(files), NEW name \in Nat, NEW lines \in Contents \cup {None}
  PROVE  WrittenUnder(Put(files, name, lines), files, name, lines)
BY DEF FilesOK, Put, WrittenUnder

LEMMA DropIsFiles ==
  ASSUME NEW files, FilesOK(files), NEW name
  PROVE  /\ FilesOK(Drop(files, name))
         /\ DOMAIN Drop(files, name) = DOMAIN files \ {name}
         /\ \A m \in DOMAIN files \ {name} : Drop(files, name)[m] = files[m]
BY DEF FilesOK, Drop

(* The final name and the other of a log are its own.                      *)
LEMMA NamesApart ==
  /\ \A n \in Nat : /\ Final(n) \in Nat /\ InProgress(n) \in Nat
                    /\ Final(n) < InProgress(n)
                    /\ n # 0 => Final(n) \notin {README, PLANTED, NESTED}
                    /\ n # 0 => InProgress(n) \notin {README, PLANTED, NESTED}
  /\ \A m, n \in Nat : /\ Final(m) # InProgress(n)
                       /\ Final(m) = Final(n) => m = n
                       /\ InProgress(m) = InProgress(n) => m = n
                       /\ m < n => InProgress(m) < Final(n)
BY DEF Final, InProgress, README, PLANTED, NESTED

-----------------------------------------------------------------------------
(* Every step that changes the directory leaves alone what the captures it *)
(* is not about hold in it.                                                *)

LEMMA StoreIsFiles == StoreTypeOK => FilesOK(store)
BY DEF StoreTypeOK, FilesOK

LEMMA InitHolds == Init => IInv
<1> SUFFICES ASSUME Init PROVE IInv  OBVIOUS
<1>1. StoreTypeOK
  BY ScenariosAssumption, StoreAssumption DEF Init, StoreInit, StoreTypeOK, README
<1>2. NamesKnown
  BY ScenariosAssumption DEF Init, NamesKnown
<1>3. OneOwnerEach
  BY DEF Init, StoreInit, OneOwnerEach
<1>4. \A c \in Captures : OldThen(c) /\ HoldsItsLog(c)
  BY DEF Init, StoreInit, OldThen, HoldsItsLog
<1>5. ReturnsItsOwnOrAYounger
  BY DEF Init, StoreInit, ReturnsItsOwnOrAYounger
<1> QED  BY <1>1, <1>2, <1>3, <1>4, <1>5 DEF IInv

(* A command or a check touches no log: at most it leaves a file or a      *)
(* directory of its own, or rewrites the notes.                            *)
LEMMA OtherStepHolds ==
  ASSUME IInv, capture' = capture, opened' = opened, deaths' = deaths,
         FilesOK(store'),
         DOMAIN store \subseteq DOMAIN store',
         DOMAIN store' \subseteq DOMAIN store \cup {README, PLANTED, NESTED},
         \A m \in DOMAIN store \ {README, PLANTED, NESTED} : store'[m] = store[m]
  PROVE  IInv'
<1>1. StoreTypeOK'
  BY DEF IInv, StoreTypeOK, FilesOK
<1>2. NamesKnown'
  BY DEF IInv, NamesKnown, LogNames
<1>3. OneOwnerEach'
  BY DEF IInv, OneOwnerEach
<1>4. ASSUME NEW c \in Captures PROVE OldThen(c)' /\ HoldsItsLog(c)'
  <2>1. OldThen(c)'
    BY DEF IInv, OldThen
  <2>2. capture[c].log \in Nat /\ (capture[c].pc \in {"job", "stopped"} => capture[c].log # 0)
    BY DEF IInv, StoreTypeOK, OldThen
  <2>3. HoldsItsLog(c)'
    BY <2>2, NamesApart DEF IInv, HoldsItsLog, Lines
  <2> QED  BY <2>1, <2>3
<1>5. ReturnsItsOwnOrAYounger'
  BY DEF IInv, ReturnsItsOwnOrAYounger
<1> QED  BY <1>1, <1>2, <1>3, <1>4, <1>5 DEF IInv

-----------------------------------------------------------------------------
(* One lemma for each step of a capture.                                   *)

(* What the invariant says of one capture.                                 *)
LEMMA OfACapture ==
  ASSUME IInv, NEW c \in Captures
  PROVE  /\ capture[c].pc \in Pcs
         /\ capture[c].log \in Nat /\ capture[c].log <= opened
         /\ capture[c].before \in SUBSET Nat
         /\ capture[c].path \in Nat \cup {None}
         /\ opened \in Nat /\ deaths \in 0 .. MaxDeaths
         /\ OldThen(c) /\ HoldsItsLog(c)
BY DEF IInv, StoreTypeOK, OldThen, Pcs

(* Two captures have two logs.                                             *)
LEMMA TwoLogs ==
  ASSUME IInv, NEW c \in Captures, NEW d \in Captures, c # d, capture[c].log # 0
  PROVE  capture[d].log # capture[c].log
BY DEF IInv, OneOwnerEach

(* The names of a store come before those of a log not yet begun.          *)
LEMMA NothingNewYet ==
  ASSUME IInv
  PROVE  \A m \in DOMAIN store : m \in Nat /\ m < Final(opened + 1)
<1> SUFFICES ASSUME NEW m \in DOMAIN store PROVE m \in Nat /\ m < Final(opened + 1)
  OBVIOUS
<1>1. opened \in Nat /\ m \in Nat  BY DEF IInv, StoreTypeOK
<1>2. m \in {README, PLANTED, NESTED} \cup LogNames  BY DEF IInv, NamesKnown
<1>3. CASE m \in {README, PLANTED, NESTED}
  BY <1>1, <1>3 DEF README, PLANTED, NESTED, Final
<1>4. CASE m \in LogNames
  <2>1. PICK n \in 1 .. opened : m = Final(n) \/ m = InProgress(n)
    BY <1>4 DEF LogNames
  <2> QED  BY <1>1, <2>1 DEF Final, InProgress
<1> QED  BY <1>2, <1>3, <1>4

LEMMA BeforeHolds ==
  ASSUME IInv, NEW c \in Captures, Before(c)
  PROVE  IInv'
<1>0. /\ capture[c].pc = "idle" /\ capture[c].log = 0
      /\ capture'[c].pc = "session" /\ capture'[c].before = DOMAIN store
      /\ capture'[c].log = 0 /\ store' = store /\ opened' = opened /\ deaths' = deaths
      /\ \A d \in Captures : /\ d # c => capture'[d] = capture[d]
                             /\ capture'[d].log = capture[d].log
                             /\ capture'[d].path = capture[d].path
  BY DEF Before, IInv, StoreTypeOK, OldThen
<1>1. StoreTypeOK'
  BY <1>0 DEF Before, IInv, StoreTypeOK
<1>2. NamesKnown'
  BY <1>0 DEF IInv, NamesKnown, LogNames
<1>3. OneOwnerEach'
  BY <1>0 DEF IInv, OneOwnerEach
<1>4. ASSUME NEW d \in Captures PROVE OldThen(d)' /\ HoldsItsLog(d)'
  <2>1. CASE d = c
    BY <1>0, <2>1, NothingNewYet, OfACapture DEF OldThen, HoldsItsLog
  <2>2. CASE d # c
    BY <1>0, <2>2, OfACapture DEF OldThen, HoldsItsLog, Lines
  <2> QED  BY <2>1, <2>2
<1>5. ReturnsItsOwnOrAYounger'
  BY <1>0 DEF IInv, ReturnsItsOwnOrAYounger
<1> QED  BY <1>1, <1>2, <1>3, <1>4, <1>5 DEF IInv

LEMMA OpenLogHolds ==
  ASSUME IInv, NEW c \in Captures, OpenLog(c)
  PROVE  IInv'
<1> DEFINE n == opened + 1
<1>0. /\ capture[c].pc = "session" /\ capture[c].log = 0
      /\ capture'[c].pc = "job" /\ capture'[c].before = capture[c].before
      /\ capture'[c].log = n /\ opened' = n /\ deaths' = deaths
      /\ \A d \in Captures : /\ d # c => capture'[d] = capture[d]
                             /\ capture'[d].path = capture[d].path
      /\ opened \in Nat /\ n \in Nat /\ n # 0
      /\ store' = Put(store, InProgress(n), <<>>)
  BY DEF OpenLog, IInv, StoreTypeOK, OldThen
<1>a. /\ FilesOK(store')
      /\ DOMAIN store' = DOMAIN store \cup {InProgress(n)}
      /\ store'[InProgress(n)] = <<>> /\ <<>> \in Contents
      /\ \A m \in DOMAIN store \ {InProgress(n)} : store'[m] = store[m]
  <2>1. FilesOK(store)  BY StoreIsFiles DEF IInv
  <2>2. InProgress(n) \in Nat  BY <1>0, NamesApart
  <2>3. <<>> \in Contents /\ <<>> \in Contents \cup {None}  BY ContentsClosed
  <2>4. WrittenUnder(Put(store, InProgress(n), <<>>), store, InProgress(n), <<>>)
    BY <2>1, <2>2, <2>3, PutIsFiles
  <2> QED  BY <1>0, <2>3, <2>4 DEF WrittenUnder
<1>1. StoreTypeOK'
  <2>1. capture' \in [Captures -> [pc : Pcs, before : SUBSET Nat, log : Nat,
                                   path : Nat \cup {None}]]
    BY <1>0 DEF OpenLog, IInv, StoreTypeOK, Pcs
  <2> QED  BY <1>0, <1>a, <2>1 DEF IInv, StoreTypeOK, FilesOK, Pcs
<1>2. NamesKnown'
  BY <1>0, <1>a DEF IInv, NamesKnown, LogNames
<1>3. OneOwnerEach'
  <2>1. ASSUME NEW k \in 1 .. n PROVE \E d \in Captures : capture'[d].log = k
    <3>1. CASE k = n  BY <1>0, <3>1
    <3>2. CASE k # n
      <4>1. PICK d \in Captures : capture[d].log = k
        BY <1>0, <3>2 DEF IInv, OneOwnerEach
      <4> QED  BY <1>0, <4>1
    <3> QED  BY <3>1, <3>2
  <2>2. ASSUME NEW d \in Captures, NEW e \in Captures,
               capture'[d].log = capture'[e].log, capture'[d].log # 0
        PROVE  d = e
    <3>1. \A b \in Captures : capture[b].log \in Nat /\ capture[b].log < n
      BY <1>0, OfACapture
    <3>2. CASE d # c /\ e # c
      BY <1>0, <2>2, <3>2 DEF IInv, OneOwnerEach
    <3>3. CASE d = c \/ e = c
      BY <1>0, <2>2, <3>1, <3>3
    <3> QED  BY <3>2, <3>3
  <2> QED  BY <1>0, <2>1, <2>2 DEF OneOwnerEach
<1>4. ASSUME NEW d \in Captures PROVE OldThen(d)' /\ HoldsItsLog(d)'
  <2>1. CASE d = c
    <3>1. OldThen(c)'
      BY <1>0, OfACapture DEF OldThen
    <3>2. HoldsItsLog(c)'
      BY <1>0, <1>a DEF HoldsItsLog, Lines
    <3> QED  BY <2>1, <3>1, <3>2
  <2>2. CASE d # c
    <3>1. /\ capture'[d] = capture[d] /\ capture[d].log \in Nat /\ capture[d].log < n
          /\ OldThen(d) /\ HoldsItsLog(d) /\ capture[d].before \subseteq Nat
      BY <1>0, <2>2, OfACapture
    <3>2. Final(n) < Final(n + 1) /\ Final(n) \in Nat /\ Final(n + 1) \in Nat
      BY <1>0 DEF Final
    <3>3. OldThen(d)'
      BY <1>0, <3>1, <3>2 DEF OldThen
    <3>4. InProgress(capture[d].log) # InProgress(n)
      BY <1>0, <3>1 DEF InProgress
    <3>5. HoldsItsLog(d)'
      BY <1>0, <1>a, <3>1, <3>4 DEF HoldsItsLog, Lines
    <3> QED  BY <3>3, <3>5
  <2> QED  BY <2>1, <2>2
<1>5. ReturnsItsOwnOrAYounger'
  <2> SUFFICES ASSUME NEW d \in Captures, capture'[d].pc = "returned"
               PROVE  \/ capture'[d].path = Final(capture'[d].log)
                      \/ \E e \in Captures :
                           /\ capture'[e].log > capture'[d].log
                           /\ capture'[d].path \in {Final(capture'[e].log),
                                                    InProgress(capture'[e].log)}
    BY DEF ReturnsItsOwnOrAYounger
  <2>1. d # c /\ capture'[d] = capture[d]  BY <1>0
  <2>2. CASE capture[d].path = Final(capture[d].log)  BY <2>1, <2>2
  <2>3. CASE capture[d].path # Final(capture[d].log)
    <3>1. PICK e \in Captures :
            /\ capture[e].log > capture[d].log
            /\ capture[d].path \in {Final(capture[e].log), InProgress(capture[e].log)}
      BY <2>1, <2>3 DEF IInv, ReturnsItsOwnOrAYounger
    <3>2. e # c  BY <1>0, <3>1, OfACapture
    <3>3. capture'[e] = capture[e]  BY <1>0, <3>2
    <3> QED  BY <2>1, <3>1, <3>3
  <2> QED  BY <2>2, <2>3
<1> QED  BY <1>1, <1>2, <1>3, <1>4, <1>5 DEF IInv

(* The steps of a capture that touch only its own log in the directory,    *)
(* and leave every other capture as it was.                                *)
LEMMA OwnLogHolds ==
  ASSUME IInv, NEW c \in Captures,
         capture[c].log # 0,
         FilesOK(store'),
         DOMAIN store' \subseteq DOMAIN store \cup {Final(capture[c].log),
                                                   InProgress(capture[c].log)},
         \A m \in DOMAIN store \ {Final(capture[c].log), InProgress(capture[c].log)} :
            m \in DOMAIN store' /\ store'[m] = store[m],
         opened' = opened, deaths' \in 0 .. MaxDeaths,
         capture' \in [Captures -> [pc : Pcs, before : SUBSET Nat, log : Nat,
                                    path : Nat \cup {None}]],
         \A d \in Captures : d # c => capture'[d] = capture[d],
         capture'[c].log = capture[c].log,
         capture'[c].pc \in {"job", "stopped"} =>
            /\ capture[c].pc \in {"job", "stopped"}
            /\ capture'[c].before = capture[c].before,
         capture'[c].pc \notin {"idle", "session", "returned"},
         HoldsItsLog(c)'
  PROVE  IInv'
<1> DEFINE l == capture[c].log
<1>0. l \in Nat /\ l # 0 /\ l <= opened /\ opened \in Nat
  BY OfACapture
<1>1. StoreTypeOK'
  BY DEF IInv, StoreTypeOK, FilesOK, Pcs
<1>2. NamesKnown'
  <2>1. {Final(l), InProgress(l)} \subseteq LogNames  BY <1>0 DEF LogNames
  <2>2. LogNames' = LogNames  BY DEF LogNames
  <2> QED  BY <2>1, <2>2 DEF IInv, NamesKnown
<1>3. \A d \in Captures : capture'[d].log = capture[d].log
  OBVIOUS
<1>4. OneOwnerEach'
  BY <1>3 DEF IInv, OneOwnerEach
<1>5. ASSUME NEW d \in Captures PROVE OldThen(d)' /\ HoldsItsLog(d)'
  <2>1. CASE d = c
    <3>1. OldThen(c)'
      BY <1>0, OfACapture DEF OldThen
    <3> QED  BY <2>1, <3>1
  <2>2. CASE d # c
    <3>1. /\ capture'[d] = capture[d] /\ OldThen(d) /\ HoldsItsLog(d)
          /\ capture[d].log \in Nat /\ capture[d].log # l
      BY <2>2, OfACapture, TwoLogs
    <3>2. /\ InProgress(capture[d].log) \notin {Final(l), InProgress(l)}
          /\ Final(capture[d].log) \notin {Final(l), InProgress(l)}
      BY <1>0, <3>1 DEF Final, InProgress
    <3>3. OldThen(d)'
      BY <3>1 DEF OldThen
    <3>4. HoldsItsLog(d)'
      BY <3>1, <3>2 DEF HoldsItsLog, Lines
    <3> QED  BY <3>3, <3>4
  <2> QED  BY <2>1, <2>2
<1>6. ReturnsItsOwnOrAYounger'
  BY <1>3 DEF IInv, ReturnsItsOwnOrAYounger
<1> QED  BY <1>1, <1>2, <1>4, <1>5, <1>6 DEF IInv

LEMMA WriteLineHolds ==
  ASSUME IInv, NEW c \in Captures, WriteLine(c)
  PROVE  IInv'
<1> DEFINE name == InProgress(capture[c].log)
<1>0. /\ capture[c].pc = "job" /\ capture[c].log # 0 /\ capture[c].log \in Nat
      /\ name \in DOMAIN store /\ name \in Nat /\ Lines(c) \in Contents
      /\ capture' = capture /\ opened' = opened /\ deaths' = deaths
      /\ FilesOK(store)
  BY OfACapture, StoreIsFiles, NamesApart DEF IInv, WriteLine, OldThen, HoldsItsLog
<1>1. PICK lines \in Contents : store' = Put(store, name, lines)
  <2>1. CASE store' = Put(store, name, SubSeq(Script, 1, Written(Lines(c)) + 1))
    <3>1. Len(Lines(c)) \in Nat /\ Len(Script) \in Nat
      BY <1>0, ContentsClosed, StoreAssumption
    <3>2. Torn(Lines(c)) => Len(Lines(c)) > 0
      BY <1>0 DEF Torn, Contents
    <3>3. Written(Lines(c)) + 1 \in 0 .. Len(Script)
      BY <3>1, <3>2 DEF Written, WriteLine
    <3>4. SubSeq(Script, 1, Written(Lines(c)) + 1) \in Contents
      BY <3>3, ContentsClosed
    <3> QED  BY <2>1, <3>4
  <2>2. CASE store' = Put(store, name, Append(Lines(c), HALF))
    BY <1>0, <2>2, ContentsClosed
  <2> QED  BY <2>1, <2>2 DEF WriteLine
<1>2. /\ FilesOK(store') /\ DOMAIN store' = DOMAIN store \cup {name}
      /\ store'[name] = lines
      /\ \A m \in DOMAIN store \ {name} : store'[m] = store[m]
  <2>0. lines \in Contents \cup {None}  OBVIOUS
  <2>1. WrittenUnder(Put(store, name, lines), store, name, lines)
    BY <1>0, <2>0, PutIsFiles
  <2> QED  BY <1>1, <2>1 DEF WrittenUnder
<1>3. HoldsItsLog(c)'
  BY <1>0, <1>1, <1>2 DEF HoldsItsLog, Lines
<1>4. capture \in [Captures -> [pc : Pcs, before : SUBSET Nat, log : Nat,
                                path : Nat \cup {None}]]
  BY DEF IInv, StoreTypeOK, Pcs
<1>5. deaths \in 0 .. MaxDeaths  BY DEF IInv, StoreTypeOK
<1> HIDE DEF name
<1>6. DOMAIN store' \subseteq DOMAIN store \cup {Final(capture[c].log),
                                                 InProgress(capture[c].log)}
  BY <1>2 DEF name
<1>7. \A m \in DOMAIN store \ {Final(capture[c].log), InProgress(capture[c].log)} :
         m \in DOMAIN store' /\ store'[m] = store[m]
  BY <1>2 DEF name
<1> QED
  BY <1>0, <1>2, <1>3, <1>4, <1>5, <1>6, <1>7, OwnLogHolds

(* The log renamed: its final name is there, the other is gone.            *)
LEMMA RenamedIsFiles ==
  ASSUME IInv, NEW c \in Captures, capture[c].pc = "job"
  PROVE  /\ FilesOK(Renamed(c))
         /\ DOMAIN Renamed(c) = (DOMAIN store \ {InProgress(capture[c].log)})
                                  \cup {Final(capture[c].log)}
         /\ DOMAIN Renamed(c) \subseteq DOMAIN store \cup {Final(capture[c].log),
                                                          InProgress(capture[c].log)}
         /\ Final(capture[c].log) \in DOMAIN Renamed(c)
         /\ Renamed(c)[Final(capture[c].log)] = Lines(c)
         /\ InProgress(capture[c].log) \notin DOMAIN Renamed(c)
         /\ \A m \in DOMAIN store \ {Final(capture[c].log), InProgress(capture[c].log)} :
              m \in DOMAIN Renamed(c) /\ Renamed(c)[m] = store[m]
<1> DEFINE name == InProgress(capture[c].log)
           final == Final(capture[c].log)
           rest == Drop(store, name)
           lines == Lines(c)
<1>1. /\ FilesOK(store) /\ lines \in Contents \cup {None}
      /\ final \in Nat /\ final # name
  BY OfACapture, StoreIsFiles, NamesApart DEF IInv, HoldsItsLog
<1> HIDE DEF name, final, lines
<1>2. /\ FilesOK(rest) /\ DOMAIN rest = DOMAIN store \ {name}
      /\ \A m \in DOMAIN store \ {name} : rest[m] = store[m]
  BY <1>1, DropIsFiles, Zenon
<1> HIDE DEF rest
<1>3. /\ FilesOK(Put(rest, final, lines))
      /\ DOMAIN Put(rest, final, lines) = DOMAIN rest \cup {final}
      /\ Put(rest, final, lines)[final] = lines
      /\ \A m \in DOMAIN rest \ {final} : Put(rest, final, lines)[m] = rest[m]
  <2>1. FilesOK(rest) /\ final \in Nat /\ lines \in Contents \cup {None} BY <1>1, <1>2
  <2> QED BY <2>1, PutIsFiles DEF WrittenUnder
<1>4. Renamed(c) = Put(rest, final, lines)
  BY DEF Renamed, rest, final, lines, name
<1>5. /\ FilesOK(Renamed(c))
      /\ DOMAIN Renamed(c) = (DOMAIN store \ {name}) \cup {final}
      /\ DOMAIN Renamed(c) \subseteq DOMAIN store \cup {final, name}
      /\ final \in DOMAIN Renamed(c) /\ Renamed(c)[final] = lines
      /\ name \notin DOMAIN Renamed(c)
      /\ \A m \in DOMAIN store \ {final, name} :
           m \in DOMAIN Renamed(c) /\ Renamed(c)[m] = store[m]
  BY <1>1, <1>2, <1>3, <1>4
<1> QED  BY <1>5 DEF name, final, lines

LEMMA CaptureTypeOK ==
  IInv => /\ capture \in [Captures -> [pc : Pcs, before : SUBSET Nat, log : Nat,
                                       path : Nat \cup {None}]]
          /\ opened \in Nat /\ deaths \in 0 .. MaxDeaths
BY DEF IInv, StoreTypeOK, Pcs

LEMMA FailedType ==
  ASSUME IInv, NEW c \in Captures,
         capture' = [capture EXCEPT ![c].pc = "failed", ![c].before = {}]
  PROVE  capture' \in [Captures -> [pc : Pcs, before : SUBSET Nat, log : Nat,
                                    path : Nat \cup {None}]]
<1>1. capture[c] \in [pc : Pcs, before : SUBSET Nat, log : Nat, path : Nat \cup {None}]
  BY CaptureTypeOK
<1>2. [capture[c] EXCEPT !.pc = "failed", !.before = {}]
        \in [pc : Pcs, before : SUBSET Nat, log : Nat, path : Nat \cup {None}]
  BY <1>1 DEF Pcs
<1> QED BY <1>2, CaptureTypeOK

LEMMA StopSessionHolds ==
  ASSUME IInv, NEW c \in Captures, StopSession(c)
  PROVE  IInv'
<1>0. /\ capture[c].pc = "job" /\ capture[c].log # 0
      /\ store' = Renamed(c) /\ opened' = opened /\ deaths' = deaths
      /\ capture'[c].pc = "stopped" /\ capture'[c].log = capture[c].log
      /\ capture'[c].before = capture[c].before
      /\ \A d \in Captures : d # c => capture'[d] = capture[d]
  BY OfACapture, CaptureTypeOK DEF StopSession, OldThen
<1>1. capture' \in [Captures -> [pc : Pcs, before : SUBSET Nat, log : Nat,
                                 path : Nat \cup {None}]]
  BY CaptureTypeOK DEF StopSession, Pcs
<1>2. /\ FilesOK(store')
      /\ DOMAIN store' \subseteq DOMAIN store \cup {Final(capture[c].log),
                                                    InProgress(capture[c].log)}
      /\ Final(capture[c].log) \in DOMAIN store'
      /\ InProgress(capture[c].log) \notin DOMAIN store'
      /\ \A m \in DOMAIN store \ {Final(capture[c].log), InProgress(capture[c].log)} :
           m \in DOMAIN store' /\ store'[m] = store[m]
  BY <1>0, RenamedIsFiles, Zenon
<1>3. HoldsItsLog(c)'
  BY <1>0, <1>2 DEF HoldsItsLog
<1> QED  BY <1>0, <1>1, <1>2, <1>3, CaptureTypeOK, OwnLogHolds

LEMMA JobRaisesHolds ==
  ASSUME IInv, NEW c \in Captures, JobRaises(c)
  PROVE  IInv'
<1>0. /\ capture[c].pc = "job" /\ capture[c].log # 0
      /\ store' = Renamed(c) /\ opened' = opened /\ deaths' \in 0 .. MaxDeaths
      /\ capture'[c].pc = "failed" /\ capture'[c].log = capture[c].log
      /\ \A d \in Captures : d # c => capture'[d] = capture[d]
  BY OfACapture, CaptureTypeOK, StoreAssumption DEF JobRaises, OldThen
<1>1. capture' \in [Captures -> [pc : Pcs, before : SUBSET Nat, log : Nat,
                                 path : Nat \cup {None}]]
  BY FailedType DEF JobRaises
<1>2. /\ FilesOK(store')
      /\ DOMAIN store' \subseteq DOMAIN store \cup {Final(capture[c].log),
                                                    InProgress(capture[c].log)}
      /\ \A m \in DOMAIN store \ {Final(capture[c].log), InProgress(capture[c].log)} :
           m \in DOMAIN store' /\ store'[m] = store[m]
  BY <1>0, RenamedIsFiles, Zenon
<1>3. HoldsItsLog(c)'
  BY <1>0 DEF HoldsItsLog
<1> QED  BY <1>0, <1>1, <1>2, <1>3, OwnLogHolds

LEMMA DieHolds ==
  ASSUME IInv, NEW c \in Captures, Die(c)
  PROVE  IInv'
<1>0. /\ capture[c].pc \in {"session", "job", "stopped"}
      /\ store' = store /\ opened' = opened /\ deaths' \in 0 .. MaxDeaths
      /\ capture'[c].pc = "failed" /\ capture'[c].log = capture[c].log
      /\ \A d \in Captures : d # c => capture'[d] = capture[d]
      /\ \A d \in Captures : capture'[d].log = capture[d].log
  BY CaptureTypeOK, StoreAssumption DEF Die
<1>a. capture' \in [Captures -> [pc : Pcs, before : SUBSET Nat, log : Nat,
                                 path : Nat \cup {None}]]
  BY FailedType DEF Die
<1>1. StoreTypeOK'
  BY <1>0, <1>a DEF IInv, StoreTypeOK, Pcs
<1>2. NamesKnown'
  BY <1>0 DEF IInv, NamesKnown, LogNames
<1>3. OneOwnerEach'
  BY <1>0 DEF IInv, OneOwnerEach
<1>4. ASSUME NEW d \in Captures PROVE OldThen(d)' /\ HoldsItsLog(d)'
  <2>1. CASE d = c
    BY <1>0, <2>1, OfACapture DEF OldThen, HoldsItsLog
  <2>2. CASE d # c
    BY <1>0, <2>2, OfACapture DEF OldThen, HoldsItsLog, Lines
  <2> QED  BY <2>1, <2>2
<1>5. ReturnsItsOwnOrAYounger'
  BY <1>0 DEF IInv, ReturnsItsOwnOrAYounger
<1> QED  BY <1>1, <1>2, <1>3, <1>4, <1>5 DEF IInv

(* What a capture that stopped its session takes for its log: its own is   *)
(* among the new names, so the last of them is its own or a younger one's. *)
LEMMA TakesItsOwnOrAYounger ==
  ASSUME IInv, NEW c \in Captures, capture[c].pc = "stopped"
  PROVE  /\ Fresh(c) # {} /\ Taken(Fresh(c)) \in Nat
         /\ \/ Taken(Fresh(c)) = Final(capture[c].log)
            \/ \E d \in Captures :
                 /\ capture[d].log > capture[c].log
                 /\ Taken(Fresh(c)) \in {Final(capture[d].log), InProgress(capture[d].log)}
<1> DEFINE own == capture[c].log
           taken == Taken(Fresh(c))
<1>1. /\ own \in Nat /\ own # 0 /\ own <= opened /\ opened \in Nat
      /\ Final(own) \in DOMAIN store /\ InProgress(own) \notin DOMAIN store
      /\ \A m \in capture[c].before : m < Final(own)
      /\ capture[c].before \subseteq Nat
  BY OfACapture DEF OldThen, HoldsItsLog
<1>2. Final(own) \in Fresh(c)
  BY <1>1 DEF Fresh, Final
<1>3. Fresh(c) \in SUBSET Nat /\ \A m \in Fresh(c) : m <= Final(opened + 1)
  BY <1>1, NothingNewYet DEF Fresh, Final
<1>4. Final(opened + 1) \in Nat
  BY <1>1 DEF Final
<1>5. taken \in Fresh(c) /\ \A m \in Fresh(c) : m <= taken
  BY <1>2, <1>3, <1>4, LatestOfBounded DEF Taken
<1> HIDE DEF taken
<1>6. taken \in Nat /\ Final(own) <= taken /\ taken \in DOMAIN store
  BY <1>2, <1>3, <1>5 DEF Fresh
<1>7. PICK n \in 1 .. opened : taken \in {Final(n), InProgress(n)}
  <2>1. taken \in {README, PLANTED, NESTED} \cup LogNames
    BY <1>6 DEF IInv, NamesKnown
  <2>2. taken \notin {README, PLANTED, NESTED}
    BY <1>1, <1>6 DEF Final, README, PLANTED, NESTED
  <2> QED  BY <2>1, <2>2 DEF LogNames
<1>8. n \in Nat /\ n >= own
  BY <1>1, <1>6, <1>7 DEF Final, InProgress
<1>9. CASE n = own
  <2>1. taken = Final(own)
    BY <1>1, <1>6, <1>7, <1>9
  <2> QED  BY <1>2, <1>6, <2>1 DEF taken
<1>10. CASE n # own
  <2>1. PICK d \in Captures : capture[d].log = n
    BY <1>7 DEF IInv, OneOwnerEach
  <2>2. capture[d].log > own
    BY <1>1, <1>8, <1>10, <2>1
  <2> QED  BY <1>2, <1>6, <1>7, <2>1, <2>2 DEF taken
<1> QED  BY <1>9, <1>10

LEMMA ReturnHolds ==
  ASSUME IInv, NEW c \in Captures, Return(c)
  PROVE  IInv'
<1>0. /\ capture[c].pc = "stopped"
      /\ store' = store /\ opened' = opened /\ deaths' = deaths
      /\ capture'[c].pc = "returned" /\ capture'[c].log = capture[c].log
      /\ capture'[c].path = Taken(Fresh(c)) /\ Taken(Fresh(c)) \in Nat
      /\ \A d \in Captures : d # c => capture'[d] = capture[d]
      /\ \A d \in Captures : capture'[d].log = capture[d].log
  BY TakesItsOwnOrAYounger, CaptureTypeOK DEF Return
<1>a. capture' \in [Captures -> [pc : Pcs, before : SUBSET Nat, log : Nat,
                                 path : Nat \cup {None}]]
  <2>1. Fresh(c) # {} /\ Taken(Fresh(c)) \in Nat
    BY <1>0, TakesItsOwnOrAYounger
  <2>2. capture' = [capture EXCEPT ![c].pc = "returned", ![c].before = {},
                                   ![c].path = Taken(Fresh(c))]
    BY <2>1 DEF Return
  <2> DEFINE taken == Taken(Fresh(c))
  <2>3. taken \in Nat \cup {None}  BY <2>1
  <2> HIDE DEF taken
  <2>4. capture' = [capture EXCEPT ![c].pc = "returned", ![c].before = {},
                                   ![c].path = taken]
    BY <2>2 DEF taken
  <2>5. capture[c] \in [pc : Pcs, before : SUBSET Nat, log : Nat, path : Nat \cup {None}]
    BY CaptureTypeOK
  <2>6. [capture[c] EXCEPT !.pc = "returned", !.before = {}, !.path = taken]
          \in [pc : Pcs, before : SUBSET Nat, log : Nat, path : Nat \cup {None}]
    BY <2>3, <2>5 DEF Pcs
  <2> QED  BY <2>4, <2>6, CaptureTypeOK
<1>1. StoreTypeOK'
  BY <1>0, <1>a DEF IInv, StoreTypeOK, Pcs
<1>2. NamesKnown'
  BY <1>0 DEF IInv, NamesKnown, LogNames
<1>3. OneOwnerEach'
  BY <1>0 DEF IInv, OneOwnerEach
<1>4. ASSUME NEW d \in Captures PROVE OldThen(d)' /\ HoldsItsLog(d)'
  <2>1. CASE d = c
    BY <1>0, <2>1, OfACapture DEF OldThen, HoldsItsLog
  <2>2. CASE d # c
    BY <1>0, <2>2, OfACapture DEF OldThen, HoldsItsLog, Lines
  <2> QED  BY <2>1, <2>2
<1>5. ReturnsItsOwnOrAYounger'
  <2>1. ASSUME NEW d \in Captures, capture'[d].pc = "returned"
        PROVE  \/ capture'[d].path = Final(capture[d].log)
               \/ \E e \in Captures :
                    /\ capture[e].log > capture[d].log
                    /\ capture'[d].path \in {Final(capture[e].log),
                                             InProgress(capture[e].log)}
    <3>1. CASE d = c  BY <1>0, <3>1, TakesItsOwnOrAYounger
    <3>2. CASE d # c  BY <1>0, <2>1, <3>2 DEF IInv, ReturnsItsOwnOrAYounger
    <3> QED  BY <3>1, <3>2
  <2> QED  BY <1>0, <2>1 DEF ReturnsItsOwnOrAYounger
<1> QED  BY <1>1, <1>2, <1>3, <1>4, <1>5 DEF IInv

-----------------------------------------------------------------------------
(* The other steps: the check, and the command it runs.                    *)

LEMMA CheckHolds ==
  ASSUME IInv, Check
  PROVE  IInv'
<1>1. CASE UNCHANGED storeVars
  BY <1>1, StoreIsFiles, OtherStepHolds DEF IInv, storeVars
<1>2. CASE Misbehave
  <2>1. /\ capture' = capture /\ opened' = opened /\ deaths' = deaths
        /\ Entry.does \in {"plants", "nests", "rewrites", "restores"}
        /\ store' = Left[Entry.does]
    BY <1>2 DEF Misbehave, Left
  <2>2. FilesOK(store)  BY StoreIsFiles DEF IInv
  <2>3. /\ <<TEXT>> \in Contents \cup {None} /\ <<ALIEN>> \in Contents \cup {None}
        /\ None \in Contents \cup {None}
    BY ContentsClosed
  <2>4. PLANTED \in Nat /\ NESTED \in Nat /\ README \in Nat
    BY DEF PLANTED, NESTED, README
  <2>5. \/ store' = store
        \/ \E name \in {README, PLANTED, NESTED}, lines \in Contents \cup {None} :
             store' = Put(store, name, lines)
    <3>1. CASE Entry.does = "plants"
      <4>1. store' = Put(store, PLANTED, <<TEXT>>)  BY <2>1, <3>1 DEF Left
      <4> QED  BY <2>3, <4>1
    <3>2. CASE Entry.does = "nests"
      <4>1. store' = Put(store, NESTED, None)  BY <2>1, <3>2 DEF Left
      <4> QED  BY <2>3, <4>1
    <3>3. CASE Entry.does = "rewrites"
      <4>1. store' = store \/ store' = Put(store, README, <<ALIEN>>)
        BY <2>1, <3>3 DEF Left
      <4> QED  BY <2>3, <4>1
    <3>4. CASE Entry.does = "restores"
      BY <2>1, <3>4 DEF Left
    <3> QED  BY <2>1, <3>1, <3>2, <3>3, <3>4
  <2>6. CASE store' = store
    BY <2>1, <2>2, <2>6, OtherStepHolds
  <2>7. ASSUME NEW name \in {README, PLANTED, NESTED}, NEW lines \in Contents \cup {None},
               store' = Put(store, name, lines)
        PROVE  IInv'
    <3>1. name \in Nat  BY <2>4
    <3>a. WrittenUnder(Put(store, name, lines), store, name, lines)
      BY <2>2, <3>1, PutIsFiles
    <3>2. /\ FilesOK(store') /\ DOMAIN store' = DOMAIN store \cup {name}
          /\ \A m \in DOMAIN store \ {name} : store'[m] = store[m]
      BY <2>7, <3>a DEF WrittenUnder
    <3>3. /\ DOMAIN store \subseteq DOMAIN store'
          /\ DOMAIN store' \subseteq DOMAIN store \cup {README, PLANTED, NESTED}
          /\ \A m \in DOMAIN store \ {README, PLANTED, NESTED} : store'[m] = store[m]
      BY <3>2
    <3> QED  BY <2>1, <3>2, <3>3, OtherStepHolds
  <2> QED  BY <2>5, <2>6, <2>7
<1> QED
  BY <1>1, <1>2 DEF Check, Begin, Take, End, ReadFile, Run, Start, Over, Compare

LEMMA WriterHolds ==
  ASSUME IInv, NEW c \in Captures, CaptureStep(c)
  PROVE  IInv'
<1>1. CASE Before(c)       BY <1>1, BeforeHolds
<1>2. CASE OpenLog(c)      BY <1>2, OpenLogHolds
<1>3. CASE WriteLine(c)    BY <1>3, WriteLineHolds
<1>4. CASE StopSession(c)  BY <1>4, StopSessionHolds
<1>5. CASE JobRaises(c)    BY <1>5, JobRaisesHolds
<1>6. CASE Die(c)          BY <1>6, DieHolds
<1>7. CASE Return(c)       BY <1>7, ReturnHolds
<1> QED  BY <1>1, <1>2, <1>3, <1>4, <1>5, <1>6, <1>7 DEF CaptureStep

LEMMA StepHolds == IInv /\ [Next]_vars => IInv'
<1> SUFFICES ASSUME IInv, [Next]_vars PROVE IInv'
  OBVIOUS
<1>1. ASSUME NEW c \in Captures, Writer(c) PROVE IInv'
  BY <1>1, WriterHolds DEF Writer
<1>2. CASE ReaderStep
  <2>1. UNCHANGED storeVars
    BY <1>2 DEF ReaderStep, ListLogs, ReadLog, InventoryAnswers, FirstLog, ProfileLog
  <2> QED  BY <2>1, StoreIsFiles, OtherStepHolds DEF IInv, storeVars
<1>3. CASE Check
  BY <1>3, CheckHolds
<1>4. CASE UNCHANGED vars
  BY <1>4, StoreIsFiles, OtherStepHolds DEF IInv, vars, storeVars
<1> QED  BY <1>1, <1>2, <1>3, <1>4 DEF Next

(* The directory holds files of events and directories, and a capture is   *)
(* where run (sample.py) may be, whatever commands and checks do beside.   *)
THEOREM StoreTypeCorrect == Spec => []StoreTypeOK
<1>1. IInv => StoreTypeOK  BY DEF IInv
<1> QED  BY <1>1, InitHolds, StepHolds, PTL DEF Spec

(* run returns its own log or one begun after it in the same directory,    *)
(* and never an older one or a file that is no log: however many captures  *)
(* share it, die in it or raise, and whatever a command leaves in it.      *)
THEOREM ReturnedPathIsOwnOrYounger == Spec => []ReturnsItsOwnOrAYounger
<1>1. IInv => ReturnsItsOwnOrAYounger  BY DEF IInv
<1> QED  BY <1>1, InitHolds, StepHolds, PTL DEF Spec

-----------------------------------------------------------------------------
(* How a log grows: by whole events, half of one flushed now and then.     *)

PartOf(lines) ==
  \E k \in 0 .. Len(Script) :
    lines = SubSeq(Script, 1, k) \/ lines = Append(SubSeq(Script, 1, k), HALF)

Grown(old, new) ==
  new = old \/ (PartOf(old) /\ PartOf(new) /\ Written(old) <= Written(new))

(* What a part is made of.                                                 *)
LEMMA PartsOfScript ==
  ASSUME NEW k \in 0 .. Len(Script), NEW lines,
         lines = SubSeq(Script, 1, k) \/ lines = Append(SubSeq(Script, 1, k), HALF)
  PROVE  /\ lines \in Contents /\ Written(lines) = k
         /\ Torn(lines) <=> lines = Append(SubSeq(Script, 1, k), HALF)
         /\ ~ Torn(lines) => lines = SubSeq(Script, 1, k)
         /\ Members(lines) \ {HALF} = {Script[i] : i \in 1 .. k}
         /\ HALF \in Members(lines) <=> Torn(lines)
         /\ ALIEN \notin Members(lines)
<1> DEFINE whole == SubSeq(Script, 1, k)
           events == {Script[i] : i \in 1 .. k}
<1>1. /\ Script \in Seq(STRING \ {HALF, TEXT, ALIEN}) /\ Len(Script) \in Nat
      /\ k \in Nat /\ k <= Len(Script)
  BY StoreAssumption
<1>2. /\ \A i \in 1 .. k : i \in 1 .. Len(Script)
      /\ \A i \in 1 .. Len(Script) : Script[i] \in STRING \ {HALF, TEXT, ALIEN}
  BY <1>1
<1>3. \A i \in 1 .. k : Script[i] \notin {HALF, TEXT, ALIEN} BY <1>2
<1>4. /\ whole = [i \in 1 .. k |-> Script[i]] /\ Len(whole) = k
      /\ whole \in Seq(STRING \ {HALF, TEXT, ALIEN})
  <2>1. whole = [i \in 1 .. k |-> Script[i]] BY <1>1
  <2>2. Len(whole) = k BY <1>1
  <2>3. whole \in Seq(STRING \ {HALF, TEXT, ALIEN}) BY <1>1, <1>2, <2>1
  <2> QED BY <2>1, <2>2, <2>3
<1>5. Members(whole) = events BY <1>1, <1>4 DEF Members
<1>6. HALF # ALIEN BY DEF HALF, ALIEN
<1>7. whole \in Contents /\ Append(whole, HALF) \in Contents
  BY <1>1, ContentsClosed
<1>8. CASE lines = whole
  <2>1. ~ Torn(lines)
    <3>1. k # 0 => lines[k] = Script[k] /\ Script[k] # HALF BY <1>1, <1>3, <1>4, <1>8
    <3>2. k = 0 => lines = <<>> BY <1>4, <1>8
    <3> QED BY <1>4, <1>8, <3>1, <3>2 DEF Torn
  <2>2. Written(lines) = k BY <1>4, <1>8, <2>1 DEF Written
  <2>3. HALF \notin events /\ ALIEN \notin events BY <1>3
  <2>4. lines # Append(whole, HALF)
    <3>1. Len(Append(whole, HALF)) = k + 1 BY <1>4
    <3> QED BY <1>1, <1>4, <1>8, <3>1
  <2>5. Members(lines) = events BY <1>5, <1>8
  <2> HIDE DEF events, whole
  <2> QED BY <1>7, <1>8, <2>1, <2>2, <2>3, <2>4, <2>5 DEF events, whole
<1>9. CASE lines = Append(whole, HALF)
  <2>1. Len(lines) = k + 1 /\ lines[k + 1] = HALF /\ DOMAIN lines = 1 .. k + 1
        /\ \A i \in 1 .. k : lines[i] = Script[i]
    BY <1>1, <1>4, <1>9
  <2>2. Torn(lines) /\ Written(lines) = k BY <1>1, <2>1 DEF Torn, Written
  <2>3. Members(lines) = events \cup {HALF}
    <3>1. \A i \in 1 .. k + 1 : i = k + 1 \/ i \in 1 .. k BY <1>1
    <3>2. k + 1 \in 1 .. k + 1 /\ \A i \in 1 .. k : i \in 1 .. k + 1 BY <1>1
    <3> QED BY <2>1, <3>1, <3>2 DEF Members
  <2>4. HALF \notin events /\ ALIEN \notin events BY <1>3
  <2> HIDE DEF events, whole
  <2> QED BY <1>6, <1>7, <1>9, <2>2, <2>3, <2>4 DEF events, whole
<1> QED BY <1>8, <1>9

LEMMA PartsAreContents ==
  ASSUME NEW lines, PartOf(lines)
  PROVE  /\ lines \in Contents /\ Written(lines) \in 0 .. Len(Script)
         /\ ALIEN \notin Members(lines)
         /\ HALF \notin Members(lines) => ~ Torn(lines)
         /\ WholeEvents(lines) = {Script[i] : i \in 1 .. Written(lines)}
<1>1. PICK k \in 0 .. Len(Script) :
        lines = SubSeq(Script, 1, k) \/ lines = Append(SubSeq(Script, 1, k), HALF)
  BY DEF PartOf
<1>2. /\ lines \in Contents /\ Written(lines) = k /\ ALIEN \notin Members(lines)
      /\ HALF \in Members(lines) <=> Torn(lines)
      /\ Members(lines) \ {HALF} = {Script[i] : i \in 1 .. k}
  BY <1>1, PartsOfScript
<1> QED BY <1>2 DEF WholeEvents

LEMMA GrownIsAnOrder ==
  /\ \A old : Grown(old, old)
  /\ \A old, mid, new : Grown(old, mid) /\ Grown(mid, new) => Grown(old, new)
<1>1. \A old : Grown(old, old) BY DEF Grown
<1>2. ASSUME NEW old, NEW mid, NEW new, Grown(old, mid), Grown(mid, new)
      PROVE  Grown(old, new)
  <2>1. CASE mid = old \/ new = mid BY <1>2, <2>1
  <2>2. CASE mid # old /\ new # mid
    <3>1. /\ PartOf(old) /\ PartOf(mid) /\ PartOf(new)
          /\ Written(old) <= Written(mid) /\ Written(mid) <= Written(new)
      BY <1>2, <2>2 DEF Grown
    <3>2. /\ Written(old) \in 0 .. Len(Script) /\ Written(mid) \in 0 .. Len(Script)
          /\ Written(new) \in 0 .. Len(Script) /\ Len(Script) \in Nat
      BY <3>1, PartsAreContents, StoreAssumption
    <3> QED BY <3>1, <3>2 DEF Grown
  <2> QED BY <2>1, <2>2
<1> QED BY <1>1, <1>2

(* What has grown holds no fewer events, and every event it held.          *)
LEMMA GrownKeeps ==
  ASSUME NEW old \in Contents, NEW new, Grown(old, new)
  PROVE  /\ new \in Contents /\ Written(old) \in Nat /\ Written(new) \in Nat
         /\ Written(old) <= Written(new)
         /\ WholeEvents(old) \subseteq WholeEvents(new)
         /\ ALIEN \in Members(new) => ALIEN \in Members(old)
<1>1. Written(old) \in Nat
  <2>1. Len(old) \in Nat /\ (Torn(old) => Len(old) > 0)
    BY ContentsClosed DEF Torn, Contents
  <2> QED BY <2>1 DEF Written
<1>2. CASE new = old BY <1>1, <1>2
<1>3. CASE new # old
  <2>1. PartOf(old) /\ PartOf(new) /\ Written(old) <= Written(new) BY <1>3 DEF Grown
  <2>2. /\ Written(new) \in 0 .. Len(Script) /\ Len(Script) \in Nat /\ new \in Contents
        /\ ALIEN \notin Members(new)
        /\ WholeEvents(old) = {Script[i] : i \in 1 .. Written(old)}
        /\ WholeEvents(new) = {Script[i] : i \in 1 .. Written(new)}
    BY <2>1, PartsAreContents, StoreAssumption
  <2>3. 1 .. Written(old) \subseteq 1 .. Written(new) BY <1>1, <2>1, <2>2
  <2> QED BY <1>1, <2>1, <2>2, <2>3
<1> QED BY <1>2, <1>3

-----------------------------------------------------------------------------
(* The logs in the directory, each under one of its two names.             *)

OneNameEach ==
  \A n \in 1 .. opened : InProgress(n) \in DOMAIN store <=> Final(n) \notin DOMAIN store

LogsAreParts == \A n \in DOMAIN store \cap LogNames : PartOf(store[n])

LogsOK == IInv /\ OneNameEach /\ LogsAreParts

(* What a capture's step does to the directory, seen by whoever has listed *)
(* it: a file grows under its name, or moves, whole, to the name before it;*)
(* a name that is gone stays gone.                                         *)
DirectoryGrows ==
  /\ opened \in Nat /\ opened' \in Nat /\ opened <= opened'
  /\ \A n \in DOMAIN store :
       \/ n \in DOMAIN store' /\ Grown(store[n], store'[n])
       \/ \E k \in 1 .. opened : /\ n = InProgress(k) /\ n \notin DOMAIN store'
                                 /\ Final(k) \in DOMAIN store' /\ store'[Final(k)] = store[n]
  /\ \A k \in 1 .. opened :
       /\ InProgress(k) \notin DOMAIN store => InProgress(k) \notin DOMAIN store'
       /\ Final(k) \in DOMAIN store =>
            Final(k) \in DOMAIN store' /\ store'[Final(k)] = store[Final(k)]

LEMMA UnchangedGrows ==
  ASSUME LogsOK, store' = store, opened' = opened
  PROVE  DirectoryGrows /\ OneNameEach' /\ LogsAreParts'
<1>1. opened \in Nat BY DEF LogsOK, IInv, StoreTypeOK
<1>2. DirectoryGrows BY <1>1, GrownIsAnOrder DEF DirectoryGrows
<1>3. OneNameEach' /\ LogsAreParts'
  BY DEF LogsOK, OneNameEach, LogsAreParts, LogNames
<1> QED BY <1>2, <1>3

LEMMA NamesOfLogs ==
  ASSUME IInv, NEW c \in Captures, capture[c].pc = "job"
  PROVE  /\ capture[c].log \in 1 .. opened /\ opened \in Nat
         /\ InProgress(capture[c].log) \in DOMAIN store
         /\ Lines(c) = store[InProgress(capture[c].log)]
         /\ InProgress(capture[c].log) \in LogNames /\ Final(capture[c].log) \in LogNames
         /\ \A n \in 1 .. opened :
              /\ Final(n) # InProgress(capture[c].log) /\ InProgress(n) # Final(capture[c].log)
              /\ n # capture[c].log => /\ Final(n) # Final(capture[c].log)
                                       /\ InProgress(n) # InProgress(capture[c].log)
<1>1. capture[c].log \in 1 .. opened /\ opened \in Nat
  BY OfACapture DEF OldThen
<1>2. InProgress(capture[c].log) \in DOMAIN store
  BY OfACapture DEF HoldsItsLog
<1>3. \A n \in 1 .. opened :
        /\ Final(n) # InProgress(capture[c].log) /\ InProgress(n) # Final(capture[c].log)
        /\ n # capture[c].log => /\ Final(n) # Final(capture[c].log)
                                 /\ InProgress(n) # InProgress(capture[c].log)
  BY <1>1 DEF Final, InProgress
<1> QED BY <1>1, <1>2, <1>3 DEF LogNames, Lines

LEMMA OpenLogGrows ==
  ASSUME LogsOK, NEW c \in Captures, OpenLog(c)
  PROVE  DirectoryGrows /\ OneNameEach' /\ LogsAreParts'
<1> DEFINE n == opened + 1
<1>0. /\ opened \in Nat /\ opened' = n /\ n \in Nat
      /\ store' = Put(store, InProgress(n), <<>>)
  BY DEF OpenLog, LogsOK, IInv, StoreTypeOK
<1>1. /\ DOMAIN store' = DOMAIN store \cup {InProgress(n)}
      /\ store'[InProgress(n)] = <<>>
      /\ \A m \in DOMAIN store \ {InProgress(n)} : store'[m] = store[m]
  BY <1>0 DEF Put
<1>2. /\ InProgress(n) \notin DOMAIN store /\ Final(n) \notin DOMAIN store
      /\ Final(n) # InProgress(n)
  <2>1. \A m \in DOMAIN store : m \in Nat /\ m < Final(n)
    BY NothingNewYet DEF LogsOK
  <2>2. Final(n) \in Nat /\ InProgress(n) \in Nat /\ Final(n) < InProgress(n)
    BY <1>0 DEF Final, InProgress
  <2> QED BY <2>1, <2>2
<1>3. PartOf(<<>>)
  <2>1. SubSeq(Script, 1, 0) = <<>> /\ 0 \in 0 .. Len(Script) BY StoreAssumption
  <2> QED BY <2>1 DEF PartOf
<1>4. \A k \in 1 .. opened : /\ InProgress(k) # InProgress(n) /\ Final(k) # InProgress(n)
  BY <1>0 DEF Final, InProgress
<1>5. DirectoryGrows
  <2>1. \A m \in DOMAIN store : m \in DOMAIN store' /\ store'[m] = store[m]
    BY <1>1, <1>2
  <2>2. \A m \in DOMAIN store : m \in DOMAIN store' /\ Grown(store[m], store'[m])
    BY <2>1, GrownIsAnOrder
  <2>3. opened <= opened' /\ opened' \in Nat BY <1>0
  <2> QED BY <1>0, <1>1, <1>4, <2>1, <2>2, <2>3 DEF DirectoryGrows
<1>6. OneNameEach'
  <2>1. ASSUME NEW k \in 1 .. n
        PROVE  InProgress(k) \in DOMAIN store' <=> Final(k) \notin DOMAIN store'
    <3>1. CASE k = n BY <1>1, <1>2, <3>1
    <3>2. CASE k # n
      <4>1. k \in 1 .. opened BY <1>0, <3>2
      <4> QED BY <1>1, <1>4, <4>1 DEF LogsOK, OneNameEach
    <3> QED BY <3>1, <3>2
  <2> QED BY <1>0, <2>1 DEF OneNameEach
<1>7. LogsAreParts'
  <2>1. ASSUME NEW m \in DOMAIN store', m \in LogNames' PROVE PartOf(store'[m])
    <3>1. CASE m = InProgress(n) BY <1>1, <1>3, <3>1
    <3>2. CASE m # InProgress(n)
      <4>1. m \in DOMAIN store /\ store'[m] = store[m] BY <1>1, <3>2
      <4>2. PICK k \in 1 .. n : m = Final(k) \/ m = InProgress(k)
        BY <1>0, <2>1 DEF LogNames
      <4>3. k # n BY <1>2, <4>1, <4>2
      <4>4. k \in 1 .. opened BY <1>0, <4>3
      <4>5. m \in LogNames BY <4>2, <4>4 DEF LogNames
      <4> QED BY <4>1, <4>5 DEF LogsOK, LogsAreParts
    <3> QED BY <3>1, <3>2
  <2> QED BY <2>1 DEF LogsAreParts
<1> QED BY <1>5, <1>6, <1>7

LEMMA WriteLineGrows ==
  ASSUME LogsOK, NEW c \in Captures, WriteLine(c)
  PROVE  DirectoryGrows /\ OneNameEach' /\ LogsAreParts'
<1> DEFINE name == InProgress(capture[c].log)
           old == Lines(c)
<1>0. /\ capture[c].pc = "job" /\ opened' = opened /\ opened \in Nat
      /\ name \in DOMAIN store /\ old = store[name] /\ name \in LogNames
      /\ \A n \in 1 .. opened : Final(n) # name
  BY NamesOfLogs DEF LogsOK, WriteLine
<1>1. PartOf(old) BY <1>0 DEF LogsOK, LogsAreParts
<1>2. PICK k \in 0 .. Len(Script) :
        old = SubSeq(Script, 1, k) \/ old = Append(SubSeq(Script, 1, k), HALF)
  BY <1>1 DEF PartOf
<1>3. Written(old) = k /\ (~ Torn(old) => old = SubSeq(Script, 1, k))
  BY <1>2, PartsOfScript
<1>4. Len(Script) \in Nat /\ Written(old) < Len(Script)
  BY StoreAssumption DEF WriteLine
<1>5. PICK new : store' = Put(store, name, new) /\ PartOf(new) /\ Written(old) <= Written(new)
  <2>1. CASE store' = Put(store, name, SubSeq(Script, 1, Written(old) + 1))
    <3>1. k + 1 \in 0 .. Len(Script) BY <1>3, <1>4
    <3>2. Written(SubSeq(Script, 1, k + 1)) = k + 1 BY <3>1, PartsOfScript
    <3>3. PartOf(SubSeq(Script, 1, k + 1)) BY <3>1 DEF PartOf
    <3> QED BY <1>3, <2>1, <3>1, <3>2, <3>3
  <2>2. CASE ~ Torn(old) /\ store' = Put(store, name, Append(old, HALF))
    <3>1. Append(old, HALF) = Append(SubSeq(Script, 1, k), HALF) BY <1>3, <2>2
    <3>2. Written(Append(SubSeq(Script, 1, k), HALF)) = k BY PartsOfScript
    <3>3. PartOf(Append(SubSeq(Script, 1, k), HALF)) BY DEF PartOf
    <3> QED BY <1>3, <2>2, <3>1, <3>2, <3>3
  <2> QED BY <2>1, <2>2 DEF WriteLine
<1> HIDE DEF name, old
<1>6. /\ DOMAIN store' = DOMAIN store /\ store'[name] = new
      /\ \A m \in DOMAIN store \ {name} : store'[m] = store[m]
  BY <1>0, <1>5 DEF Put
<1>7. Grown(old, new) BY <1>1, <1>5 DEF Grown
<1>8. DirectoryGrows
  <2>1. \A m \in DOMAIN store : Grown(store[m], store'[m])
    BY <1>0, <1>6, <1>7, GrownIsAnOrder
  <2>2. \A m \in 1 .. opened : Final(m) \in DOMAIN store => store'[Final(m)] = store[Final(m)]
    BY <1>0, <1>6
  <2> QED BY <1>0, <1>6, <2>1, <2>2 DEF DirectoryGrows
<1>9. OneNameEach' BY <1>0, <1>6 DEF LogsOK, OneNameEach
<1>10. LogsAreParts'
  BY <1>0, <1>5, <1>6 DEF LogsOK, LogsAreParts, LogNames
<1> QED BY <1>8, <1>9, <1>10

LEMMA RenameGrows ==
  ASSUME LogsOK, NEW c \in Captures, capture[c].pc = "job",
         store' = Renamed(c), opened' = opened
  PROVE  DirectoryGrows /\ OneNameEach' /\ LogsAreParts'
<1> DEFINE l == capture[c].log
           name == InProgress(l)
           final == Final(l)
<1>0. /\ l \in 1 .. opened /\ opened \in Nat
      /\ name \in DOMAIN store /\ Lines(c) = store[name]
      /\ name \in LogNames /\ final \in LogNames /\ final \notin DOMAIN store
      /\ \A n \in 1 .. opened : /\ Final(n) # name /\ InProgress(n) # final
                                /\ n # l => Final(n) # final /\ InProgress(n) # name
  BY NamesOfLogs DEF LogsOK, OneNameEach
<1>1. /\ DOMAIN store' = (DOMAIN store \ {name}) \cup {final}
      /\ store'[final] = store[name] /\ name \notin DOMAIN store'
      /\ \A m \in DOMAIN store \ {final, name} : store'[m] = store[m]
  BY <1>0, RenamedIsFiles DEF LogsOK
<1> HIDE DEF name, final
<1>2. DirectoryGrows
  <2>1. ASSUME NEW m \in DOMAIN store
        PROVE  \/ m \in DOMAIN store' /\ Grown(store[m], store'[m])
               \/ \E k \in 1 .. opened :
                    /\ m = InProgress(k) /\ m \notin DOMAIN store'
                    /\ Final(k) \in DOMAIN store' /\ store'[Final(k)] = store[m]
    <3>1. CASE m = name
      <4>1. m = InProgress(l) /\ Final(l) \in DOMAIN store' /\ store'[Final(l)] = store[m]
        BY <1>1, <3>1 DEF name, final
      <4> QED BY <1>0, <1>1, <3>1, <4>1
    <3>2. CASE m # name
      <4>1. m \in DOMAIN store' /\ store'[m] = store[m] BY <1>0, <1>1, <3>2
      <4> QED BY <4>1, GrownIsAnOrder
    <3> QED BY <3>1, <3>2
  <2>2. ASSUME NEW k \in 1 .. opened
        PROVE  /\ InProgress(k) \notin DOMAIN store => InProgress(k) \notin DOMAIN store'
               /\ Final(k) \in DOMAIN store =>
                    Final(k) \in DOMAIN store' /\ store'[Final(k)] = store[Final(k)]
    BY <1>0, <1>1
  <2> QED BY <1>0, <2>1, <2>2 DEF DirectoryGrows
<1>3. OneNameEach'
  <2>1. ASSUME NEW k \in 1 .. opened
        PROVE  InProgress(k) \in DOMAIN store' <=> Final(k) \notin DOMAIN store'
    <3>1. CASE k = l BY <1>1, <3>1 DEF name, final
    <3>2. CASE k # l BY <1>0, <1>1, <3>2 DEF LogsOK, OneNameEach
    <3> QED BY <3>1, <3>2
  <2> QED BY <2>1 DEF OneNameEach
<1>4. LogsAreParts'
  <2>1. PartOf(store[name]) BY <1>0 DEF LogsOK, LogsAreParts
  <2> QED BY <1>1, <2>1 DEF LogsOK, LogsAreParts, LogNames
<1> QED BY <1>2, <1>3, <1>4

LEMMA CaptureGrows ==
  ASSUME LogsOK, NEW c \in Captures, CaptureStep(c)
  PROVE  DirectoryGrows /\ OneNameEach' /\ LogsAreParts'
<1>1. CASE Before(c) \/ Die(c) \/ Return(c)
  BY <1>1, UnchangedGrows DEF Before, Die, Return
<1>2. CASE OpenLog(c) BY <1>2, OpenLogGrows
<1>3. CASE WriteLine(c) BY <1>3, WriteLineGrows
<1>4. CASE StopSession(c) \/ JobRaises(c)
  BY <1>4, RenameGrows DEF StopSession, JobRaises
<1> QED BY <1>1, <1>2, <1>3, <1>4 DEF CaptureStep

-----------------------------------------------------------------------------
(* What a reader of the directory holds, against the directory as it is.   *)

HeldFiles == {n \in DOMAIN held : held[n] # None}

(* A name listed is there, or its log has been given its final one.        *)
StillThere ==
  \A n \in DOMAIN held :
    /\ n \in {README, PLANTED, NESTED} \cup LogNames
    /\ n \in DOMAIN store \/ \E k \in 1 .. opened : n = InProgress(k)
    /\ Grown(held[n], Now(n))

(* A report is of what the file held at some moment since.                 *)
ReportsAreTrue ==
  \A n \in DOMAIN reports :
    /\ n \in HeldFiles
    /\ \E lines : /\ reports[n] = Report(lines)
                  /\ Grown(held[n], lines) /\ Grown(lines, Now(n))

ReaderWhere ==
  /\ FilesOK(held)
  /\ at \in {"idle", "list", "first", "profile"} => held = Empty /\ reports = Empty
  /\ at = "read" => todo = HeldFiles \ DOMAIN reports
  /\ at = "answered" /\ answer \in {OK, FOUND} /\ held # Empty =>
       /\ DOMAIN reports = HeldFiles
       /\ answer = FOUND <=> \E n \in DOMAIN reports : reports[n].error

ReadInv == LogsOK /\ StillThere /\ ReportsAreTrue /\ ReaderWhere /\ AbortsOnlyForARename

(* Where a file listed is now, after a step of a capture.                  *)
LEMMA NowGrows ==
  ASSUME ReadInv, DirectoryGrows, NEW n \in DOMAIN held
  PROVE  /\ n \in DOMAIN store' \/ \E k \in 1 .. opened : n = InProgress(k)
         /\ n \notin DOMAIN store => n \notin DOMAIN store'
         /\ Grown(Now(n), Now(n)')
<1>1. /\ n \in DOMAIN store \/ \E k \in 1 .. opened : n = InProgress(k)
      /\ OneNameEach
  BY DEF ReadInv, LogsOK, StillThere
<1>2. \A k \in 1 .. opened : InProgress(k) - 1 = Final(k)
  BY DEF InProgress, Final
<1>3. CASE n \in DOMAIN store
  <2>1. CASE n \in DOMAIN store' /\ Grown(store[n], store'[n])
    BY <1>3, <2>1 DEF Now
  <2>2. CASE \E k \in 1 .. opened :
               /\ n = InProgress(k) /\ n \notin DOMAIN store'
               /\ Final(k) \in DOMAIN store' /\ store'[Final(k)] = store[n]
    <3>1. Now(n) = store[n] /\ Now(n)' = store[n] BY <1>2, <1>3, <2>2 DEF Now
    <3> QED BY <1>3, <2>2, <3>1, GrownIsAnOrder
  <2> QED BY <1>3, <2>1, <2>2 DEF DirectoryGrows
<1>4. CASE n \notin DOMAIN store
  <2>1. PICK k \in 1 .. opened : n = InProgress(k) BY <1>1, <1>4
  <2>2. Final(k) \in DOMAIN store BY <1>1, <1>4, <2>1 DEF OneNameEach
  <2>3. n \notin DOMAIN store' /\ store'[Final(k)] = store[Final(k)]
    BY <1>4, <2>1, <2>2 DEF DirectoryGrows
  <2>4. Now(n) = store[Final(k)] /\ Now(n)' = store[Final(k)]
    BY <1>2, <1>4, <2>1, <2>3 DEF Now
  <2> QED BY <1>4, <2>1, <2>3, <2>4, GrownIsAnOrder
<1> QED BY <1>3, <1>4

(* A capture's step leaves a reader's reports true.                        *)
LEMMA BesideAReader ==
  ASSUME ReadInv, LogsOK', DirectoryGrows, UNCHANGED readerVars
  PROVE  ReadInv'
<1>0. /\ at' = at /\ todo' = todo /\ reports' = reports /\ answer' = answer /\ held' = held
      /\ HeldFiles' = HeldFiles /\ opened \in Nat /\ opened' \in Nat /\ opened <= opened'
  BY DEF readerVars, HeldFiles, DirectoryGrows
<1>1. \A n \in DOMAIN held :
        /\ n \in DOMAIN store' \/ \E k \in 1 .. opened : n = InProgress(k)
        /\ n \notin DOMAIN store => n \notin DOMAIN store'
        /\ Grown(Now(n), Now(n)')
  BY NowGrows
<1>a. 1 .. opened \subseteq 1 .. opened' BY <1>0
<1>2. StillThere'
  <2>1. LogNames \subseteq LogNames' BY <1>a DEF LogNames
  <2>2. ASSUME NEW n \in DOMAIN held
        PROVE  /\ n \in {README, PLANTED, NESTED} \cup LogNames'
               /\ n \in DOMAIN store' \/ \E k \in 1 .. opened' : n = InProgress(k)
               /\ Grown(held[n], Now(n)')
    <3>1. n \in {README, PLANTED, NESTED} \cup LogNames /\ Grown(held[n], Now(n))
      BY DEF ReadInv, StillThere
    <3>2. Grown(held[n], Now(n)')
      BY <1>1, <3>1, GrownIsAnOrder
    <3> QED BY <1>1, <1>a, <2>1, <3>1, <3>2
  <2> QED BY <1>0, <2>2 DEF StillThere
<1>3. ReportsAreTrue'
  <2>1. ASSUME NEW n \in DOMAIN reports
        PROVE  /\ n \in HeldFiles
               /\ \E lines : /\ reports[n] = Report(lines)
                             /\ Grown(held[n], lines) /\ Grown(lines, Now(n)')
    <3>1. n \in HeldFiles /\ n \in DOMAIN held BY DEF ReadInv, ReportsAreTrue, HeldFiles
    <3>2. PICK lines : /\ reports[n] = Report(lines)
                       /\ Grown(held[n], lines) /\ Grown(lines, Now(n))
      BY DEF ReadInv, ReportsAreTrue
    <3>3. Grown(lines, Now(n)') BY <1>1, <3>1, <3>2, GrownIsAnOrder
    <3> QED BY <3>1, <3>2, <3>3
  <2> QED BY <1>0, <2>1 DEF ReportsAreTrue, Report
<1>4. ReaderWhere' BY <1>0 DEF ReadInv, ReaderWhere
<1>5. AbortsOnlyForARename'
  <2>1. DOMAIN held \ DOMAIN store # {} => DOMAIN held \ DOMAIN store' # {} BY <1>1
  <2> QED BY <1>0, <2>1 DEF ReadInv, AbortsOnlyForARename
<1> QED BY <1>2, <1>3, <1>4, <1>5 DEF ReadInv

-----------------------------------------------------------------------------
(* The reader's own steps.                                                 *)

LEMMA ListLogsTrue ==
  ASSUME ReadInv, LogsOK', ListLogs
  PROVE  ReadInv'
<1>0. /\ at' = "read" /\ held' = store /\ todo' = Files /\ reports = Empty
      /\ reports' = reports /\ store' = store /\ opened' = opened
  BY DEF ReadInv, ReaderWhere, ListLogs, storeVars
<1>1. DOMAIN reports' = {} BY <1>0 DEF Empty
<1>2. StillThere'
  <2>1. \A n \in DOMAIN store : n \in {README, PLANTED, NESTED} \cup LogNames
    BY DEF ReadInv, LogsOK, IInv, NamesKnown
  <2>2. LogNames' = LogNames BY <1>0 DEF LogNames
  <2>3. \A n \in DOMAIN store : Now(n)' = store[n] BY <1>0 DEF Now
  <2> QED BY <1>0, <2>1, <2>2, <2>3, GrownIsAnOrder DEF StillThere
<1>3. ReportsAreTrue' BY <1>1 DEF ReportsAreTrue
<1>4. ReaderWhere'
  <2>1. FilesOK(store) BY StoreIsFiles DEF ReadInv, LogsOK, IInv
  <2>2. HeldFiles' = Files BY <1>0 DEF HeldFiles, Files
  <2> QED BY <1>0, <1>1, <2>1, <2>2 DEF ReaderWhere
<1>5. AbortsOnlyForARename' BY <1>0 DEF AbortsOnlyForARename
<1> QED BY <1>2, <1>3, <1>4, <1>5 DEF ReadInv

(* A step that reads nothing more leaves what was read.                    *)
LEMMA ReadStaysTrue ==
  ASSUME ReadInv, UNCHANGED <<held, reports, storeVars>>
  PROVE  StillThere' /\ ReportsAreTrue'
<1>0. /\ held' = held /\ reports' = reports /\ store' = store /\ opened' = opened
  BY DEF storeVars
<1>1. StillThere'
  BY <1>0 DEF ReadInv, StillThere, LogNames, Now
<1>2. ReportsAreTrue'
  BY <1>0 DEF ReadInv, ReportsAreTrue, HeldFiles, Now
<1> QED BY <1>1, <1>2

(* The next file of the list, and what it holds: the list is of files that *)
(* were there, so one that is there has lines.                             *)
LEMMA NextOfTheList ==
  ASSUME ReadInv, at = "read", todo # {}
  PROVE  /\ Earliest(todo) \in HeldFiles \ DOMAIN reports
         /\ Earliest(todo) \in Nat /\ todo = HeldFiles \ DOMAIN reports
         /\ held[Earliest(todo)] \in Contents
         /\ Earliest(todo) \in DOMAIN store =>
              /\ store[Earliest(todo)] \in Contents
              /\ Grown(held[Earliest(todo)], store[Earliest(todo)])
<1>1. todo = HeldFiles \ DOMAIN reports /\ FilesOK(held) BY DEF ReadInv, ReaderWhere
<1>2. todo \in SUBSET Nat BY <1>1 DEF HeldFiles, FilesOK
<1>3. Earliest(todo) \in todo BY <1>2, HasLeast DEF Earliest
<1> DEFINE n == Earliest(todo)
<1> HIDE DEF n
<1>4. n \in HeldFiles /\ n \in Nat /\ held[n] \in Contents
  BY <1>1, <1>2, <1>3 DEF n, HeldFiles, FilesOK
<1>5. ASSUME n \in DOMAIN store
      PROVE  store[n] \in Contents /\ Grown(held[n], store[n])
  <2>1. Grown(held[n], store[n]) BY <1>4, <1>5 DEF ReadInv, StillThere, Now, HeldFiles
  <2> QED BY <1>4, <2>1, GrownKeeps
<1> QED BY <1>1, <1>3, <1>4, <1>5 DEF n

LEMMA ReadLogTrue ==
  ASSUME ReadInv, LogsOK', ReadLog
  PROVE  ReadInv'
<1> DEFINE name == Earliest(todo)
<1>0. /\ at = "read" /\ held' = held /\ UNCHANGED storeVars /\ HeldFiles' = HeldFiles
      /\ store' = store /\ opened' = opened /\ todo # {}
  BY DEF ReadLog, storeVars, HeldFiles
<1>1. /\ name \in HeldFiles /\ name \notin DOMAIN reports /\ held[name] \in Contents
      /\ name \in DOMAIN held /\ todo = HeldFiles \ DOMAIN reports
      /\ name \in DOMAIN store =>
           store[name] \in Contents /\ Grown(held[name], store[name])
  BY <1>0, NextOfTheList DEF HeldFiles
<1>2. \/ /\ name \notin DOMAIN store \/ Raises(store[name])
         /\ at' = "answered" /\ answer' = FAILED /\ reports' = reports
      \/ /\ name \in DOMAIN store /\ ~ Raises(store[name])
         /\ reports' = Put(reports, name, Report(store[name]))
         /\ todo' = todo \ {name} /\ at' = at
  BY DEF ReadLog, Answered, Collect
<1> HIDE DEF name
<1>3. CASE /\ name \notin DOMAIN store \/ Raises(store[name])
           /\ at' = "answered" /\ answer' = FAILED /\ reports' = reports
  <2>1. StillThere' /\ ReportsAreTrue' BY <1>0, <1>3, ReadStaysTrue
  <2>2. ReaderWhere' BY <1>0, <1>3 DEF ReadInv, ReaderWhere, OK, FOUND, FAILED
  <2>3. AbortsOnlyForARename'
    <3>1. CASE name \notin DOMAIN store
      BY <1>0, <1>1, <3>1 DEF AbortsOnlyForARename
    <3>2. CASE name \in DOMAIN store /\ Raises(store[name])
      <4>1. ALIEN \in Members(held[name]) BY <1>1, <3>2, GrownKeeps DEF Raises
      <4>2. held[name] # None BY <1>1 DEF HeldFiles
      <4> QED BY <1>0, <1>1, <4>1, <4>2 DEF AbortsOnlyForARename
    <3> QED BY <1>3, <3>1, <3>2
  <2> QED BY <2>1, <2>2, <2>3 DEF ReadInv
<1>4. CASE /\ name \in DOMAIN store /\ ~ Raises(store[name])
           /\ reports' = Put(reports, name, Report(store[name]))
           /\ todo' = todo \ {name} /\ at' = at
  <2>1. /\ DOMAIN reports' = DOMAIN reports \cup {name}
        /\ reports'[name] = Report(store[name])
        /\ \A n \in DOMAIN reports : reports'[n] = reports[n]
    BY <1>1, <1>4 DEF Put
  <2>2. StillThere' BY <1>0 DEF ReadInv, StillThere, LogNames, Now
  <2>3. ReportsAreTrue'
    <3>1. \A n : Now(n)' = Now(n) BY <1>0 DEF Now
    <3>2. ASSUME NEW n \in DOMAIN reports'
          PROVE  /\ n \in HeldFiles
                 /\ \E lines : /\ reports'[n] = Report(lines)
                               /\ Grown(held[n], lines) /\ Grown(lines, Now(n))
      <4>1. CASE n = name
        <5>1. Now(name) = store[name] BY <1>4 DEF Now
        <5> QED BY <1>1, <1>4, <2>1, <4>1, <5>1, GrownIsAnOrder
      <4>2. CASE n # name
        BY <2>1, <4>2 DEF ReadInv, ReportsAreTrue
      <4> QED BY <4>1, <4>2
    <3> QED BY <1>0, <3>1, <3>2 DEF ReportsAreTrue
  <2>4. ReaderWhere'
    <3>1. todo' = HeldFiles \ DOMAIN reports' BY <1>1, <1>4, <2>1
    <3> QED BY <1>0, <1>4, <3>1 DEF ReadInv, ReaderWhere
  <2>5. AbortsOnlyForARename' BY <1>0, <1>4 DEF AbortsOnlyForARename
  <2> QED BY <2>2, <2>3, <2>4, <2>5 DEF ReadInv
<1> QED BY <1>2, <1>3, <1>4

LEMMA InventoryAnswersTrue ==
  ASSUME ReadInv, LogsOK', InventoryAnswers
  PROVE  ReadInv'
<1>0. /\ at = "read" /\ todo = {} /\ held' = held /\ reports' = reports
      /\ UNCHANGED <<held, reports, storeVars>> /\ store' = store
      /\ at' = "answered" /\ HeldFiles' = HeldFiles
      /\ answer' = IF reports = Empty THEN FAILED
                   ELSE IF Unreadable # {} THEN FOUND ELSE OK
  BY DEF InventoryAnswers, Answered, storeVars, HeldFiles
<1>1. DOMAIN reports = HeldFiles
  BY <1>0 DEF ReadInv, ReaderWhere, ReportsAreTrue
<1>2. StillThere' /\ ReportsAreTrue' BY <1>0, ReadStaysTrue
<1>3. Unreadable # {} <=> \E n \in DOMAIN reports : reports[n].error BY DEF Unreadable
<1>4. ReaderWhere'
  BY <1>0, <1>1, <1>3 DEF ReadInv, ReaderWhere, OK, FOUND, FAILED
<1>5. AbortsOnlyForARename'
  <2>1. answer' = FAILED => \A n \in DOMAIN held : held[n] = None
    BY <1>0, <1>1 DEF OK, FOUND, FAILED, Empty, HeldFiles
  <2> QED BY <1>0, <2>1 DEF AbortsOnlyForARename
<1> QED BY <1>2, <1>4, <1>5 DEF ReadInv

LEMMA ReaderTrue ==
  ASSUME ReadInv, LogsOK', ReaderStep
  PROVE  ReadInv'
<1>1. CASE ListLogs BY <1>1, ListLogsTrue
<1>2. CASE ReadLog BY <1>2, ReadLogTrue
<1>3. CASE InventoryAnswers BY <1>3, InventoryAnswersTrue
<1>4. CASE FirstLog \/ ProfileLog
  <2>1. /\ at \in {"first", "profile"} /\ at' \in {"profile", "answered"}
        /\ UNCHANGED <<held, reports, storeVars>>
    BY <1>4 DEF FirstLog, ProfileLog, Answered
  <2>2. held' = Empty /\ reports' = Empty /\ FilesOK(held')
    BY <2>1 DEF ReadInv, ReaderWhere
  <2>3. StillThere' /\ ReportsAreTrue' BY <2>1, ReadStaysTrue
  <2>4. ReaderWhere' BY <2>1, <2>2 DEF ReaderWhere
  <2>5. AbortsOnlyForARename' BY <2>2 DEF AbortsOnlyForARename
  <2> QED BY <2>3, <2>4, <2>5 DEF ReadInv
<1> QED BY <1>1, <1>2, <1>3, <1>4 DEF ReaderStep

-----------------------------------------------------------------------------
LEMMA LogsStay == LogsOK /\ [Next]_vars => LogsOK'
<1> SUFFICES ASSUME LogsOK, [Next]_vars PROVE LogsOK' OBVIOUS
<1>1. IInv' BY StepHolds DEF LogsOK
<1>2. OneNameEach' /\ LogsAreParts'
  <2>1. CASE \E c \in Captures : Writer(c)
    BY <2>1, CaptureGrows DEF Writer
  <2>2. CASE UNCHANGED storeVars
    BY <2>2, UnchangedGrows DEF storeVars
  <2>3. CASE Misbehave
    <3>1. /\ opened' = opened
          /\ Entry.does \in {"plants", "nests", "rewrites", "restores"}
          /\ store' = Left[Entry.does]
      BY <2>3 DEF Misbehave, Left
    <3>2. /\ DOMAIN store \subseteq DOMAIN store'
          /\ DOMAIN store' \subseteq DOMAIN store \cup {README, PLANTED, NESTED}
          /\ \A m \in DOMAIN store \ {README, PLANTED, NESTED} : store'[m] = store[m]
      <4>1. CASE Entry.does = "plants" BY <3>1, <4>1 DEF Left, Put
      <4>2. CASE Entry.does = "nests" BY <3>1, <4>2 DEF Left, Put
      <4>3. CASE Entry.does = "rewrites" BY <3>1, <4>3 DEF Left, Put
      <4>4. CASE Entry.does = "restores" BY <3>1, <4>4 DEF Left
      <4> QED BY <3>1, <4>1, <4>2, <4>3, <4>4
    <3>3. \A n \in 1 .. opened : /\ Final(n) \notin {README, PLANTED, NESTED}
                                 /\ InProgress(n) \notin {README, PLANTED, NESTED}
      <4>1. \A n \in 1 .. opened : n \in Nat /\ n # 0 BY DEF LogsOK, IInv, StoreTypeOK
      <4> QED BY <4>1, NamesApart
    <3>4. OneNameEach' BY <3>1, <3>2, <3>3 DEF LogsOK, OneNameEach
    <3>5. LogsAreParts'
      <4>1. LogNames' = LogNames BY <3>1 DEF LogNames
      <4>2. \A n \in LogNames : n \notin {README, PLANTED, NESTED} BY <3>3 DEF LogNames
      <4> QED BY <3>2, <4>1, <4>2 DEF LogsOK, LogsAreParts
    <3> QED BY <3>4, <3>5
  <2> QED
    BY <2>1, <2>2, <2>3 DEF Next, vars, ReaderStep, ListLogs, ReadLog, InventoryAnswers,
       FirstLog, ProfileLog, Check, Begin, Take, End, ReadFile, Run, Start, Over, Compare
<1> QED BY <1>1, <1>2 DEF LogsOK

LEMMA ReadInvStays == ReadInv /\ [Next]_vars => ReadInv'
<1> SUFFICES ASSUME ReadInv, [Next]_vars PROVE ReadInv' OBVIOUS
<1>0. LogsOK /\ LogsOK' BY LogsStay DEF ReadInv
<1>1. CASE \E c \in Captures : Writer(c)
  <2>1. DirectoryGrows /\ UNCHANGED readerVars BY <1>0, <1>1, CaptureGrows DEF Writer
  <2> QED BY <1>0, <2>1, BesideAReader
<1>2. CASE ReaderStep BY <1>0, <1>2, ReaderTrue
<1>3. CASE UNCHANGED <<storeVars, readerVars>>
  <2>1. DirectoryGrows /\ UNCHANGED readerVars
    BY <1>0, <1>3, UnchangedGrows DEF storeVars
  <2> QED BY <1>0, <2>1, BesideAReader
<1>4. CASE Start
  <2>1. /\ at = "idle" /\ at' \in {"list", "first"} /\ UNCHANGED <<held, reports, storeVars>>
    BY <1>4 DEF Start
  <2>2. StillThere' /\ ReportsAreTrue' BY <2>1, ReadStaysTrue
  <2>3. ReaderWhere' BY <2>1 DEF ReadInv, ReaderWhere
  <2>4. AbortsOnlyForARename' BY <2>1 DEF AbortsOnlyForARename
  <2> QED BY <1>0, <2>2, <2>3, <2>4 DEF ReadInv
<1>5. CASE Misbehave \/ Over
  <2>1. held' = Empty /\ reports' = Empty
    BY <1>5 DEF Misbehave, Over, ReadInv, ReaderWhere
  <2>2. DOMAIN held' = {} /\ DOMAIN reports' = {} BY <2>1 DEF Empty
  <2>3. StillThere' /\ ReportsAreTrue' BY <2>2 DEF StillThere, ReportsAreTrue
  <2>4. FilesOK(held') BY <2>2 DEF FilesOK
  <2>5. at' # "read" BY <1>5 DEF Misbehave, Over
  <2>6. ReaderWhere' BY <2>1, <2>4, <2>5 DEF ReaderWhere
  <2>7. AbortsOnlyForARename' BY <2>1 DEF AbortsOnlyForARename
  <2> QED BY <1>0, <2>3, <2>6, <2>7 DEF ReadInv
<1> QED
  BY <1>1, <1>2, <1>3, <1>4, <1>5
  DEF Next, Check, Begin, Take, End, ReadFile, Run, Compare, vars

LEMMA ReadInvInit == Init => ReadInv
<1> SUFFICES ASSUME Init PROVE ReadInv OBVIOUS
<1>1. IInv BY InitHolds
<1>2. opened = 0 /\ at = "idle" /\ held = Empty /\ reports = Empty
  BY DEF Init, StoreInit, ReaderInit
<1>3. DOMAIN held = {} /\ DOMAIN reports = {} BY <1>2 DEF Empty
<1>4. OneNameEach /\ LogsAreParts BY <1>2 DEF OneNameEach, LogsAreParts, LogNames
<1>5. StillThere /\ ReportsAreTrue BY <1>3 DEF StillThere, ReportsAreTrue
<1>6. FilesOK(held) BY <1>3 DEF FilesOK
<1>7. ReaderWhere BY <1>2, <1>6 DEF ReaderWhere
<1>8. AbortsOnlyForARename BY <1>2 DEF AbortsOnlyForARename
<1> QED BY <1>1, <1>4, <1>5, <1>7, <1>8 DEF ReadInv, LogsOK

THEOREM ReadersInvariant == Spec => []ReadInv
<1> QED BY ReadInvInit, ReadInvStays, PTL DEF Spec

(* eventlog.py:86 "Aborting would hide every log after it": whatever the   *)
(* files hold and however captures write meanwhile, an inventory is ended  *)
(* early by a log renamed in between or a file that is no text, and by     *)
(* nothing else.                                                           *)
THEOREM OnlyARenameAborts == Spec => []AbortsOnlyForARename
<1>1. ReadInv => AbortsOnlyForARename BY DEF ReadInv
<1> QED BY <1>1, ReadersInvariant, PTL

(* What an inventory answers is true of the time it took, though it reads  *)
(* each file at a different moment of it: every file listed is reported,   *)
(* with a count between what it held then and holds now, nothing it held   *)
(* then is said to be missing and everything it still lacks is.            *)
THEOREM InventoryIsTrue == Spec => []InventoryIsOfItsTime
<1>1. ReadInv => InventoryIsOfItsTime
  <2> SUFFICES ASSUME ReadInv, at = "answered", answer \in {OK, FOUND}, held # Empty
               PROVE  /\ DOMAIN reports = {n \in DOMAIN held : held[n] # None}
                      /\ answer = FOUND <=> \E n \in DOMAIN reports : reports[n].error
                      /\ \A n \in DOMAIN reports : ~reports[n].error =>
                           /\ reports[n].events \in Written(held[n]) .. Written(Now(n))
                           /\ reports[n].missing \cap WholeEvents(held[n]) = {}
                           /\ Consumes \ WholeEvents(Now(n)) \subseteq reports[n].missing
    BY DEF InventoryIsOfItsTime
  <2>1. /\ DOMAIN reports = HeldFiles
        /\ answer = FOUND <=> \E n \in DOMAIN reports : reports[n].error
    BY DEF ReadInv, ReaderWhere
  <2>2. ASSUME NEW n \in DOMAIN reports, ~ reports[n].error
        PROVE  /\ reports[n].events \in Written(held[n]) .. Written(Now(n))
               /\ reports[n].missing \cap WholeEvents(held[n]) = {}
               /\ Consumes \ WholeEvents(Now(n)) \subseteq reports[n].missing
    <3>1. PICK lines : /\ reports[n] = Report(lines)
                       /\ Grown(held[n], lines) /\ Grown(lines, Now(n))
      BY DEF ReadInv, ReportsAreTrue
    <3>2. held[n] \in Contents BY DEF ReadInv, ReportsAreTrue, ReaderWhere, HeldFiles, FilesOK
    <3>3. /\ lines \in Contents /\ Written(held[n]) \in Nat /\ Written(lines) \in Nat
          /\ Written(held[n]) <= Written(lines)
          /\ WholeEvents(held[n]) \subseteq WholeEvents(lines)
      BY <3>1, <3>2, GrownKeeps
    <3>4. /\ Written(Now(n)) \in Nat /\ Written(lines) <= Written(Now(n))
          /\ WholeEvents(lines) \subseteq WholeEvents(Now(n))
      BY <3>1, <3>3, GrownKeeps
    <3>5. ~ NotAnEventLog(lines) BY <2>2, <3>1 DEF Report
    <3>6. reports[n].events = Len(lines) /\ reports[n].missing = Consumes \ Members(lines)
      BY <3>1, <3>5 DEF Report
    <3>7. HALF \notin Members(lines) BY <3>5 DEF NotAnEventLog
    <3>8. Written(lines) = Len(lines)
      <4>1. lines # <<>> => Len(lines) \in DOMAIN lines BY <3>3 DEF Contents
      <4> QED BY <3>7, <4>1 DEF Torn, Members, Written
    <3>9. WholeEvents(lines) = Members(lines) BY <3>7 DEF WholeEvents
    <3> QED BY <3>3, <3>4, <3>6, <3>8, <3>9
  <2> QED BY <2>1, <2>2 DEF HeldFiles
<1> QED BY <1>1, ReadersInvariant, PTL

-----------------------------------------------------------------------------
(* The check's snapshots, against the store as it is.                      *)

Own == {README, PLANTED, NESTED}

Same(f, g, n) == /\ n \in DOMAIN f <=> n \in DOMAIN g
                 /\ n \in DOMAIN f => f[n] = g[n]

(* What a snapshot in progress has of a name, read or still to read.       *)
SnapshotOf(n) == /\ n \in DOMAIN seen \cup left <=> n \in DOMAIN store
                 /\ n \in DOMAIN seen => seen[n] = store[n]

(* No capture writes the names in Own, and nobody has written the others   *)
(* if nobody stirred: of those the snapshots can be trusted.               *)
Trusted(n) == n \in Own \/ ~ stirred

CheckWhere ==
  /\ command \in Nat
  /\ step # "run" => at = "idle"
  /\ step \in {"begin", "refused"} => command = 0
  /\ DOMAIN marks \subseteq 1 .. command /\ DOMAIN guilty \subseteq 1 .. command
  /\ step = "before" \/ (step = "run" /\ at = "idle") => command \notin DOMAIN marks
  /\ step \in {"before", "run", "after"} =>
       /\ command # 0 /\ command \notin DOMAIN guilty
       /\ Trace(command) \subseteq Own

SnapshotsHold ==
  scenario.checked => \A n :
    /\ step \in {"before", "after"} /\ Trusted(n) => SnapshotOf(n)
    /\ step \in {"run", "after"} /\ Trusted(n) =>
         (n \in Trace(command) <=> ~ Same(first, store, n))

CheckInv == CheckWhere /\ SnapshotsHold /\ NamedForATrace

LEMMA CaptureSparesOwn ==
  ASSUME IInv, NEW c \in Captures, CaptureStep(c), NEW n \in Own
  PROVE  /\ n \in DOMAIN store' <=> n \in DOMAIN store
         /\ n \in DOMAIN store => store'[n] = store[n]
<1>1. \A k \in Nat : k # 0 => n # Final(k) /\ n # InProgress(k)
  BY NamesApart DEF Own
<1>2. capture[c].log \in Nat /\ (capture[c].pc = "job" => capture[c].log # 0) /\ opened \in Nat
  BY OfACapture DEF OldThen
<1>3. CASE Before(c) \/ Die(c) \/ Return(c) BY <1>3 DEF Before, Die, Return
<1>4. CASE OpenLog(c)
  <2>1. opened + 1 \in Nat /\ opened + 1 # 0 BY <1>2
  <2>2. n # InProgress(opened + 1) BY <1>1, <2>1
  <2> QED BY <1>4, <2>2 DEF OpenLog, Put
<1>5. CASE WriteLine(c)
  <2>1. n # InProgress(capture[c].log) BY <1>1, <1>2, <1>5 DEF WriteLine
  <2> QED BY <1>5, <2>1 DEF WriteLine, Put
<1>6. CASE StopSession(c) \/ JobRaises(c)
  <2>1. n # InProgress(capture[c].log) /\ n # Final(capture[c].log)
    BY <1>1, <1>2, <1>6 DEF StopSession, JobRaises
  <2>2. store' = Renamed(c) BY <1>6 DEF StopSession, JobRaises
  <2> QED BY <2>1, <2>2 DEF Renamed, Put, Drop
<1> QED BY <1>3, <1>4, <1>5, <1>6 DEF CaptureStep

(* A step that leaves the registry where it is and what was found.         *)
LEMMA NamedStays ==
  ASSUME NamedForATrace, UNCHANGED <<scenario, command, guilty, excused>>,
         step' \in {"next", "done"} => step \in {"next", "done"},
         \A k \in 1 .. command :
           Trace(k)' = Trace(k) \/ (k = command /\ step' \notin {"next", "done"}),
         command \in Nat
  PROVE  NamedForATrace'
<1> SUFFICES ASSUME scenario.checked, NEW k \in Graded'
             PROVE  /\ Trace(k)' # {} => k \in DOMAIN guilty /\ Trace(k)' \subseteq guilty[k]
                    /\ k \in DOMAIN guilty => Trace(k)' # {} \/ k \in excused
  BY DEF NamedForATrace
<1>1. k \in Graded /\ k \in 1 .. command /\ (k < command \/ step' \in {"next", "done"})
  BY DEF Graded, Registry
<1>2. Trace(k)' = Trace(k) BY <1>1
<1> QED BY <1>1, <1>2 DEF NamedForATrace

LEMMA WriterChecks ==
  ASSUME IInv, CheckInv, NEW c \in Captures, Writer(c)
  PROVE  CheckInv'
<1>0. /\ UNCHANGED <<at, scenario, command, step, left, seen, first, guilty, marks, excused>>
      /\ CaptureStep(c)
      /\ stirred' = (stirred \/ (scenario.checked /\ step \in {"before", "run", "after"}
                                 /\ store' # store))
  BY DEF Writer, readerVars
<1>1. \A k : Trace(k)' = Trace(k) BY <1>0 DEF Trace
<1>2. CheckWhere' BY <1>0, <1>1 DEF CheckInv, CheckWhere
<1>3. NamedForATrace'
  BY <1>0, <1>1, NamedStays DEF CheckInv, CheckWhere
<1>4. SnapshotsHold'
  <2> SUFFICES ASSUME scenario.checked, step \in {"before", "run", "after"},
                      NEW n, Trusted(n)'
               PROVE  /\ step \in {"before", "after"} => SnapshotOf(n)'
                      /\ step \in {"run", "after"} =>
                           (n \in Trace(command) <=> ~ Same(first, store', n))
    BY <1>0, <1>1 DEF SnapshotsHold
  <2>1. Trusted(n) BY <1>0 DEF Trusted
  <2>2. /\ n \in DOMAIN store' <=> n \in DOMAIN store
        /\ n \in DOMAIN store => store'[n] = store[n]
    <3>1. CASE n \in Own BY <1>0, <3>1, CaptureSparesOwn
    <3>2. CASE n \notin Own BY <1>0, <3>2 DEF Trusted
    <3> QED BY <3>1, <3>2
  <2>3. /\ step \in {"before", "after"} => SnapshotOf(n)
        /\ step \in {"run", "after"} => (n \in Trace(command) <=> ~ Same(first, store, n))
    BY <2>1 DEF CheckInv, SnapshotsHold
  <2>4. SnapshotOf(n) => SnapshotOf(n)' BY <1>0, <2>2 DEF SnapshotOf
  <2>5. Same(first, store', n) <=> Same(first, store, n) BY <2>2 DEF Same
  <2> QED BY <2>3, <2>4, <2>5
<1> QED BY <1>2, <1>3, <1>4 DEF CheckInv

LEMMA ReaderChecks ==
  ASSUME CheckInv, ReaderStep, UNCHANGED checkVars
  PROVE  CheckInv'
<1>0. /\ store' = store /\ at # "idle" /\ at' # "idle"
      /\ UNCHANGED <<scenario, command, step, left, seen, first, guilty, marks, stirred,
                     excused>>
  BY DEF ReaderStep, ListLogs, ReadLog, InventoryAnswers, FirstLog, ProfileLog, Answered,
         storeVars, checkVars
<1>1. \A k : Trace(k)' = Trace(k) BY <1>0 DEF Trace
<1>2. CheckWhere' BY <1>0, <1>1 DEF CheckInv, CheckWhere
<1>3. NamedForATrace'
  BY <1>0, <1>1, NamedStays DEF CheckInv, CheckWhere
<1>4. SnapshotsHold'
  BY <1>0, <1>1 DEF CheckInv, SnapshotsHold, Trusted, SnapshotOf
<1> QED BY <1>2, <1>3, <1>4 DEF CheckInv

(* A snapshot that has just listed the store.                              *)
LEMMA WalkSees ==
  ASSUME Walk, store' = store
  PROVE  \A n : SnapshotOf(n)'
<1>1. left' = Files /\ DOMAIN seen' = DOMAIN store \ Files
      /\ \A n \in DOMAIN seen' : seen'[n] = None
  BY DEF Walk
<1>2. \A n \in DOMAIN store \ Files : store[n] = None BY DEF Files
<1>3. Files \subseteq DOMAIN store BY DEF Files
<1> QED BY <1>1, <1>2, <1>3 DEF SnapshotOf

LEMMA TakeChecks ==
  ASSUME CheckInv, Take
  PROVE  CheckInv'
<1>0. /\ step = "next" /\ at = "idle" /\ command \in Nat /\ command' = command + 1
      /\ store' = store /\ at' = at /\ scenario' = scenario
      /\ guilty' = guilty /\ marks' = marks /\ excused' = excused /\ stirred' = FALSE
      /\ DOMAIN marks \subseteq 1 .. command /\ DOMAIN guilty \subseteq 1 .. command
  BY DEF Take, CheckInv, CheckWhere, storeVars, readerVars
<1>1. \/ ~ scenario.checked /\ step' = "run"
      \/ scenario.checked /\ Registry[command + 1].effect = READ /\ step' = "before" /\ Walk
      \/ scenario.checked /\ Registry[command + 1].effect # READ /\ step' = "next"
  BY <1>0 DEF Take
<1>2. command' \notin DOMAIN marks /\ command' \notin DOMAIN guilty
      /\ 1 .. command \subseteq 1 .. command' /\ command' \in Nat
  BY <1>0
<1>3. \A k : Trace(k)' = Trace(k) BY <1>0 DEF Trace
<1>4. CheckWhere'
  <2>1. Trace(command') = {} BY <1>2 DEF Trace
  <2>2. Trace(command)' = {} BY <1>0, <1>2, <2>1 DEF Trace
  <2> QED BY <1>0, <1>1, <1>2, <2>2 DEF CheckWhere
<1>5. NamedForATrace'
  <2> SUFFICES ASSUME scenario.checked, NEW k \in Graded'
               PROVE  k \in Graded
    BY <1>0, <1>3 DEF NamedForATrace, CheckInv
  <2>1. k \in 1 .. command + 1 /\ Registry[k].effect = READ
        /\ (k < command + 1 \/ step' \in {"next", "done"})
    BY <1>0 DEF Graded, Registry
  <2>2. k # command + 1 BY <1>0, <1>1, <2>1
  <2> QED BY <1>0, <2>1, <2>2 DEF Graded
<1>6. SnapshotsHold'
  <2>1. CASE step' = "before" /\ Walk
    <3>1. \A n : SnapshotOf(n)' BY <1>0, <2>1, WalkSees
    <3> QED BY <2>1, <3>1 DEF SnapshotsHold
  <2>2. CASE step' \notin {"before", "run", "after"} BY <2>2 DEF SnapshotsHold
  <2>3. CASE ~ scenario.checked BY <1>0, <2>3 DEF SnapshotsHold
  <2> QED BY <1>1, <2>1, <2>2, <2>3
<1> QED BY <1>4, <1>5, <1>6 DEF CheckInv

LEMMA ReadFileChecks ==
  ASSUME CheckInv, ReadFile
  PROVE  CheckInv'
<1>0. /\ step \in {"before", "after"} /\ step' \in {step, "raised"} /\ store' = store
      /\ UNCHANGED <<at, scenario, command, first, guilty, marks, stirred, excused>>
  BY DEF ReadFile, storeVars, readerVars
<1>1. \A k : Trace(k)' = Trace(k) BY <1>0 DEF Trace
<1>2. CheckWhere' BY <1>0, <1>1 DEF CheckInv, CheckWhere
<1>3. NamedForATrace'
  BY <1>0, <1>1, NamedStays DEF CheckInv, CheckWhere
<1>4. SnapshotsHold'
  <2>1. CASE step' = "raised" BY <2>1 DEF SnapshotsHold
  <2>2. CASE step' # "raised"
    <3>1. PICK name \in left : /\ name \in DOMAIN store
                               /\ seen' = Put(seen, name, store[name])
                               /\ left' = left \ {name} /\ step' = step
      BY <2>2 DEF ReadFile, Digest
    <3>2. /\ DOMAIN seen' = DOMAIN seen \cup {name} /\ seen'[name] = store[name]
          /\ \A n \in DOMAIN seen : n # name => seen'[n] = seen[n]
      BY <3>1 DEF Put
    <3>3. \A n : SnapshotOf(n) => SnapshotOf(n)'
      BY <1>0, <3>1, <3>2 DEF SnapshotOf
    <3> QED BY <1>0, <1>1, <3>1, <3>3 DEF CheckInv, SnapshotsHold, Trusted
  <2> QED BY <2>1, <2>2
<1> QED BY <1>2, <1>3, <1>4 DEF CheckInv

LEMMA RunChecks ==
  ASSUME CheckInv, Run
  PROVE  CheckInv'
<1>0. /\ step = "before" /\ step' = "run" /\ left = {} /\ first' = seen /\ store' = store
      /\ UNCHANGED <<at, scenario, command, guilty, marks, stirred, excused>>
  BY DEF Run, Keep, storeVars, readerVars
<1>1. \A k : Trace(k)' = Trace(k) BY <1>0 DEF Trace
<1>2. CheckWhere' BY <1>0, <1>1 DEF CheckInv, CheckWhere
<1>3. NamedForATrace'
  BY <1>0, <1>1, NamedStays DEF CheckInv, CheckWhere
<1>4. SnapshotsHold'
  <2>1. \A n : SnapshotOf(n) => Same(first', store', n) BY <1>0 DEF SnapshotOf, Same
  <2>2. Trace(command)' = {} BY <1>0, <1>1 DEF CheckInv, CheckWhere, Trace
  <2> QED BY <1>0, <2>1, <2>2 DEF CheckInv, SnapshotsHold, Trusted
<1> QED BY <1>2, <1>3, <1>4 DEF CheckInv

LEMMA MisbehaveChecks ==
  ASSUME CheckInv, Misbehave
  PROVE  CheckInv'
<1> DEFINE own == {n \in DOMAIN store' : n \notin DOMAIN store \/ store'[n] # store[n]}
<1>0. /\ step = "run" /\ at = "idle" /\ at' = "answered" /\ marks' = Put(marks, command, own)
      /\ Entry.does \in {"plants", "nests", "rewrites", "restores"}
      /\ store' = Left[Entry.does]
      /\ UNCHANGED <<scenario, command, step, left, seen, first, guilty, stirred, excused>>
  BY DEF Misbehave, Left
<1>1. /\ DOMAIN store \subseteq DOMAIN store'
      /\ \A n : n \in DOMAIN store' /\ n \notin Own => n \in DOMAIN store /\ store'[n] = store[n]
  <2>1. CASE Entry.does = "plants" BY <1>0, <2>1 DEF Left, Put, Own
  <2>2. CASE Entry.does = "nests" BY <1>0, <2>2 DEF Left, Put, Own
  <2>3. CASE Entry.does = "rewrites" BY <1>0, <2>3 DEF Left, Put, Own
  <2>4. CASE Entry.does = "restores" BY <1>0, <2>4 DEF Left
  <2> QED BY <1>0, <2>1, <2>2, <2>3, <2>4
<1>2. own \subseteq Own BY <1>1
<1>3. \A n : n \in own <=> ~ Same(store, store', n) BY <1>1 DEF Same
<1> HIDE DEF own
<1>4. /\ DOMAIN marks' = DOMAIN marks \cup {command} /\ marks'[command] = own
      /\ \A k \in DOMAIN marks : k # command => marks'[k] = marks[k]
      /\ command \notin DOMAIN marks /\ command \in Nat
  BY <1>0 DEF Put, CheckInv, CheckWhere
<1>5. Trace(command) = {} /\ Trace(command)' = own
      /\ \A k : k # command => Trace(k)' = Trace(k)
  BY <1>0, <1>4 DEF Trace
<1>6. CheckWhere'
  <2>1. command \in 1 .. command BY <1>0, <1>4 DEF CheckInv, CheckWhere
  <2> QED BY <1>0, <1>2, <1>4, <1>5, <2>1 DEF CheckInv, CheckWhere
<1>7. NamedForATrace'
  BY <1>0, <1>4, <1>5, NamedStays DEF CheckInv
<1>8. SnapshotsHold'
  <2> SUFFICES ASSUME scenario.checked, NEW n, Trusted(n)
               PROVE  n \in own <=> ~ Same(first, store', n)
    BY <1>0, <1>5 DEF SnapshotsHold, Trusted
  <2>1. Same(first, store, n) BY <1>0, <1>5 DEF CheckInv, SnapshotsHold
  <2> QED BY <1>3, <2>1 DEF Same
<1> QED BY <1>6, <1>7, <1>8 DEF CheckInv

LEMMA OverChecks ==
  ASSUME CheckInv, Over
  PROVE  CheckInv'
<1>0. /\ step = "run" /\ at' = "idle" /\ store' = store
      /\ UNCHANGED <<scenario, command, guilty, marks, stirred, excused>>
      /\ \/ ~ scenario.checked /\ step' = "done"
         \/ scenario.checked /\ step' = "raised"
         \/ scenario.checked /\ step' = "after" /\ first' = first /\ Walk
  BY DEF Over, storeVars
<1>1. \A k : Trace(k)' = Trace(k) BY <1>0 DEF Trace
<1>2. CheckWhere' BY <1>0, <1>1 DEF CheckInv, CheckWhere
<1>3. NamedForATrace'
  <2>1. CASE ~ scenario.checked BY <1>0, <2>1 DEF NamedForATrace
  <2>2. CASE scenario.checked
    BY <1>0, <1>1, <2>2, NamedStays DEF CheckInv, CheckWhere
  <2> QED BY <2>1, <2>2
<1>4. SnapshotsHold'
  <2>1. CASE step' = "after" /\ first' = first /\ Walk
    <3>1. \A n : SnapshotOf(n)' BY <1>0, <2>1, WalkSees
    <3> QED BY <1>0, <1>1, <2>1, <3>1 DEF CheckInv, SnapshotsHold, Trusted
  <2>2. CASE step' # "after" BY <1>0, <2>2 DEF SnapshotsHold
  <2> QED BY <1>0, <2>1, <2>2
<1> QED BY <1>2, <1>3, <1>4 DEF CheckInv

(* What the two snapshots differ in is what the command changed, and what  *)
(* others did if they stirred.                                             *)
LEMMA CompareChecks ==
  ASSUME CheckInv, Compare
  PROVE  CheckInv'
<1> DEFINE moved == Differences(first, seen)
<1>0. /\ step = "after" /\ step' = "next" /\ left = {} /\ store' = store
      /\ UNCHANGED <<at, scenario, command, marks, stirred>>
      /\ guilty' = IF moved = {} THEN guilty ELSE Put(guilty, command, moved)
      /\ excused' = IF stirred THEN excused \cup {command} ELSE excused
  BY DEF Compare, storeVars, readerVars
<1>1. \A k : Trace(k)' = Trace(k) BY <1>0 DEF Trace
<1>2. \A n : n \in moved <=> ~ Same(first, seen, n) BY DEF Differences, Same
<1>3. scenario.checked => \A n : Trusted(n) => (n \in moved <=> n \in Trace(command))
  <2> SUFFICES ASSUME scenario.checked, NEW n, Trusted(n)
               PROVE  n \in moved <=> n \in Trace(command)
    OBVIOUS
  <2>1. SnapshotOf(n) /\ (n \in Trace(command) <=> ~ Same(first, store, n))
    BY <1>0 DEF CheckInv, SnapshotsHold
  <2>2. Same(first, seen, n) <=> Same(first, store, n) BY <1>0, <2>1 DEF SnapshotOf, Same
  <2> QED BY <1>2, <2>1, <2>2
<1> HIDE DEF moved
<1>4. /\ command \in Nat /\ command # 0 /\ command \notin DOMAIN guilty
      /\ Trace(command) \subseteq Own
  BY <1>0 DEF CheckInv, CheckWhere
<1>5. /\ moved # {} => /\ DOMAIN guilty' = DOMAIN guilty \cup {command}
                       /\ guilty'[command] = moved
      /\ moved = {} => guilty' = guilty
      /\ \A k : k # command => /\ k \in DOMAIN guilty' <=> k \in DOMAIN guilty
                               /\ k \in DOMAIN guilty => guilty'[k] = guilty[k]
                               /\ k \in excused => k \in excused'
  BY <1>0 DEF Put
<1>6. CheckWhere'
  <2>1. command \in 1 .. command BY <1>4
  <2> QED BY <1>0, <1>1, <1>5, <2>1 DEF CheckInv, CheckWhere
<1>7. NamedForATrace'
  <2> SUFFICES ASSUME scenario.checked, NEW k \in Graded'
               PROVE  /\ Trace(k) # {} => k \in DOMAIN guilty' /\ Trace(k) \subseteq guilty'[k]
                      /\ k \in DOMAIN guilty' => Trace(k) # {} \/ k \in excused'
    BY <1>0, <1>1 DEF NamedForATrace
  <2>1. CASE k = command
    <3>1. Trace(command) \subseteq moved BY <1>3, <1>4 DEF Trusted
    <3>2. command \in DOMAIN guilty' => moved # {} BY <1>4, <1>5
    <3>3. ~ stirred => moved = Trace(command) BY <1>3 DEF Trusted
    <3> QED BY <1>0, <1>5, <2>1, <3>1, <3>2, <3>3
  <2>2. CASE k # command
    <3>1. k \in Graded BY <1>0, <1>4, <2>2 DEF Graded, Registry
    <3> QED BY <1>5, <2>2, <3>1 DEF CheckInv, NamedForATrace
  <2> QED BY <2>1, <2>2
<1>8. SnapshotsHold' BY <1>0 DEF SnapshotsHold
<1> QED BY <1>6, <1>7, <1>8 DEF CheckInv

LEMMA OtherChecks ==
  ASSUME CheckInv, Begin \/ End \/ Start \/ UNCHANGED vars
  PROVE  CheckInv'
<1>0. /\ store' = store
      /\ UNCHANGED <<scenario, command, left, seen, first, guilty, marks, stirred, excused>>
      /\ \/ step = "begin" /\ at' = at /\ step' \in {"next", "refused"}
         \/ step = "next" /\ at' = at /\ step' = "done"
         \/ step = "run" /\ step' = step /\ at = "idle"
         \/ step' = step /\ at' = at
  BY DEF Begin, End, Start, vars, storeVars, readerVars, checkVars
<1>1. \A k : Trace(k)' = Trace(k) BY <1>0 DEF Trace
<1>2. CheckWhere' BY <1>0, <1>1 DEF CheckInv, CheckWhere
<1>3. NamedForATrace'
  <2>1. CASE step = "begin"
    <3>1. Graded' = {} BY <1>0, <2>1 DEF Graded, CheckInv, CheckWhere
    <3> QED BY <3>1 DEF NamedForATrace
  <2>2. CASE step # "begin"
    BY <1>0, <1>1, <2>2, NamedStays DEF CheckInv, CheckWhere
  <2> QED BY <2>1, <2>2
<1>4. SnapshotsHold'
  BY <1>0, <1>1 DEF CheckInv, SnapshotsHold, Trusted, SnapshotOf
<1> QED BY <1>2, <1>3, <1>4 DEF CheckInv

LEMMA CheckInvInit == Init => CheckInv
<1> SUFFICES ASSUME Init PROVE CheckInv OBVIOUS
<1>1. /\ command = 0 /\ step = "begin" /\ at = "idle"
      /\ DOMAIN marks = {} /\ DOMAIN guilty = {}
  BY DEF Init, ReaderInit, Empty
<1>2. CheckWhere BY <1>1 DEF CheckWhere
<1>3. SnapshotsHold BY <1>1 DEF SnapshotsHold
<1>4. NamedForATrace
  <2>1. Graded = {} BY <1>1 DEF Graded
  <2> QED BY <2>1 DEF NamedForATrace
<1> QED BY <1>2, <1>3, <1>4 DEF CheckInv

LEMMA CheckInvStays == IInv /\ CheckInv /\ [Next]_vars => CheckInv'
<1> SUFFICES ASSUME IInv, CheckInv, [Next]_vars PROVE CheckInv' OBVIOUS
<1>1. CASE \E c \in Captures : Writer(c) BY <1>1, WriterChecks
<1>2. CASE ReaderStep /\ UNCHANGED checkVars BY <1>2, ReaderChecks
<1>3. CASE Check
  BY <1>3, OtherChecks, TakeChecks, ReadFileChecks, RunChecks, MisbehaveChecks, OverChecks,
     CompareChecks DEF Check
<1>4. CASE UNCHANGED vars BY <1>4, OtherChecks
<1> QED BY <1>1, <1>2, <1>3, <1>4 DEF Next

(* contract.py:41 "return the names that changed it": every read that      *)
(* changed the store itself is named for all it changed, whatever captures *)
(* write into it meanwhile, and a read that changed nothing is named only  *)
(* if one of them wrote between its two snapshots.                         *)
THEOREM WhoeverChangedItIsNamed == Spec => []NamedForATrace
<1>1. IInv /\ CheckInv /\ [Next]_vars => (IInv /\ CheckInv)'
  BY StepHolds, CheckInvStays
<1>2. Init => IInv /\ CheckInv BY InitHolds, CheckInvInit
<1>3. CheckInv => NamedForATrace BY DEF CheckInv
<1> QED BY <1>1, <1>2, <1>3, PTL DEF Spec
=============================================================================
