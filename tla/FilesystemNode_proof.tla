------------------------ MODULE FilesystemNode_proof ------------------------
(***************************************************************************)
(* Theorems about FilesystemNode: a message that was saved is in its file, *)
(* however the saves, the pickups and the flushes come between each other, *)
(* unless another save has the same nanosecond in the same directory; no   *)
(* stream takes in a second chunk; and a pickup takes the oldest messages  *)
(* first, of all directories.  For any number of messages, directories and *)
(* tasks, and any length of a second.                                      *)
(***************************************************************************)
EXTENDS FilesystemNode, FiniteSetTheorems, WellFoundedInduction, TLAPS

-----------------------------------------------------------------------------
\* Where the directory of a call matters: no directory is made for the base directory, a
\* call of add_channel writes no file, and a call that has begun has a time.
SaveGoes(x) ==
  /\ save[x].pc \in {"dir", "mkdir"} => Dir[x] # Base
  /\ save[x].pc \in {"create", "writing"} => x \in Msgs
  /\ save[x].pc = "no" <=> save[x].time = None

\* A message that has its nanosecond to itself in its directory.
OwnTime(m) == \A x \in Msgs \ {m} : Dir[x] = Dir[m] => save[x].time # save[m].time

\* Its file is there, empty or with its data.
Filed(m) ==
  OwnTime(m) => /\ save[m].pc = "writing" => File(m, None) \in files
                /\ save[m].pc = "written" => File(m, m) \in files

Saves == (\A x \in Msgs \cup Adds : SaveGoes(x)) /\ \A m \in Msgs : Filed(m)

\* The first chunk is taken in by a task that keeps the entry.
OneChunk ==
  got # {} => writer # None /\ \E n \in 0..1 : got = {n}

\* A time that is no later has no more seconds.
LEMMA SecondsInOrder ==
  ASSUME NEW t \in Nat, NEW u \in Nat, t <= u
  PROVE  Seconds(t) \in Nat /\ Seconds(u) \in Nat /\ Seconds(t) <= Seconds(u)
<1> USE FilesystemNodeAssumption
<1> DEFINE a == t \div Second
           b == u \div Second
<1>1. a \in Int /\ b \in Int /\ Second \in Nat /\ Second > 0
  OBVIOUS
<1>2. /\ Second * a <= t /\ t < Second * (a + 1)
      /\ Second * b <= u /\ u < Second * (b + 1)
  OBVIOUS
<1> HIDE DEF a, b
<1>3. a >= 0 /\ b >= 0
  <2>1. ASSUME NEW k \in Int, k < 0
        PROVE  Second * (k + 1) <= 0
    <3>1. k + 1 <= 0
      BY <2>1
    <3>2. QED
      BY <1>1, <3>1
  <2>2. QED
    BY <1>1, <1>2, <2>1
<1>4. a <= b
  <2> SUFFICES ASSUME b + 1 <= a PROVE FALSE
    BY <1>1
  <2>1. Second * (b + 1) <= Second * a
    BY <1>1
  <2>2. Second * (b + 1) \in Int /\ Second * a \in Int
    BY <1>1
  <2>3. QED
    BY <1>2, <2>1, <2>2
<1>5. QED
  BY <1>1, <1>3, <1>4 DEF Seconds, a, b

\* No file is old enough for a flush: its cutoff counts seconds.
LEMMA NothingFlushed ==
  ASSUME TypeOK, Flush
  PROVE  files' = files
<1> USE FilesystemNodeAssumption
<1>1. now \in Nat /\ MaxNow \in Nat /\ now <= MaxNow /\ Age \in Nat /\ Epoch \in Nat
  BY DEF TypeOK, Times
<1>2. Seconds(now) \in Nat /\ Seconds(MaxNow) \in Nat /\ Seconds(now) <= Seconds(MaxNow)
  BY <1>1, SecondsInOrder
<1>3. Seconds(MaxNow) < Epoch
  BY <1>1, <1>2 DEF Seconds
<1>4. \A f \in files : f.time \in Int /\ f.time >= Epoch
  BY <1>1 DEF TypeOK, Times
<1>5. \A f \in files : ~(f.time < Seconds(now) - Age)
  BY <1>1, <1>2, <1>3, <1>4
<1>6. QED
  BY <1>5 DEF Flush

Labels == {"no", "dir", "mkdir", "create", "writing", "written", "failed"}
Saving == [pc : Labels, time : Times \cup {None}]
FileSet == [dir : Directories, time : Times, data : Msgs \cup {None}, whole : BOOLEAN]
FoundSet == [time : Times, data : Msgs \cup {None}, whole : BOOLEAN]
Pickups == [pc : {"no", "base", "dirs"}, since : 0..Seconds(MaxNow),
            todo : SUBSET Directories, found : SUBSET FoundSet, known : SUBSET Msgs]

\* The first state.
LEMMA InitTypes == Init => TypeOK /\ Saves /\ OneChunk
<1> SUFFICES ASSUME Init PROVE TypeOK /\ Saves /\ OneChunk
  OBVIOUS
<1> USE FilesystemNodeAssumption
<1>1. save \in [Msgs \cup Adds -> Saving]
  BY DEF Init, NotSaved, Saving, Labels
<1>2. pick \in Pickups
  <2>1. 0 \in 0..Seconds(MaxNow)
    BY SecondsInOrder
  <2>2. QED
    BY <2>1 DEF Init, NoPickup, Pickups
<1>3. now \in Times
  BY DEF Init, Times
<1>4. TypeOK
  BY <1>1, <1>2, <1>3 DEF Init, TypeOK, Saving, Labels, Pickups, FoundSet
<1>5. Saves /\ OneChunk
  BY DEF Init, NotSaved, Saves, SaveGoes, Filed, OneChunk
<1>6. QED
  BY <1>4, <1>5

\* What was found, put with the files of one directory more.
LEMMA FoundTyped ==
  ASSUME TypeOK, NEW d
  PROVE  With(d) \subseteq FoundSet
<1>1. \A f \in files : Entry(f) \in FoundSet
  BY DEF TypeOK, FoundSet, Entry
<1>2. pick.found \subseteq FoundSet
  BY DEF TypeOK, FoundSet
<1>3. QED
  BY <1>1, <1>2 DEF With

\* A call of save_message or ensure_channel_dir goes on.
LEMMA SaveTyped ==
  ASSUME TypeOK, NEW x \in Msgs \cup Adds, NEW label \in Labels, Goto(x, label)
  PROVE  /\ save' \in [Msgs \cup Adds -> Saving]
         /\ save'[x].pc = label /\ save'[x].time = save[x].time
         /\ \A y \in (Msgs \cup Adds) \ {x} : save'[y] = save[y]
<1>1. save \in [Msgs \cup Adds -> Saving]
  BY DEF TypeOK, Saving, Labels
<1>2. QED
  BY <1>1 DEF Goto, Saving

\* Every step keeps the types.
LEMMA StepTypes ==
  ASSUME TypeOK, Saves, [Next]_vars
  PROVE  TypeOK'
<1> USE FilesystemNodeAssumption
<1>0. /\ now \in Times /\ dirs \subseteq Directories \ {Base}
      /\ files \subseteq FileSet
      /\ save \in [Msgs \cup Adds -> Saving] /\ pick \in Pickups
      /\ stream \in Totals \cup {None} /\ got \subseteq 0..1
      /\ writer \in Tasks \cup {None} /\ readers \subseteq Tasks /\ events \in Nat
  BY DEF TypeOK, FileSet, Saving, Labels, Pickups, FoundSet
<1>1. ASSUME now' \in Times, dirs' \subseteq Directories \ {Base}, files' \subseteq FileSet,
             save' \in [Msgs \cup Adds -> Saving], pick' \in Pickups, UNCHANGED entry
      PROVE  TypeOK'
  BY <1>0, <1>1 DEF TypeOK, entry, FileSet, Saving, Labels, Pickups, FoundSet
<1>2. CASE Tick
  <2>1. now' \in Times
    BY <1>0, <1>2 DEF Tick, Times
  <2>2. QED
    BY <1>0, <1>1, <1>2, <2>1 DEF Tick, store
<1>3. ASSUME NEW x \in Msgs \cup Adds, SaveBegin(x) \/ CheckDir(x) \/ MakeDir(x)
      PROVE  TypeOK'
  <2>1. save' \in [Msgs \cup Adds -> Saving]
    <3>1. CASE SaveBegin(x)
      <4>1. [pc |-> IF Dir[x] = Base THEN "create" ELSE "dir", time |-> now] \in Saving
        BY <1>0 DEF Saving, Labels
      <4>2. QED
        BY <1>0, <3>1, <4>1 DEF SaveBegin
    <3>2. CASE CheckDir(x) \/ MakeDir(x)
      <4>1. PICK label \in Labels : Goto(x, label)
        BY <3>2 DEF CheckDir, MakeDir, WithDir, Labels
      <4>2. QED
        BY <4>1, SaveTyped
    <3>3. QED
      BY <1>3, <3>1, <3>2
  <2>2. dirs' \subseteq Directories \ {Base}
    <3>1. CASE MakeDir(x)
      <4>1. Dir[x] \in Directories /\ Dir[x] # Base
        BY <3>1 DEF MakeDir, Saves, SaveGoes, Directories
      <4>2. QED
        BY <1>0, <3>1, <4>1 DEF MakeDir
    <3>2. QED
      BY <1>0, <1>3, <3>1 DEF SaveBegin, CheckDir, store
  <2>3. UNCHANGED <<now, files, pick, entry>>
    BY <1>3 DEF SaveBegin, CheckDir, MakeDir, store
  <2>4. QED
    BY <1>0, <1>1, <2>1, <2>2, <2>3
<1>4. ASSUME NEW x \in Msgs \cup Adds, Create(x) \/ Write(x)
      PROVE  TypeOK'
  <2>1. save' \in [Msgs \cup Adds -> Saving]
    <3>1. PICK label \in Labels : Goto(x, label)
      BY <1>4 DEF Create, Write, Labels
    <3>2. QED
      BY <3>1, SaveTyped
  <2>2. x \in Msgs /\ save[x].time \in Times
    <3>1. save[x].pc \in {"create", "writing"}
      BY <1>4 DEF Create, Write
    <3>2. QED
      BY <1>0, <3>1 DEF Saves, SaveGoes, Saving
  <2>3. \A data \in Msgs \cup {None} : File(x, data) \in FileSet
    BY <2>2 DEF File, FileSet, Directories
  <2>4. files' \subseteq FileSet
    <3>1. \A f \in FileSet : [f EXCEPT !.whole = FALSE] \in FileSet
      BY DEF FileSet
    <3>2. CASE Create(x)
      BY <1>0, <2>2, <2>3, <3>2 DEF Create
    <3>3. CASE Write(x)
      BY <1>0, <2>2, <2>3, <3>1, <3>3 DEF Write
    <3>4. QED
      BY <1>4, <3>2, <3>3
  <2>5. QED
    BY <1>0, <1>1, <1>4, <2>1, <2>4 DEF Create, Write
<1>5. CASE Flush
  BY <1>0, <1>1, <1>5, NothingFlushed DEF Flush
<1>6. ASSUME NEW s \in {0, Seconds(now)}, PickupBegin(s)
      PROVE  TypeOK'
  <2>1. s \in 0..Seconds(MaxNow)
    BY <1>0, SecondsInOrder DEF Times
  <2>2. pick' \in Pickups
    BY <1>6, <2>1 DEF PickupBegin, NoPickup, Pickups
  <2>3. QED
    BY <1>0, <1>1, <1>6, <2>2 DEF PickupBegin, store
<1>7. CASE PickupBase \/ (\E d \in dirs : PickupDir(d)) \/ PickupEnd
  <2>1. \A d : With(d) \in SUBSET FoundSet
    BY FoundTyped
  <2>2. NoPickup \in Pickups
    <3>1. 0 \in 0..Seconds(MaxNow)
      BY SecondsInOrder
    <3>2. QED
      BY <3>1 DEF NoPickup, Pickups
  <2>3. pick' \in Pickups
    <3>1. CASE PickupBase
      <4>1. dirs \in SUBSET Directories
        BY <1>0
      <4>2. QED
        BY <1>0, <2>1, <3>1, <4>1 DEF PickupBase, Pickups
    <3>2. ASSUME NEW d \in dirs, PickupDir(d)
          PROVE  pick' \in Pickups
      BY <1>0, <2>1, <3>2 DEF PickupDir, Pickups
    <3>3. QED
      BY <1>7, <2>2, <3>1, <3>2 DEF PickupEnd
  <2>4. UNCHANGED <<now, dirs, files, save, entry>>
    BY <1>7 DEF PickupBase, PickupDir, PickupEnd, store
  <2>5. QED
    BY <1>0, <1>1, <2>3, <2>4
<1>8. ASSUME NEW t \in Tasks,
             \/ \E n \in Totals : AddStream(t, n)
             \/ \E n \in 0..1 : AddChunk(t, n)
             \/ CheckStreamComplete(t)
      PROVE  TypeOK'
  <2>1. UNCHANGED <<now, dirs, files, save, pick>>
    BY <1>8 DEF AddStream, AddChunk, CheckStreamComplete, store
  <2>2. /\ stream' \in Totals \cup {None} /\ got' \subseteq 0..1
        /\ writer' \in Tasks \cup {None} /\ readers' \subseteq Tasks /\ events' \in Nat
    <3>1. CASE \E n \in Totals : AddStream(t, n)
      BY <1>0, <3>1 DEF AddStream
    <3>2. CASE \E n \in 0..1 : AddChunk(t, n)
      BY <1>0, <3>2 DEF AddChunk
    <3>3. CASE CheckStreamComplete(t)
      <4>1. readers' \subseteq Tasks /\ events' \in Nat
        BY <1>0, <3>3 DEF CheckStreamComplete
      <4>2. QED
        BY <1>0, <3>3, <4>1 DEF CheckStreamComplete
    <3>4. QED
      BY <1>8, <3>1, <3>2, <3>3
  <2>3. QED
    BY <2>1, <2>2 DEF TypeOK
<1>9. CASE UNCHANGED vars
  BY <1>9 DEF vars, store, entry, TypeOK
<1>10. CASE Next
  <2>1. CASE \E x \in Msgs \cup Adds :
               SaveBegin(x) \/ CheckDir(x) \/ MakeDir(x) \/ Create(x) \/ Write(x)
    BY <2>1, <1>3, <1>4
  <2>2. CASE \E s \in {0, Seconds(now)} : PickupBegin(s)
    BY <2>2, <1>6
  <2>3. CASE \E t \in Tasks :
               \/ \E n \in Totals : AddStream(t, n)
               \/ \E n \in 0..1 : AddChunk(t, n)
               \/ CheckStreamComplete(t)
    BY <2>3, <1>8
  <2>4. QED
    BY <1>2, <1>5, <1>7, <1>10, <2>1, <2>2, <2>3 DEF Next
<1>11. QED
  BY <1>9, <1>10

\* Every save goes its way, and no other save and no flush touches a file that has its
\* nanosecond to itself.
LEMMA StepSaves ==
  ASSUME TypeOK, Saves, [Next]_vars
  PROVE  Saves'
<1> USE FilesystemNodeAssumption
<1>0. /\ save \in [Msgs \cup Adds -> Saving] /\ now \in Times
      /\ (\A x \in Msgs \cup Adds : SaveGoes(x)) /\ \A m \in Msgs : Filed(m)
      /\ \A x \in Adds : x \notin Msgs /\ Dir[x] # Base
  BY DEF TypeOK, Saving, Labels, Saves
<1>1. CASE UNCHANGED <<save, files>>
  BY <1>1 DEF Saves, SaveGoes, Filed, OwnTime, File
<1>2. ASSUME NEW x \in Msgs \cup Adds, SaveBegin(x)
      PROVE  Saves'
  <2>1. /\ files' = files /\ save[x].pc = "no"
        /\ save'[x].pc = IF Dir[x] = Base THEN "create" ELSE "dir"
        /\ save'[x].time = now /\ now # None
        /\ \A y \in (Msgs \cup Adds) \ {x} : save'[y] = save[y]
    BY <1>0, <1>2 DEF SaveBegin, store, Times
  <2>2. \A y \in Msgs \cup Adds : SaveGoes(y)'
    BY <1>0, <2>1 DEF SaveGoes
  <2>3. ASSUME NEW m \in Msgs, OwnTime(m)', save'[m].pc \in {"writing", "written"}
        PROVE  m # x /\ OwnTime(m)
    <3>1. m # x
      BY <2>1, <2>3
    <3>2. save[m].time # None
      BY <1>0, <2>1, <2>3, <3>1 DEF SaveGoes
    <3>3. save[x].time # save[m].time
      BY <1>0, <2>1, <3>2 DEF SaveGoes
    <3>4. QED
      BY <2>1, <2>3, <3>1, <3>3 DEF OwnTime
  <2>4. \A m \in Msgs : Filed(m)'
    BY <1>0, <2>1, <2>3 DEF Filed, File
  <2>5. QED
    BY <2>2, <2>4 DEF Saves
<1>3. ASSUME NEW x \in Msgs \cup Adds, CheckDir(x) \/ MakeDir(x)
      PROVE  Saves'
  <2>1. PICK label \in Labels :
          /\ Goto(x, label) /\ label \notin {"no", "writing"}
          /\ label = "mkdir" => save[x].pc = "dir"
          /\ label = "create" => x \in Msgs
          /\ label = "written" => x \in Adds
          /\ label # "dir"
    BY <1>3 DEF CheckDir, MakeDir, WithDir, Labels
  <2>2. /\ save'[x].pc = label /\ save'[x].time = save[x].time
        /\ \A y \in (Msgs \cup Adds) \ {x} : save'[y] = save[y]
        /\ files' = files /\ save[x].pc \in {"dir", "mkdir"}
    BY <1>3, <2>1, SaveTyped DEF CheckDir, MakeDir, store
  <2>3. \A y \in Msgs \cup Adds : SaveGoes(y)'
    BY <1>0, <2>1, <2>2 DEF SaveGoes
  <2>4. \A m \in Msgs : OwnTime(m)' = OwnTime(m)
    BY <2>2 DEF OwnTime
  <2>5. ASSUME NEW m \in Msgs
        PROVE  Filed(m)'
    <3>1. CASE m = x
      <4>1. save'[m].pc \notin {"writing", "written"}
        BY <1>0, <2>1, <2>2, <3>1
      <4>2. QED
        BY <4>1 DEF Filed
    <3>2. CASE m # x
      <4>1. save'[m] = save[m] /\ files' = files /\ \A data : File(m, data)' = File(m, data)
        BY <2>2, <3>2 DEF File
      <4>2. Filed(m)
        BY <1>0
      <4>3. QED
        BY <2>4, <4>1, <4>2 DEF Filed
    <3>3. QED
      BY <3>1, <3>2
  <2>6. QED
    BY <2>3, <2>5 DEF Saves
<1>4. ASSUME NEW x \in Msgs \cup Adds, Create(x) \/ Write(x)
      PROVE  Saves'
  <2>1. save[x].pc \in {"create", "writing"} /\ x \in Msgs
    BY <1>0, <1>4 DEF Create, Write, SaveGoes
  <2>2. PICK label \in Labels :
          /\ Goto(x, label)
          /\ \/ Create(x) /\ label = "writing"
             \/ Write(x) /\ label = "written"
    BY <1>4 DEF Create, Write, Labels
  <2>3. /\ save'[x].pc = label /\ save'[x].time = save[x].time
        /\ \A y \in (Msgs \cup Adds) \ {x} : save'[y] = save[y]
    BY <2>2, SaveTyped
  <2>4. \A y \in Msgs \cup Adds : SaveGoes(y)'
    BY <1>0, <2>1, <2>2, <2>3 DEF SaveGoes
  <2>5. \A m \in Msgs : OwnTime(m)' = OwnTime(m) /\ save'[m].time = save[m].time
    BY <2>3 DEF OwnTime
  <2>6. ASSUME NEW m \in Msgs, m # x, OwnTime(m), NEW data, File(m, data) \in files
        PROVE  File(m, data) \in files'
    <3>1. ~SameFile(File(m, data), x)
      BY <2>1, <2>6 DEF OwnTime, SameFile, File
    <3>2. QED
      BY <1>4, <2>6, <3>1 DEF Create, Write
  <2>7. ASSUME NEW m \in Msgs, m # x, Filed(m)
        PROVE  Filed(m)'
    <3>1. save'[m] = save[m] /\ \A data : File(m, data)' = File(m, data)
      BY <2>3, <2>7 DEF File
    <3>2. QED
      BY <2>5, <2>6, <2>7, <3>1 DEF Filed
  <2>8. Filed(x)'
    <3>1. \A data : File(x, data)' = File(x, data)
      BY <2>3 DEF File
    <3>2. CASE Create(x)
      BY <2>2, <2>3, <3>1, <3>2 DEF Create, Write, Filed
    <3>3. CASE Write(x)
      <4>1. OwnTime(x) => File(x, None) \in files
        BY <1>0, <2>1, <3>3 DEF Write, Filed
      <4>2. SameFile(File(x, None), x) /\ File(x, None).data = None
        BY DEF SameFile, File
      <4>3. File(x, None) \in files => File(x, x) \in files'
        BY <3>3, <4>2 DEF Write
      <4>4. save'[x].pc = "written"
        BY <2>2, <2>3, <3>3 DEF Create, Write
      <4>5. QED
        BY <2>1, <2>5, <3>1, <4>1, <4>3, <4>4 DEF Filed
    <3>4. QED
      BY <1>4, <3>2, <3>3
  <2>9. \A m \in Msgs : Filed(m)'
    BY <1>0, <2>7, <2>8
  <2>10. QED
    BY <2>4, <2>9 DEF Saves
<1>5. CASE Flush
  BY <1>1, <1>5, NothingFlushed DEF Flush
<1>6. CASE Next
  <2>1. CASE \E x \in Msgs \cup Adds :
               SaveBegin(x) \/ CheckDir(x) \/ MakeDir(x) \/ Create(x) \/ Write(x)
    BY <2>1, <1>2, <1>3, <1>4
  <2>2. ASSUME NEW s, PickupBegin(s)
        PROVE  UNCHANGED <<save, files>>
    BY <2>2 DEF PickupBegin, store
  <2>3. ASSUME NEW d, PickupDir(d)
        PROVE  UNCHANGED <<save, files>>
    BY <2>3 DEF PickupDir, store
  <2>4. ASSUME NEW t, NEW n, AddStream(t, n) \/ AddChunk(t, n) \/ CheckStreamComplete(t)
        PROVE  UNCHANGED <<save, files>>
    BY <2>4 DEF AddStream, AddChunk, CheckStreamComplete, store
  <2>5. Tick \/ PickupBase \/ PickupEnd => UNCHANGED <<save, files>>
    BY DEF Tick, PickupBase, PickupEnd, store
  <2>6. QED
    BY <1>1, <1>5, <1>6, <2>1, <2>2, <2>3, <2>4, <2>5 DEF Next
<1>7. CASE UNCHANGED vars
  BY <1>1, <1>7 DEF vars, store
<1>8. QED
  BY <1>6, <1>7

\* The entry is given back by no task that has taken in a chunk.
LEMMA StepOneChunk ==
  ASSUME TypeOK, OneChunk, [Next]_vars
  PROVE  OneChunk'
<1> USE FilesystemNodeAssumption
<1>1. CASE UNCHANGED <<got, writer>>
  BY <1>1 DEF OneChunk
<1>2. ASSUME NEW t \in Tasks, NEW n, AddStream(t, n)
      PROVE  OneChunk'
  BY <1>2 DEF AddStream, OneChunk
<1>3. ASSUME NEW t \in Tasks, NEW n \in 0..1, AddChunk(t, n)
      PROVE  OneChunk'
  <2>1. got = {} /\ got' = got \cup {n} /\ writer' = t
    BY <1>3 DEF AddChunk, Free, OneChunk
  <2>2. QED
    BY <2>1 DEF OneChunk
<1>4. QED
  <2>1. ASSUME NEW x, SaveBegin(x) \/ CheckDir(x) \/ MakeDir(x) \/ Create(x) \/ Write(x)
        PROVE  UNCHANGED <<got, writer>>
    BY <2>1 DEF SaveBegin, CheckDir, MakeDir, Create, Write, entry
  <2>2. ASSUME NEW s, PickupBegin(s) \/ PickupDir(s) \/ CheckStreamComplete(s)
        PROVE  UNCHANGED <<got, writer>>
    BY <2>2 DEF PickupBegin, PickupDir, CheckStreamComplete, entry
  <2>3. Tick \/ Flush \/ PickupBase \/ PickupEnd \/ UNCHANGED vars => UNCHANGED <<got, writer>>
    BY DEF Tick, Flush, PickupBase, PickupEnd, vars, entry
  <2>4. QED
    BY <1>1, <1>2, <1>3, <2>1, <2>2, <2>3 DEF Next

\* The inductive invariant.
LEMMA Invariant == Spec => [](TypeOK /\ Saves /\ OneChunk)
<1>1. TypeOK /\ Saves /\ OneChunk /\ [Next]_vars => (TypeOK /\ Saves /\ OneChunk)'
  BY StepTypes, StepSaves, StepOneChunk
<1>2. QED
  BY <1>1, InitTypes, PTL DEF Spec

\* The types of the state.
THEOREM TypeCorrect == Spec => []TypeOK
BY Invariant, PTL

\* A message that was saved, and has its nanosecond to itself in its directory, is in its
\* file, whatever other saves and flushes there are.
THEOREM SavedStays == Spec => []SavedIsThere
<1>1. Saves => SavedIsThere
  BY DEF Saves, Filed, OwnTime, Written, SavedIsThere
<1>2. QED
  BY <1>1, Invariant, PTL

\* No second chunk of a stream is taken in.
THEOREM StuckForGood == Spec => []StuckAfterOneChunk
<1>1. OneChunk => StuckAfterOneChunk
  <2> SUFFICES ASSUME OneChunk PROVE StuckAfterOneChunk
    OBVIOUS
  <2>1. CASE got = {}
    <3>1. Cardinality(got) = 0
      BY <2>1, FS_EmptySet
    <3>2. QED
      BY <2>1, <3>1 DEF StuckAfterOneChunk
  <2>2. CASE got # {}
    <3>1. PICK n \in 0..1 : got = {n}
      BY <2>2 DEF OneChunk
    <3>2. Cardinality(got) = 1
      BY <3>1, FS_Singleton
    <3>3. QED
      BY <2>2, <3>2 DEF OneChunk, StuckAfterOneChunk
  <2>3. QED
    BY <2>1, <2>2
<1>2. QED
  BY <1>1, Invariant, PTL
-----------------------------------------------------------------------------
\* What a pickup answers: the files it found, taken one nanosecond after the other.
Span == (Epoch - 1)..MaxNow
Nothing == [found |-> {}, bytes |-> 0]
Takes == [found : SUBSET pick.found, bytes : Nat]

\* The times begin after 0.
LEMMA SpanOfTimes ==
  /\ Epoch \in Nat /\ Epoch > 0 /\ MaxNow \in Nat /\ Epoch <= MaxNow
  /\ Span \subseteq Nat /\ Times \subseteq Span /\ Epoch - 1 \in Span
<1> USE FilesystemNodeAssumption
<1>1. MaxNow \div Second >= 0
  BY SecondsInOrder DEF Seconds
<1>2. Epoch \in Nat /\ MaxNow \in Nat /\ Epoch <= MaxNow
  OBVIOUS
<1>3. Epoch > 0
  <2>1. MaxNow \div Second \in Int
    BY <1>2
  <2>2. QED
    BY <1>1, <1>2, <2>1
<1>4. QED
  BY <1>2, <1>3 DEF Span, Times

\* What holds at the first time, and at the next whenever it holds, holds at all.
LEMMA TimeAfterTime ==
  ASSUME NEW F \in SUBSET Span, Epoch - 1 \in F,
         \A t \in F : t < MaxNow => t + 1 \in F
  PROVE  F = Span
<1> SUFFICES ASSUME Span \ F # {} PROVE FALSE
  OBVIOUS
<1> DEFINE Rest == Span \ F
           R == OpToRel(<, Nat)
<1>1. \E m \in Rest : \A n \in Rest : ~ (n < m)
  <2>1. IsWellFoundedOn(R, Nat)
    BY NatLessThanWellFounded
  <2>2. \A n, m \in Nat : n < m => <<n, m>> \in R
    BY Zenon DEF OpToRel
  <2>3. Rest \subseteq Nat
    BY SpanOfTimes
  <2> HIDE DEF R, Rest
  <2>4. \E m \in Rest : \A n \in Rest : ~ (<<n, m>> \in R)
    <3>1. Rest # {}
      BY DEF Rest
    <3>2. QED
      BY <2>1, <2>3, <3>1, WFMin
  <2>5. QED
    BY <2>2, <2>3, <2>4
<1>2. PICK m \in Rest : \A n \in Rest : ~ (n < m)
  BY <1>1
<1>3. m \in Span /\ m # Epoch - 1 /\ m - 1 \in Span /\ m - 1 < m
  BY SpanOfTimes DEF Span
<1>4. m - 1 \in F
  BY <1>2, <1>3
<1>5. m - 1 < MaxNow /\ (m - 1) + 1 = m
  BY <1>3, SpanOfTimes DEF Span
<1>6. m \in F
  BY <1>4, <1>5
<1>7. QED
  BY <1>6

\* Taken goes from each nanosecond to the next.
LEMMA TakenGoesOn ==
  /\ Taken[Epoch - 1] = Nothing
  /\ \A t \in Times : Taken[t] = TakeAt(Taken[t - 1], t)
<1> DEFINE Upto(n) == (Epoch - 1)..n
           At(g, t) == IF t < Epoch THEN Nothing ELSE TakeAt(g[t - 1], t)
           F == {n \in Span : \E g : g = [t \in Upto(n) |-> At(g, t)]}
<1>1. Epoch - 1 \in F
  <2> DEFINE g == [t \in Upto(Epoch - 1) |-> Nothing]
  <2>1. \A t \in Upto(Epoch - 1) : t < Epoch
    BY SpanOfTimes
  <2>2. g = [t \in Upto(Epoch - 1) |-> At(g, t)]
    BY <2>1
  <2>3. QED
    BY <2>2, SpanOfTimes
<1>2. ASSUME NEW n \in F, n < MaxNow
      PROVE  n + 1 \in F
  <2>1. PICK g : g = [t \in Upto(n) |-> At(g, t)]
    OBVIOUS
  <2> DEFINE h == [t \in Upto(n + 1) |-> IF t = n + 1 THEN TakeAt(g[n], n + 1) ELSE g[t]]
  <2>2. n \in Span /\ n \in Nat /\ n + 1 \in Span /\ Epoch - 1 <= n
    BY <1>2, SpanOfTimes DEF Span
  <2>3. \A t \in Upto(n) : g[t] = At(g, t)
    BY <2>1
  <2>4. \A t \in Upto(n) : h[t] = g[t]
    BY <2>2, SpanOfTimes
  <2>5. h[n + 1] = TakeAt(g[n], n + 1)
    BY <2>2, SpanOfTimes
  <2>6. ASSUME NEW t \in Upto(n + 1)
        PROVE  h[t] = At(h, t)
    <3>1. CASE t = n + 1
      <4>1. h[n] = g[n] /\ ~(t < Epoch) /\ t - 1 = n
        BY <2>2, <2>4, <3>1, SpanOfTimes
      <4> HIDE DEF h
      <4>2. QED
        BY <2>5, <3>1, <4>1
    <3>2. CASE t # n + 1
      <4>1. t \in Upto(n)
        BY <2>2, <3>2, SpanOfTimes
      <4>2. ~(t < Epoch) => t - 1 \in Upto(n)
        BY <2>2, <4>1, SpanOfTimes
      <4>3. h[t] = g[t] /\ (~(t < Epoch) => h[t - 1] = g[t - 1])
        BY <2>4, <4>1, <4>2
      <4> HIDE DEF h
      <4>4. QED
        BY <2>3, <4>1, <4>3
    <3>3. QED
      BY <3>1, <3>2
  <2>7. h = [t \in Upto(n + 1) |-> h[t]]
    OBVIOUS
  <2> HIDE DEF h
  <2>8. h = [t \in Upto(n + 1) |-> At(h, t)]
    <3> HIDE DEF At
    <3>1. QED
      BY <2>6, <2>7
  <2>9. QED
    BY <2>2, <2>8
<1>3. F = Span
  <2>1. F \subseteq Span
    OBVIOUS
  <2> HIDE DEF F
  <2>2. QED
    BY <1>1, <1>2, <2>1, TimeAfterTime
<1>4. \E g : g = [t \in Span |-> At(g, t)]
  <2>1. MaxNow \in Span
    BY SpanOfTimes DEF Span
  <2>2. ASSUME NEW n \in F
        PROVE  \E g : g = [t \in Upto(n) |-> At(g, t)]
    OBVIOUS
  <2> HIDE DEF F
  <2>3. \E g : g = [t \in Upto(MaxNow) |-> At(g, t)]
    <3> HIDE DEF At, Upto
    <3>1. QED
      BY <1>3, <2>1, <2>2
  <2>4. QED
    BY <2>3, Zenon DEF Span
<1>5. Taken = [t \in Span |-> At(Taken, t)]
  BY <1>4, Zenon DEF Taken, Span, Nothing
<1>6. \A t \in Span : Taken[t] = At(Taken, t)
  BY <1>5, Zenon
<1>7. QED
  BY <1>6, SpanOfTimes DEF Times

\* What happens at a file: nothing, or it is taken and there was room for it.
LEMMA TakeAtCases ==
  ASSUME TypeOK, NEW before \in Takes, NEW t \in Times
  PROVE  \/ TakeAt(before, t) = before
         \/ \E f \in pick.found :
              /\ f.time = t /\ f.data \in Msgs
              /\ TakeAt(before, t) = [found |-> before.found \cup {f},
                                      bytes |-> before.bytes + Size[f.data]]
<1> USE FilesystemNodeAssumption
<1> DEFINE here == {f \in pick.found : f.time = t /\ f.data # None}
           f == CHOOSE f \in here : TRUE
           room == \E g \in here : t > pick.since /\ before.bytes + Size[g.data] <= MaxBytes
<1>1. pick.found \subseteq FoundSet
  BY DEF TypeOK, FoundSet
<1>2. CASE ~room
  BY <1>2 DEF TakeAt
<1>3. CASE room
  <2>1. f \in here
    BY <1>3
  <2>2. f \in pick.found /\ f.time = t /\ f.data \in Msgs
    BY <1>1, <2>1 DEF FoundSet
  <2>3. TakeAt(before, t) = [found |-> before.found \cup {f},
                             bytes |-> before.bytes + Size[f.data]]
    BY <1>3 DEF TakeAt
  <2> HIDE DEF f
  <2>4. QED
    BY <2>2, <2>3
<1>4. QED
  BY <1>2, <1>3

\* What has been taken by a time: the files of these times, each at its own, and from time to
\* time more.
TakenBy(t) ==
  /\ Taken[t].found = {} => Taken[t].bytes = 0
  /\ \A f \in Taken[t].found : f.time <= t /\ f \in Taken[f.time].found
  /\ \A s \in (Epoch - 1)..t :
       /\ Taken[s] \in Takes
       /\ Taken[s].found \subseteq Taken[t].found /\ Taken[s].bytes <= Taken[t].bytes

\* And this at every time.
LEMMA TakenInOrder ==
  ASSUME TypeOK
  PROVE  \A t \in Span : TakenBy(t)
<1> DEFINE F == {t \in Span : TakenBy(t)}
<1> USE FilesystemNodeAssumption
<1>0. \A f \in pick.found : f.time \in Times /\ f.time \in Nat
  BY SpanOfTimes DEF TypeOK
<1>1. Epoch - 1 \in F
  <2>1. Taken[Epoch - 1] \in Takes
    BY TakenGoesOn DEF Nothing, Takes
  <2>2. \A s \in (Epoch - 1)..(Epoch - 1) : s = Epoch - 1
    BY SpanOfTimes
  <2>3. Taken[Epoch - 1].bytes = 0 /\ Taken[Epoch - 1].found = {}
    BY TakenGoesOn DEF Nothing
  <2>4. TakenBy(Epoch - 1)
    BY <2>1, <2>2, <2>3 DEF TakenBy
  <2>5. QED
    BY <2>4, SpanOfTimes
<1>2. ASSUME NEW t \in F, t < MaxNow
      PROVE  t + 1 \in F
  <2>1. /\ t \in Span /\ t + 1 \in Times /\ t + 1 \in Span /\ t \in Nat /\ (t + 1) - 1 = t
        /\ \A s \in (Epoch - 1)..(t + 1) : s = t + 1 \/ s \in (Epoch - 1)..t
        /\ t \in (Epoch - 1)..t /\ TakenBy(t)
    BY <1>2, SpanOfTimes DEF Span, Times
  <2>2. TakenBy(t) /\ Taken[t] \in Takes
    BY <2>1 DEF TakenBy
  <2>3. Taken[t + 1] = TakeAt(Taken[t], t + 1)
    BY <2>1, TakenGoesOn
  <2> HIDE DEF F
  <2>4. CASE Taken[t + 1] = Taken[t]
    <3>1. \A f \in Taken[t].found : f.time \in Times
      BY <1>0, <2>2 DEF Takes
    <3>2. QED
      <4>1. \A f \in Taken[t + 1].found : f.time <= t + 1 /\ f \in Taken[f.time].found
        BY <2>1, <2>2, <2>4, <3>1, SpanOfTimes DEF TakenBy, Times
      <4>2. \A s \in (Epoch - 1)..(t + 1) :
              /\ Taken[s] \in Takes
              /\ Taken[s].found \subseteq Taken[t + 1].found
              /\ Taken[s].bytes <= Taken[t + 1].bytes
        BY <2>1, <2>2, <2>4 DEF TakenBy, Takes
      <4>3. TakenBy(t + 1)
        BY <2>2, <2>4, <4>1, <4>2 DEF TakenBy
      <4>4. QED
        BY <2>1, <4>3 DEF F
  <2>5. CASE \E f \in pick.found :
               /\ f.time = t + 1 /\ f.data \in Msgs
               /\ Taken[t + 1] = [found |-> Taken[t].found \cup {f},
                                  bytes |-> Taken[t].bytes + Size[f.data]]
    <3>1. PICK f \in pick.found :
            /\ f.time = t + 1 /\ f.data \in Msgs
            /\ Taken[t + 1] = [found |-> Taken[t].found \cup {f},
                               bytes |-> Taken[t].bytes + Size[f.data]]
      BY <2>5
    <3>2. Size[f.data] \in Nat
      BY <3>1
    <3>3. /\ Taken[t + 1] \in Takes /\ Taken[t + 1].found = Taken[t].found \cup {f}
          /\ Taken[t].bytes <= Taken[t + 1].bytes
      BY <2>2, <3>1, <3>2 DEF Takes
    <3>4. \A g \in Taken[t + 1].found : g.time <= t + 1 /\ g \in Taken[g.time].found
      <4> SUFFICES ASSUME NEW g \in Taken[t + 1].found
                   PROVE  g.time <= t + 1 /\ g \in Taken[g.time].found
        OBVIOUS
      <4>1. CASE g = f
        BY <2>1, <3>1, <4>1
      <4>2. CASE g \in Taken[t].found
        <5>1. g.time \in Nat
          BY <1>0, <2>2, <4>2 DEF Takes
        <5>2. QED
          BY <2>1, <2>2, <4>2, <5>1 DEF TakenBy
      <4>3. QED
        BY <3>3, <4>1, <4>2
    <3>5. ASSUME NEW s \in (Epoch - 1)..t
          PROVE  /\ Taken[s] \in Takes
                 /\ Taken[s].found \subseteq Taken[t + 1].found
                 /\ Taken[s].bytes <= Taken[t + 1].bytes
      <4>1. /\ Taken[s] \in Takes
            /\ Taken[s].found \subseteq Taken[t].found /\ Taken[s].bytes <= Taken[t].bytes
        BY <2>2 DEF TakenBy
      <4>2. Taken[s].bytes \in Nat /\ Taken[t].bytes \in Nat /\ Taken[t + 1].bytes \in Nat
        BY <2>2, <3>3, <4>1 DEF Takes
      <4>3. QED
        BY <3>3, <4>1, <4>2
    <3>6. Taken[t + 1].bytes \in Nat
      BY <3>3 DEF Takes
    <3>7. TakenBy(t + 1)
      BY <2>1, <3>3, <3>4, <3>5, <3>6 DEF TakenBy
    <3>8. QED
      BY <2>1, <3>7 DEF F
  <2>6. \/ TakeAt(Taken[t], t + 1) = Taken[t]
        \/ \E f \in pick.found :
             /\ f.time = t + 1 /\ f.data \in Msgs
             /\ TakeAt(Taken[t], t + 1) = [found |-> Taken[t].found \cup {f},
                                           bytes |-> Taken[t].bytes + Size[f.data]]
    <3> HIDE DEF TakenBy
    <3>1. Taken[t] \in Takes /\ t + 1 \in Times
      BY <2>1, <2>2
    <3> HIDE FilesystemNodeAssumption
    <3>2. QED
      BY <3>1, TakeAtCases
  <2>7. QED
    BY <2>3, <2>4, <2>5, <2>6
<1>3. F = Span
  <2>1. F \subseteq Span
    OBVIOUS
  <2> HIDE DEF F
  <2>2. QED
    BY <1>1, <1>2, <2>1, TimeAfterTime
<1>4. QED
  BY <1>3

\* The only file of its time is taken exactly if there is room for it after the older ones:
\* no since that a pickup asks from keeps it out, since these are seconds.
LEMMA TakenIfRoom ==
  ASSUME TypeOK, NEW e \in pick.found, e.data \in Msgs,
         \A f \in pick.found : f.time = e.time => f = e
  PROVE  e \in Answer <=> Taken[e.time - 1].bytes + Size[e.data] <= MaxBytes
<1> USE FilesystemNodeAssumption
<1> DEFINE t == e.time
           here == {f \in pick.found : f.time = t /\ f.data # None}
           room == Taken[t - 1].bytes + Size[e.data] <= MaxBytes
<1>1. t \in Times
  BY DEF TypeOK
<1>2. /\ t \in Span /\ t - 1 \in Span /\ MaxNow \in Span /\ t \in Int
      /\ t - 1 \in (Epoch - 1)..t /\ t \in (Epoch - 1)..MaxNow /\ ~(t <= t - 1)
  BY <1>1, SpanOfTimes DEF Times, Span
<1>3. t > pick.since
  <2>1. pick.since \in 0..Seconds(MaxNow)
    BY DEF TypeOK
  <2>2. Seconds(MaxNow) \in Int /\ Seconds(MaxNow) < Epoch
    BY SecondsInOrder DEF Seconds
  <2>3. QED
    BY <1>1, <2>1, <2>2, SpanOfTimes DEF Times
<1>4. here = {e}
  OBVIOUS
<1>5. Taken[t] = TakeAt(Taken[t - 1], t)
  BY <1>1, TakenGoesOn
<1>6. TakenBy(t) /\ TakenBy(t - 1) /\ TakenBy(MaxNow)
  BY <1>2, TakenInOrder
<1>7. CASE room
  <2>1. (CHOOSE f \in here : TRUE) = e
    BY <1>4
  <2>2. \E f \in here : t > pick.since /\ Taken[t - 1].bytes + Size[f.data] <= MaxBytes
    BY <1>3, <1>4, <1>7
  <2>3. TakeAt(Taken[t - 1], t) = [found |-> Taken[t - 1].found \cup {e},
                                   bytes |-> Taken[t - 1].bytes + Size[e.data]]
    BY <2>1, <2>2, Zenon DEF TakeAt
  <2>4. e \in Taken[t].found
    BY <1>5, <2>3
  <2>5. QED
    BY <1>2, <1>6, <1>7, <2>4 DEF TakenBy, Answer
<1>8. CASE ~room
  <2>1. ~ \E f \in here : t > pick.since /\ Taken[t - 1].bytes + Size[f.data] <= MaxBytes
    BY <1>4, <1>8
  <2>2. Taken[t] = Taken[t - 1]
    BY <1>5, <2>1, Zenon DEF TakeAt
  <2>3. e \notin Taken[t - 1].found
    BY <1>2, <1>6 DEF TakenBy
  <2>4. QED
    BY <1>6, <1>8, <2>2, <2>3 DEF TakenBy, Answer
<1>9. QED
  BY <1>7, <1>8
-----------------------------------------------------------------------------
\* A directory has one file of a time, that of a save that is past File::create; what is in it
\* was saved at that time.  The directory of such a save was made.
FilesNamed ==
  /\ \A f \in files :
       /\ \E x \in Msgs : /\ save[x].pc \in {"writing", "written"}
                          /\ Dir[x] = f.dir /\ save[x].time = f.time
       /\ f.data # None => save[f.data].time = f.time
  /\ \A f, g \in files : f.dir = g.dir /\ f.time = g.time => f = g
  /\ \A x \in Msgs :
       save[x].pc \in {"create", "writing", "written"} /\ Dir[x] # Base => Dir[x] \in dirs

\* A pickup that has been to the directory of a message that was there found it, and never
\* anything else of its time.
FoundSoFar ==
  /\ \A m \in pick.known : Written(m)
  /\ \A f \in pick.found : f.data # None => save[f.data].time = f.time
  /\ \A m \in pick.known : OnlyOneThen(m) =>
       /\ \A f \in pick.found : f.time = save[m].time => f = Entry(File(m, m))
       /\ pick.pc = "dirs" /\ Dir[m] \notin pick.todo => Entry(File(m, m)) \in pick.found

\* What a pickup answers that has found what it should.
LEMMA AnswersOldestFirst ==
  ASSUME TypeOK, FoundSoFar
  PROVE  OldestFirst
<1> USE FilesystemNodeAssumption
<1> SUFFICES ASSUME pick.pc = "dirs", pick.todo = {}
             PROVE  LET there == {m \in pick.known : OnlyOneThen(m)}
                        offered(m) == Entry(File(m, m)) \in Answer
                    IN  /\ \A m \in there : Size[m] <= MaxBytes => Answer # {}
                        /\ \A m, o \in there :
                             offered(m) /\ save[o].time < save[m].time /\ Size[o] <= Size[m]
                             => offered(o)
  BY Zenon DEF OldestFirst
<1> DEFINE there == {m \in pick.known : OnlyOneThen(m)}
           e(m) == Entry(File(m, m))
           before(m) == Taken[save[m].time - 1].bytes
<1>1. ASSUME NEW m \in there
      PROVE  /\ e(m) \in Answer <=> before(m) + Size[m] <= MaxBytes
             /\ save[m].time \in Times /\ Size[m] \in Nat
  <2>1. m \in Msgs /\ m \in pick.known
    BY DEF TypeOK
  <2>2. e(m) \in pick.found /\ \A f \in pick.found : f.time = save[m].time => f = e(m)
    BY <2>1 DEF FoundSoFar
  <2>3. e(m).time = save[m].time /\ e(m).data = m
    BY DEF Entry, File
  <2>4. save[m].time \in Times
    BY <2>2, <2>3 DEF TypeOK
  <2> HIDE DEF e
  <2>5. QED
    BY <2>1, <2>2, <2>3, <2>4, TakenIfRoom
<1>2. ASSUME NEW t \in Times
      PROVE  t \in Nat /\ t - 1 \in Span /\ TakenBy(t - 1) /\ Taken[t - 1] \in Takes
  <2>1. t - 1 \in Span /\ t - 1 \in (Epoch - 1)..(t - 1) /\ t \in Nat
    BY SpanOfTimes DEF Span, Times
  <2>2. QED
    BY <2>1, TakenInOrder DEF TakenBy
<1>3. ASSUME NEW m \in there, Size[m] <= MaxBytes
      PROVE  Answer # {}
  <2>1. before(m) \in Nat /\ TakenBy(save[m].time - 1)
    BY <1>1, <1>2 DEF Takes
  <2>2. CASE before(m) = 0
    BY <1>1, <1>3, <2>2
  <2>3. CASE before(m) # 0
    <3>1. Taken[save[m].time - 1].found # {}
      BY <2>1, <2>3 DEF TakenBy
    <3>2. Taken[save[m].time - 1].found \subseteq Answer
      <4>1. MaxNow \in Span /\ save[m].time - 1 \in (Epoch - 1)..MaxNow
        <5>1. save[m].time \in Times
          BY <1>1
        <5>2. QED
          BY <5>1, SpanOfTimes DEF Span, Times
      <4>2. TakenBy(MaxNow)
        BY <4>1, TakenInOrder
      <4>3. QED
        BY <4>1, <4>2 DEF TakenBy, Answer
    <3>3. QED
      BY <3>1, <3>2
  <2>4. QED
    BY <2>2, <2>3
<1>4. ASSUME NEW m \in there, NEW o \in there,
             e(m) \in Answer, save[o].time < save[m].time, Size[o] <= Size[m]
      PROVE  e(o) \in Answer
  <2> DEFINE a == save[o].time - 1
             b == save[m].time - 1
  <2>1. a \in (Epoch - 1)..b /\ b \in Span
    <3>1. save[o].time \in Times /\ save[m].time \in Times
      BY <1>1
    <3>2. QED
      BY <1>4, <3>1, SpanOfTimes DEF Span, Times
  <2>2. Taken[a].bytes <= Taken[b].bytes /\ Taken[a].bytes \in Nat /\ Taken[b].bytes \in Nat
    BY <1>1, <1>2, <2>1 DEF TakenBy, Takes
  <2>3. before(o) <= before(m) /\ before(o) \in Nat /\ before(m) \in Nat
    BY <2>2
  <2> HIDE DEF a, b, before, e
  <2>4. QED
    BY <1>1, <1>4, <2>3
<1>5. QED
  BY <1>3, <1>4

\* What a step of a save does to the saves: it is past "no" or begins, and was not at its end.
LEMMA SaveSteps ==
  ASSUME TypeOK, Saves, NEW x \in Msgs \cup Adds,
         SaveBegin(x) \/ CheckDir(x) \/ MakeDir(x) \/ Create(x) \/ Write(x)
  PROVE  /\ save[x].pc # "written" /\ UNCHANGED pick
         /\ save[x].time = None \/ save'[x].time = save[x].time
         /\ \A y \in (Msgs \cup Adds) \ {x} : save'[y] = save[y]
<1>1. save \in [Msgs \cup Adds -> Saving]
  BY DEF TypeOK, Saving, Labels
<1>2. CASE SaveBegin(x)
  <2>1. save[x].time = None
    BY <1>2 DEF SaveBegin, Saves, SaveGoes
  <2>2. QED
    BY <1>1, <1>2, <2>1 DEF SaveBegin
<1>3. CASE CheckDir(x) \/ MakeDir(x) \/ Create(x) \/ Write(x)
  <2>1. PICK label \in Labels : Goto(x, label)
    BY <1>3 DEF CheckDir, MakeDir, Create, Write, WithDir, Labels
  <2>2. save[x].pc # "written" /\ UNCHANGED pick
    BY <1>3 DEF CheckDir, MakeDir, Create, Write
  <2>3. QED
    BY <2>1, <2>2, SaveTyped
<1>4. QED
  BY <1>2, <1>3

\* A new save comes to no file that is there, and asks for its directory.
LEMMA SaveBeginNamed ==
  ASSUME TypeOK, Saves, FilesNamed, NEW x \in Msgs \cup Adds, SaveBegin(x)
  PROVE  FilesNamed'
<1> USE FilesystemNodeAssumption
<1>1. /\ files' = files /\ dirs' = dirs /\ save[x].pc = "no" /\ save[x].time = None
      /\ save'[x].pc = IF Dir[x] = Base THEN "create" ELSE "dir"
      /\ \A y \in (Msgs \cup Adds) \ {x} : save'[y] = save[y]
  BY DEF SaveBegin, store, Saves, SaveGoes, TypeOK
<1>2. \A f \in files : f.time \in Times /\ f.time # None /\ f.data \in Msgs \cup {None}
  BY SpanOfTimes DEF TypeOK
<1>3. QED
  BY <1>1, <1>2 DEF FilesNamed

\* A save that is to create its file has its directory.
LEMMA DirNamed ==
  ASSUME TypeOK, Saves, FilesNamed, NEW x \in Msgs \cup Adds, CheckDir(x) \/ MakeDir(x)
  PROVE  FilesNamed'
<1>1. PICK label \in Labels :
        /\ Goto(x, label) /\ label \notin {"writing"}
        /\ label = "written" => x \in Adds
        /\ label = "create" => Dir[x] \in dirs'
  BY DEF CheckDir, MakeDir, WithDir, Labels, store
<1>2. /\ save'[x].pc = label /\ save'[x].time = save[x].time
      /\ \A y \in (Msgs \cup Adds) \ {x} : save'[y] = save[y]
      /\ files' = files /\ dirs \subseteq dirs' /\ save[x].pc \in {"dir", "mkdir"}
  BY <1>1, SaveTyped DEF CheckDir, MakeDir, store
<1>3. \A y \in Msgs \cup Adds : save'[y].time = save[y].time
  BY <1>2
<1>4. \A f \in files : f.data \in Msgs \cup {None}
  BY DEF TypeOK
<1>5. x \notin Msgs \/ label # "written"
  BY <1>1, FilesystemNodeAssumption
<1>6. \A y \in Msgs : save[y].pc \in {"writing", "written"} => save'[y] = save[y]
  BY <1>2
<1>7. \A y \in Msgs :
        save'[y].pc \in {"create", "writing", "written"} /\ Dir[y] # Base => Dir[y] \in dirs'
  BY <1>1, <1>2, <1>5 DEF FilesNamed
<1>8. QED
  BY <1>2, <1>3, <1>4, <1>6, <1>7 DEF FilesNamed

\* A file that is created takes the place of the one with its name.
LEMMA CreateNamed ==
  ASSUME TypeOK, Saves, FilesNamed, NEW x \in Msgs \cup Adds, Create(x)
  PROVE  FilesNamed'
<1>1. x \in Msgs /\ save[x].pc = "create"
  BY DEF Create, Saves, SaveGoes
<1>2. /\ save'[x].pc = "writing" /\ save'[x].time = save[x].time
      /\ \A y \in (Msgs \cup Adds) \ {x} : save'[y] = save[y]
      /\ files' = {f \in files : ~SameFile(f, x)} \cup {File(x, None)} /\ dirs' = dirs
  BY SaveTyped DEF Create, Labels
<1>3. \A y \in Msgs \cup Adds : save'[y].time = save[y].time
  BY <1>2
<1>4. \A f \in files : f.data \in Msgs \cup {None}
  BY DEF TypeOK
<1>5. /\ File(x, None).dir = Dir[x] /\ File(x, None).time = save[x].time
      /\ File(x, None).data = None
  BY DEF File
<1>6. \A y \in Msgs : save[y].pc \in {"writing", "written"} => save'[y] = save[y]
  BY <1>1, <1>2
<1>7. ASSUME NEW f \in files'
      PROVE  /\ \E y \in Msgs : /\ save'[y].pc \in {"writing", "written"}
                                /\ Dir[y] = f.dir /\ save'[y].time = f.time
             /\ f.data # None => save'[f.data].time = f.time
  <2>1. CASE f = File(x, None)
    BY <1>1, <1>2, <1>5, <2>1
  <2>2. CASE f \in files
    BY <1>3, <1>4, <1>6, <2>2 DEF FilesNamed
  <2>3. QED
    BY <1>2, <2>1, <2>2
<1>8. ASSUME NEW f \in files', NEW g \in files', f.dir = g.dir, f.time = g.time
      PROVE  f = g
  BY <1>2, <1>5, <1>8 DEF FilesNamed, SameFile
<1>9. \A y \in Msgs :
        save'[y].pc \in {"create", "writing", "written"} /\ Dir[y] # Base => Dir[y] \in dirs'
  BY <1>1, <1>2 DEF FilesNamed
<1>10. QED
  BY <1>7, <1>8, <1>9 DEF FilesNamed

\* A file that is written keeps its name.
LEMMA WriteNamed ==
  ASSUME TypeOK, Saves, FilesNamed, NEW x \in Msgs \cup Adds, Write(x)
  PROVE  FilesNamed'
<1> DEFINE after(f) == IF ~SameFile(f, x) THEN f
                       ELSE IF f.data # None /\ Size[f.data] > Size[x]
                              THEN [f EXCEPT !.whole = FALSE]
                              ELSE File(x, x)
<1>1. x \in Msgs /\ save[x].pc = "writing"
  BY DEF Write, Saves, SaveGoes
<1>2. /\ save'[x].pc = "written" /\ save'[x].time = save[x].time
      /\ \A y \in (Msgs \cup Adds) \ {x} : save'[y] = save[y]
      /\ dirs' = dirs
  BY SaveTyped DEF Write, Labels
<1>3. files' = {after(f) : f \in files}
  BY DEF Write
<1>4. \A y \in Msgs \cup Adds : save'[y].time = save[y].time
  BY <1>2
<1>5. ASSUME NEW f \in files
      PROVE  /\ after(f).dir = f.dir /\ after(f).time = f.time
             /\ after(f).data \in {f.data, x} /\ (after(f).data = x => f.data = x \/ SameFile(f, x))
             /\ f.data \in Msgs \cup {None}
  BY DEF TypeOK, SameFile, File
<1>6. ASSUME NEW f \in files
      PROVE  /\ \E y \in Msgs : /\ save'[y].pc \in {"writing", "written"}
                                /\ Dir[y] = f.dir /\ save'[y].time = f.time
             /\ after(f).data # None => save'[after(f).data].time = f.time
  <2>1. PICK y \in Msgs : /\ save[y].pc \in {"writing", "written"}
                          /\ Dir[y] = f.dir /\ save[y].time = f.time
    BY DEF FilesNamed
  <2>2. save'[y].pc \in {"writing", "written"} /\ save'[y].time = f.time
    BY <1>2, <2>1
  <2>3. f.data # None => save[f.data].time = f.time
    BY DEF FilesNamed
  <2>4. SameFile(f, x) => save[x].time = f.time
    BY DEF SameFile
  <2> HIDE DEF after
  <2>5. QED
    BY <1>1, <1>4, <1>5, <2>1, <2>2, <2>3, <2>4
<1> HIDE DEF after
<1>7. \A f, g \in files' : f.dir = g.dir /\ f.time = g.time => f = g
  BY <1>3, <1>5 DEF FilesNamed
<1>8. \A y \in Msgs :
        save'[y].pc \in {"create", "writing", "written"} /\ Dir[y] # Base => Dir[y] \in dirs'
  BY <1>1, <1>2 DEF FilesNamed
<1>9. QED
  BY <1>3, <1>5, <1>6, <1>7, <1>8 DEF FilesNamed

\* No step gives a directory two files of a time.
LEMMA StepFilesNamed ==
  ASSUME TypeOK, Saves, FilesNamed, [Next]_vars
  PROVE  FilesNamed'
<1>1. CASE UNCHANGED <<save, files, dirs>>
  BY <1>1 DEF FilesNamed
<1>2. CASE Flush
  BY <1>1, <1>2, NothingFlushed DEF Flush
<1>3. ASSUME NEW s, PickupBegin(s) \/ PickupDir(s)
      PROVE  UNCHANGED <<save, files, dirs>>
  BY <1>3 DEF PickupBegin, PickupDir, store
<1>4. ASSUME NEW t, NEW n, AddStream(t, n) \/ AddChunk(t, n) \/ CheckStreamComplete(t)
      PROVE  UNCHANGED <<save, files, dirs>>
  BY <1>4 DEF AddStream, AddChunk, CheckStreamComplete, store
<1>5. Tick \/ PickupBase \/ PickupEnd \/ UNCHANGED vars => UNCHANGED <<save, files, dirs>>
  BY DEF Tick, PickupBase, PickupEnd, vars, store
<1>6. QED
  BY <1>1, <1>2, <1>3, <1>4, <1>5, SaveBeginNamed, DirNamed, CreateNamed, WriteNamed DEF Next

\* What was found, put with the files of a directory: of a message that was there, and has its
\* time to itself, its own file and no other.
LEMMA WithRight ==
  ASSUME TypeOK, Saves, FilesNamed, FoundSoFar, NEW d
  PROVE  /\ \A f \in With(d) : f.data # None => save[f.data].time = f.time
         /\ \A m \in pick.known : OnlyOneThen(m) =>
              /\ \A f \in With(d) : f.time = save[m].time => f = Entry(File(m, m))
              /\ Dir[m] = d \/ Entry(File(m, m)) \in pick.found =>
                   Entry(File(m, m)) \in With(d)
<1> DEFINE here == {Entry(f) : f \in {g \in files : g.dir = d}}
<1>1. With(d) = here \cup {f \in pick.found : \A h \in here : h.time # f.time}
  BY DEF With
<1>2. \A f : Entry(f).time = f.time /\ Entry(f).data = f.data
  BY DEF Entry
<1>3. \A f \in With(d) : f.data # None => save[f.data].time = f.time
  BY <1>1, <1>2 DEF FilesNamed, FoundSoFar
<1>4. ASSUME NEW m \in pick.known, OnlyOneThen(m)
      PROVE  /\ \A f \in With(d) : f.time = save[m].time => f = Entry(File(m, m))
             /\ Dir[m] = d \/ Entry(File(m, m)) \in pick.found =>
                  Entry(File(m, m)) \in With(d)
  <2>1. m \in Msgs /\ save[m].pc = "written" /\ File(m, m) \in files
    <3>1. m \in Msgs /\ save[m].pc = "written"
      BY DEF FoundSoFar, Written
    <3>2. OwnTime(m)
      BY <1>4 DEF OnlyOneThen, OwnTime
    <3>3. QED
      BY <3>1, <3>2 DEF Saves, Filed
  <2>2. File(m, m).dir = Dir[m] /\ File(m, m).time = save[m].time
    BY DEF File
  <2>3. ASSUME NEW f \in files, f.time = save[m].time
        PROVE  f = File(m, m)
    <3>1. PICK x \in Msgs : Dir[x] = f.dir /\ save[x].time = f.time
      BY DEF FilesNamed
    <3>2. x = m
      BY <1>4, <2>3, <3>1 DEF OnlyOneThen
    <3>3. QED
      BY <2>1, <2>2, <2>3, <3>1, <3>2 DEF FilesNamed
  <2>4. \A h \in here : h.time = save[m].time => h = Entry(File(m, m))
    BY <1>2, <2>3
  <2>5. \A f \in pick.found : f.time = save[m].time => f = Entry(File(m, m))
    BY <1>4 DEF FoundSoFar
  <2>6. Dir[m] = d => Entry(File(m, m)) \in here
    BY <2>1, <2>2
  <2>7. Entry(File(m, m)).time = save[m].time
    BY <1>2, <2>2
  <2> HIDE DEF here
  <2>8. QED
    BY <1>1, <2>4, <2>5, <2>6, <2>7
<1>5. QED
  BY <1>3, <1>4

\* A pickup goes on finding what it should, whatever saves and flushes there are meanwhile.
LEMMA StepFoundSoFar ==
  ASSUME TypeOK, Saves, FilesNamed, FoundSoFar, [Next]_vars
  PROVE  FoundSoFar'
<1>1. CASE UNCHANGED <<save, pick>>
  BY <1>1 DEF FoundSoFar, Written, OnlyOneThen, Entry, File
<1>2. ASSUME NEW x \in Msgs \cup Adds,
             SaveBegin(x) \/ CheckDir(x) \/ MakeDir(x) \/ Create(x) \/ Write(x)
      PROVE  FoundSoFar'
  <2>1. /\ save[x].pc # "written" /\ pick' = pick
        /\ save[x].time = None \/ save'[x].time = save[x].time
        /\ \A y \in (Msgs \cup Adds) \ {x} : save'[y] = save[y]
    BY <1>2, SaveSteps
  <2>2. \A m \in pick.known : m \in Msgs /\ m # x /\ save'[m] = save[m]
    BY <2>1 DEF FoundSoFar, Written
  <2>3. \A m \in pick.known : Written(m)'
    BY <2>2 DEF FoundSoFar, Written
  <2>4. \A f \in pick.found : f.data # None => save'[f.data].time = f.time
    <3>1. \A f \in pick.found : f.data \in Msgs \cup {None} /\ f.time # None
      BY SpanOfTimes, FilesystemNodeAssumption DEF TypeOK
    <3>2. QED
      BY <2>1, <3>1 DEF FoundSoFar
  <2>5. ASSUME NEW m \in pick.known, OnlyOneThen(m)'
        PROVE  OnlyOneThen(m)
    <3>1. save[m].time # None
      BY <2>2 DEF FoundSoFar, Written, Saves, SaveGoes
    <3>2. QED
      BY <2>1, <2>2, <2>5, <3>1 DEF OnlyOneThen
  <2>6. \A m \in pick.known : Entry(File(m, m))' = Entry(File(m, m))
    BY <2>2 DEF Entry, File
  <2>7. QED
    BY <2>1, <2>2, <2>3, <2>4, <2>5, <2>6 DEF FoundSoFar
<1>3. ASSUME NEW s, PickupBegin(s)
      PROVE  FoundSoFar'
  <2>1. /\ pick'.pc = "base" /\ pick'.found = {} /\ save' = save
        /\ pick'.known = {m \in Msgs : Written(m)}
    BY <1>3 DEF PickupBegin, NoPickup
  <2>2. \A m : Written(m)' = Written(m)
    BY <2>1 DEF Written
  <2>3. QED
    BY <2>1, <2>2 DEF FoundSoFar
<1>4. ASSUME NEW d, pick'.found = With(d), pick'.known = pick.known, UNCHANGED save,
             \A m \in pick.known :
               pick'.pc = "dirs" /\ Dir[m] \notin pick'.todo =>
                 Dir[m] = d \/ (pick.pc = "dirs" /\ Dir[m] \notin pick.todo)
      PROVE  FoundSoFar'
  <2>1. /\ \A m : Written(m)' = Written(m) /\ OnlyOneThen(m)' = OnlyOneThen(m)
        /\ \A m : Entry(File(m, m))' = Entry(File(m, m))
    BY <1>4 DEF Written, OnlyOneThen, Entry, File
  <2>2. QED
    BY <1>4, <2>1, WithRight DEF FoundSoFar
<1>5. CASE PickupBase
  <2>1. /\ pick'.found = With(Base) /\ pick'.known = pick.known /\ save' = save
        /\ pick'.todo = dirs
    BY <1>5 DEF PickupBase, TypeOK
  <2>2. \A m \in pick.known : Dir[m] \notin dirs => Dir[m] = Base
    BY DEF FoundSoFar, Written, FilesNamed
  <2>3. QED
    BY <1>4, <2>1, <2>2
<1>6. ASSUME NEW d, PickupDir(d)
      PROVE  FoundSoFar'
  <2>1. /\ pick'.found = With(d) /\ pick'.known = pick.known /\ save' = save
        /\ pick'.todo = pick.todo \ {d} /\ pick'.pc = "dirs" /\ pick.pc = "dirs"
    BY <1>6 DEF PickupDir, TypeOK
  <2>2. QED
    BY <1>4, <2>1
<1>7. CASE PickupEnd
  <2>1. pick'.found = {} /\ pick'.known = {}
    BY <1>7 DEF PickupEnd, NoPickup
  <2>2. QED
    BY <2>1 DEF FoundSoFar
<1>8. ASSUME NEW t, NEW n, AddStream(t, n) \/ AddChunk(t, n) \/ CheckStreamComplete(t)
      PROVE  UNCHANGED <<save, pick>>
  BY <1>8 DEF AddStream, AddChunk, CheckStreamComplete
<1>9. Tick \/ Flush \/ UNCHANGED vars => UNCHANGED <<save, pick>>
  BY DEF Tick, Flush, vars
<1>10. QED
  BY <1>1, <1>2, <1>3, <1>5, <1>6, <1>7, <1>8, <1>9 DEF Next

\* A pickup offers the messages of all directories, the oldest first, whatever time it asks
\* from, for any messages and directories, any limit, and however saves and flushes come in
\* between.
THEOREM OffersOldestFirst == Spec => []OldestFirst
<1>1. Init => FilesNamed /\ FoundSoFar
  BY DEF Init, NotSaved, NoPickup, FilesNamed, FoundSoFar
<1>2. TypeOK /\ Saves /\ FilesNamed /\ FoundSoFar /\ [Next]_vars
      => FilesNamed' /\ FoundSoFar'
  BY StepFilesNamed, StepFoundSoFar
<1>3. Spec => [](TypeOK /\ Saves)
  BY Invariant, PTL
<1>4. TypeOK /\ FoundSoFar => OldestFirst
  BY AnswersOldestFirst
<1>5. QED
  BY <1>1, <1>2, <1>3, <1>4, PTL DEF Spec
=============================================================================
