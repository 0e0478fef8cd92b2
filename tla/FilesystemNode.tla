--------------------------- MODULE FilesystemNode ---------------------------
(***************************************************************************)
(* FilesystemNode: the messages it is given are files, in the base         *)
(* directory or in one of a channel, named after the nanosecond they were  *)
(* saved at; a pickup reads all files, and flush_outbox goes through them  *)
(* with a time in seconds.  Saves, a pickup and flushes go on at the same  *)
(* time, and each await of a save is a step.                               *)
(*                                                                         *)
(* The second half is what the node does with the parts of a stream: the   *)
(* entry of the stream, and the guards on it that a task holds while it    *)
(* asks for another.                                                       *)
(*                                                                         *)
(* The node is started: the base directory exists.  Reading a directory    *)
(* with its files is one step; nothing is ever removed from under it (see  *)
(* Flush).                                                                 *)
(***************************************************************************)
EXTENDS Integers, FiniteSets

CONSTANTS
  Msgs,    \* the messages saved by forward (and so by send_msg) and dropoff
  Adds,    \* the calls of add_channel
  Base,    \* the base directory
  Dir,     \* the directory of each message and of each call of add_channel
  Size,    \* how many bytes a message has
  Second,  \* how many nanoseconds a second has
  Epoch,   \* the clock at first, in nanoseconds
  MaxNow,  \* bound: the last nanosecond of the clock
  MaxBytes,\* the max_bytes of a pickup
  Age,     \* the max_age_seconds of a flush
  Tasks,   \* the tasks that handle parts of the stream
  Totals,  \* how many chunks a header can announce
  None     \* no data yet, no time, no stream

Directories == {Dir[x] : x \in Msgs \cup Adds} \cup {Base}

\* It is long since 1970: no number of seconds comes near one of nanoseconds.
ASSUME FilesystemNodeAssumption ==
  /\ Msgs \cap Adds = {} /\ Base \notin {Dir[x] : x \in Adds}
  /\ \A m \in Msgs : Size[m] \in Nat \ {0}
  /\ Second \in Nat \ {0} /\ MaxNow \in Nat /\ Epoch \in 0..MaxNow
  /\ Epoch > MaxNow \div Second
  /\ MaxBytes \in Nat /\ Age \in Nat /\ Totals \subseteq Nat
  /\ None \notin Nat \cup Msgs \cup Tasks

VARIABLES
  now,     \* the clock, in nanoseconds
  dirs,    \* the directories of channels
  files,   \* the files: directory, time in the name, the message whose bytes are in it, and
           \* whether none of them were written over
  save,    \* the calls of save_message and ensure_channel_dir
  pick,    \* a call of pickup
  stream,  \* the entry of the stream: how many chunks it is to have
  got,     \* the chunks received for it
  writer,  \* the task that has the entry for writing
  readers, \* the tasks that have it for reading
  events   \* how often a message of the stream was announced

store == <<dirs, files>>
entry == <<stream, got, writer, readers, events>>
vars == <<now, store, save, pick, entry>>
-----------------------------------------------------------------------------
Seconds(t) == t \div Second
NotSaved == [pc |-> "no", time |-> None]
NoPickup == [pc |-> "no", since |-> 0, todo |-> {}, found |-> {}, known |-> {}]

Init ==
  /\ now = Epoch /\ dirs = {} /\ files = {}
  /\ save = [x \in Msgs \cup Adds |-> NotSaved]
  /\ pick = NoPickup
  /\ stream = None /\ got = {} /\ writer = None /\ readers = {} /\ events = 0

Tick ==
  /\ now < MaxNow
  /\ now' = now + 1
  /\ UNCHANGED <<store, save, pick, entry>>

Goto(x, label) == save' = [save EXCEPT ![x].pc = label]
WithDir(x) == IF x \in Adds THEN "written" ELSE "create"
-----------------------------------------------------------------------------
\* Variant: the file is named after the second.
SaveBeginSeconds(x) ==
  /\ save[x].pc = "no"
  /\ save' = [save EXCEPT ![x] = [pc |-> IF Dir[x] = Base THEN "create" ELSE "dir",
                                  time |-> Seconds(now)]]
  /\ UNCHANGED <<now, store, pick, entry>>

\* save_message reads the clock; a message of a channel needs the channel's directory,
\* as add_channel does.
SaveBegin(x) ==
  /\ save[x].pc = "no"
  /\ save' = [save EXCEPT ![x] = [pc |-> IF Dir[x] = Base THEN "create" ELSE "dir",
                                  time |-> now]]
  /\ UNCHANGED <<now, store, pick, entry>>

\* ensure_channel_dir: does the directory exist?
CheckDir(x) ==
  /\ save[x].pc = "dir"
  /\ Goto(x, IF Dir[x] \in dirs THEN WithDir(x) ELSE "mkdir")
  /\ UNCHANGED <<now, store, pick, entry>>

\* create_dir is an error if it exists by now, and with it the save.
MakeDir(x) ==
  /\ save[x].pc = "mkdir"
  /\ Goto(x, IF Dir[x] \in dirs THEN "failed" ELSE WithDir(x))
  /\ dirs' = dirs \cup {Dir[x]}
  /\ UNCHANGED <<now, files, pick, entry>>

SameFile(f, x) == f.dir = Dir[x] /\ f.time = save[x].time
File(x, data) == [dir |-> Dir[x], time |-> save[x].time, data |-> data, whole |-> TRUE]

\* File::create empties the file if it exists.  write_all then leaves the writing to a
\* thread of its own, nothing waits for that, and the save is answered.
Create(x) ==
  /\ save[x].pc = "create"
  /\ Goto(x, "writing")
  /\ files' = {f \in files : ~SameFile(f, x)} \cup {File(x, None)}
  /\ UNCHANGED <<now, dirs, pick, entry>>

\* The data comes into the file, from its beginning: of another message that got there
\* first, what is longer stays.
Write(x) ==
  /\ save[x].pc = "writing"
  /\ Goto(x, "written")
  /\ files' = {IF ~SameFile(f, x) THEN f
               ELSE IF f.data # None /\ Size[f.data] > Size[x] THEN [f EXCEPT !.whole = FALSE]
               ELSE File(x, x) : f \in files}
  /\ UNCHANGED <<now, dirs, pick, entry>>
-----------------------------------------------------------------------------
\* Variant: the age is taken from the clock as it is.
FlushNanos ==
  /\ files' = {f \in files : ~(f.time < now - Age)}
  /\ UNCHANGED <<now, dirs, save, pick, entry>>

\* flush_outbox: the times of the files are nanoseconds, the cutoff is in seconds.
Flush ==
  LET cutoff == Seconds(now) - Age
  IN  /\ files' = {f \in files : ~(f.time < cutoff)}
      /\ UNCHANGED <<now, dirs, save, pick, entry>>

\* A message that is in its file, with a time that no other save has.
Written(m) == m \in Msgs /\ save[m].pc = "written"
OnlyOneThen(m) == \A x \in Msgs \ {m} : save[x].time # save[m].time

\* pickup, since 0 or the time of a bundle (in seconds); its channels do not matter.
\* known is the history: the messages that are there when it begins.
PickupBegin(since) ==
  /\ pick.pc = "no"
  /\ pick' = [NoPickup EXCEPT !.pc = "base", !.since = since,
                              !.known = {m \in Msgs : Written(m)}]
  /\ UNCHANGED <<now, store, save, entry>>

\* What a pickup reads of a file.
Entry(f) == [time |-> f.time, data |-> f.data, whole |-> f.whole]

\* The files of a directory, put with what was found: a BTreeMap by time, where the file
\* of a time takes the place of the one before.
With(d) ==
  LET here == {Entry(f) : f \in {g \in files : g.dir = d}}
  IN  here \cup {f \in pick.found : \A h \in here : h.time # f.time}

PickupBase ==
  /\ pick.pc = "base"
  /\ pick' = [pick EXCEPT !.pc = "dirs", !.found = With(Base), !.todo = dirs]
  /\ UNCHANGED <<now, store, save, entry>>

PickupDir(d) ==
  /\ pick.pc = "dirs" /\ d \in pick.todo
  /\ pick' = [pick EXCEPT !.found = With(d), !.todo = @ \ {d}]
  /\ UNCHANGED <<now, store, save, entry>>

\* Variant: they are gone through from the youngest on.
TakeFromYoungest(before, t) ==
  LET u    == Epoch + MaxNow - t
      here == {f \in pick.found : f.time = u /\ f.data # None}
  IN  IF \E f \in here : u > pick.since /\ before.bytes + Size[f.data] <= MaxBytes
        THEN LET f == CHOOSE f \in here : TRUE
             IN  [found |-> before.found \cup {f}, bytes |-> before.bytes + Size[f.data]]
        ELSE before

\* The file of a time is taken if it is younger than since and there is still room for it.
\* An empty one adds nothing.
TakeAt(before, t) ==
  LET here == {f \in pick.found : f.time = t /\ f.data # None}
  IN  IF \E f \in here : t > pick.since /\ before.bytes + Size[f.data] <= MaxBytes
        THEN LET f == CHOOSE f \in here : TRUE
             IN  [found |-> before.found \cup {f}, bytes |-> before.bytes + Size[f.data]]
        ELSE before

\* The files are taken from the oldest on.
Taken[t \in (Epoch - 1)..MaxNow] ==
  IF t < Epoch THEN [found |-> {}, bytes |-> 0] ELSE TakeAt(Taken[t - 1], t)

Answer == Taken[MaxNow].found

PickupEnd ==
  /\ pick.pc = "dirs" /\ pick.todo = {}
  /\ pick' = NoPickup
  /\ UNCHANGED <<now, store, save, entry>>
-----------------------------------------------------------------------------
\* The entry of the stream is behind a lock for reading and writing.
Free == writer = None /\ readers = {}
AtRest(t) == writer # t /\ t \notin readers

\* add_stream
AddStream(t, total) ==
  /\ AtRest(t) /\ Free
  /\ stream' = total /\ got' = {}
  /\ UNCHANGED <<now, store, save, pick, writer, readers, events>>

\* Variant: the entry is given back before the look.
AddChunkThenCheck(t, n) ==
  /\ AtRest(t) /\ Free /\ stream # None
  /\ got' = got \cup {n}
  /\ UNCHANGED <<now, store, save, pick, stream, writer, readers, events>>

\* add_chunk writes the chunk down, and looks, with the entry still in its hands for
\* writing, whether the stream is complete.  That look waits for the entry.
AddChunk(t, n) ==
  /\ AtRest(t) /\ Free /\ stream # None
  /\ got' = got \cup {n}
  /\ writer' = t
  /\ UNCHANGED <<now, store, save, pick, stream, readers, events>>

\* check_stream_complete: a stream with all its chunks is put together and announced.
\* It is then removed, while the entry is in use for reading, and that waits too.
CheckStreamComplete(t) ==
  /\ AtRest(t) /\ writer = None
  /\ stream # None /\ Cardinality(got) = stream
  /\ readers' = readers \cup {t}
  /\ events' = events + 1
  /\ UNCHANGED <<now, store, save, pick, stream, got, writer>>
-----------------------------------------------------------------------------
Next ==
  \/ Tick
  \/ \E x \in Msgs \cup Adds : SaveBegin(x) \/ CheckDir(x) \/ MakeDir(x) \/ Create(x) \/ Write(x)
  \/ Flush
  \/ \E s \in {0, Seconds(now)} : PickupBegin(s)
  \/ PickupBase \/ (\E d \in dirs : PickupDir(d)) \/ PickupEnd
  \/ \E t \in Tasks :
       \/ \E n \in Totals : AddStream(t, n)
       \/ \E n \in 0..1 : AddChunk(t, n)
       \/ CheckStreamComplete(t)

Spec == Init /\ [][Next]_vars
-----------------------------------------------------------------------------
Times == Epoch..MaxNow

\* Calls, files and the entry of the stream hold what they can hold.
TypeOK ==
  /\ now \in Times /\ dirs \subseteq Directories \ {Base}
  /\ files \subseteq [dir : Directories, time : Times, data : Msgs \cup {None},
                     whole : BOOLEAN]
  /\ save \in [Msgs \cup Adds ->
                 [pc : {"no", "dir", "mkdir", "create", "writing", "written", "failed"},
                  time : Times \cup {None}]]
  /\ pick \in [pc : {"no", "base", "dirs"}, since : 0..Seconds(MaxNow),
               todo : SUBSET Directories,
               found : SUBSET [time : Times, data : Msgs \cup {None}, whole : BOOLEAN],
               known : SUBSET Msgs]
  /\ stream \in Totals \cup {None} /\ got \subseteq 0..1
  /\ writer \in Tasks \cup {None} /\ readers \subseteq Tasks /\ events \in Nat

\* A message that was saved, and has its nanosecond to itself in its directory, is in its
\* file as long as it is not older than a flush asks for: no other save and no flush
\* takes it away (filesystem.rs: save_message, flush_outbox).
SavedIsThere ==
  \A m \in Msgs :
    /\ Written(m) /\ Seconds(now) - Seconds(save[m].time) <= Age
    /\ \A x \in Msgs \ {m} : Dir[x] = Dir[m] => save[x].time # save[m].time
    => File(m, m) \in files

\* Whatever time a pickup asks from, it offers the messages of all directories, a message
\* only if the older ones that are no longer found room too; messages that share their
\* nanosecond apart (filesystem.rs: pickup).
OldestFirst ==
  LET there == {m \in pick.known : OnlyOneThen(m)}
      offered(m) == Entry(File(m, m)) \in Answer
  IN  pick.pc = "dirs" /\ pick.todo = {} =>
        /\ \A m \in there : Size[m] <= MaxBytes => Answer # {}
        /\ \A m, o \in there :
             offered(m) /\ save[o].time < save[m].time /\ Size[o] <= Size[m] => offered(o)

\* No second chunk of a stream is taken in: the task that brings the first never gives
\* the entry back.  A stream that is announced has no chunks
\* (filesystem.rs: add_chunk, check_stream_complete, process_complete_stream).
StuckAfterOneChunk ==
  /\ Cardinality(got) <= 1
  /\ got # {} => writer # None
=============================================================================
