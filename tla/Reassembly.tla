----------------------------- MODULE Reassembly -----------------------------
(***************************************************************************)
(* Reassembly of chunked messages in a MemoryNode.                         *)
(*                                                                         *)
(* chunking::handle_chunked takes one part of a stream (a header or a      *)
(* chunk) and runs as a task of the tokio runtime; MemoryNode keeps the    *)
(* streams and the chunks in two DashMaps and no lock around both.  Every  *)
(* access to one of the maps is a step here, and the tasks interleave      *)
(* between them: the map of chunks is written before the stream is looked  *)
(* at, the completion check works on a snapshot of the StreamInfo, reads   *)
(* the chunks one at a time, removes them one at a time, and only then     *)
(* removes the stream and sends the message.                               *)
(*                                                                         *)
(* The network hands parts to tasks in any order, again, or never.         *)
(* HeaderFirst restricts it to handling a stream's header before its       *)
(* chunks, as a connection that keeps the order of send_chunked does.      *)
(***************************************************************************)
EXTENDS StreamParts

CONSTANTS
  Tasks,       \* the tasks that handle chunks at the same time
  None,        \* no entry in a map, nothing in a variable
  HeaderFirst, \* does the network keep a header before its chunks?
  MaxHeaders,  \* [Msgs -> Nat], bound: how often its header is handled
  MaxCopies    \* [Msgs -> Nat], bound: how often each of its chunks is handled

\* What the maps hold.
Data == UNION {{Piece(m, n) : n \in ChunkNums(m)} : m \in Msgs}
StreamInfos ==
  [total : {Total[m] : m \in Msgs}, channel : {Channel[m] : m \in Msgs},
   received : SUBSET UNION {ChunkNums(m) : m \in Msgs}]

\* None is no value of the program, and the bounds are numbers.
ASSUME ReassemblyAssumption ==
  /\ None \notin Data
  /\ None \notin StreamInfos
  /\ HeaderFirst \in BOOLEAN
  /\ MaxHeaders \in [Msgs -> Nat]
  /\ MaxCopies \in [Msgs -> Nat]

VARIABLES
  streams,  \* MemoryNode.streams: stream id -> StreamInfo
  chunks,   \* MemoryNode.chunks: (stream id, chunk number) -> data
  pc,       \* where each task is
  part,     \* the message and the number of the chunk it handles
  again,    \* is it in the second completion check, the one of handle_chunk?
  snap,     \* its copy of the StreamInfo
  idx,      \* its loop counter over the chunks
  buf,      \* its reassembled_data
  inbox,    \* the messages sent to in_tx, oldest first
  handled,  \* history: how often each part was taken from the network
  overlap   \* history: the messages two tasks worked on at the same time

local == <<pc, part, again, snap, idx, buf>>
vars == <<streams, chunks, local, inbox, handled, overlap>>
-----------------------------------------------------------------------------
\* Variant: the chunks of all streams under one key space.
SlotWithoutStream(m, n) == <<1, n>>

\* The key of a chunk in MemoryNode.chunks.
Slot(m, n) == <<StreamId[m], n>>
Slots == UNION {{Slot(m, n) : n \in ChunkNums(m)} : m \in Msgs}

\* Variant: the header counted as one of the chunks.
NewStreamCountingHeader(m) ==
  [total |-> Total[m] + 1, channel |-> Channel[m], received |-> {}]
NewStream(m) == [total |-> Total[m], channel |-> Channel[m], received |-> {}]
\* Variants: a stream taken for complete one chunk early, or one chunk late.
CompleteOneEarly(info) == Cardinality(info.received) + 1 = info.total
CompleteOneLate(info)  == Cardinality(info.received) = info.total + 1
Complete(info) == Cardinality(info.received) = info.total
Ready(i) == streams[i] # None /\ Complete(streams[i])

Msg(t)  == part[t][1]
Id(t)   == StreamId[part[t][1]]
Busy(m) == {t \in Tasks : pc[t] # "idle" /\ Msg(t) = m}

Goto(t, label) == pc' = [pc EXCEPT ![t] = label]

\* check_stream_complete returns.  The check add_chunk made is followed by the
\* one of try_reassemble_stream, and that one ends the handling of the chunk.
EndCheck(t) ==
  /\ Goto(t, IF again[t] THEN "idle" ELSE "check")
  /\ again' = [again EXCEPT ![t] = ~ @]
  /\ part' = [part EXCEPT ![t] = IF again[t] THEN None ELSE @]
  /\ snap' = [snap EXCEPT ![t] = None]
  /\ idx' = [idx EXCEPT ![t] = 0]
  /\ buf' = [buf EXCEPT ![t] = <<>>]
-----------------------------------------------------------------------------
Init ==
  /\ streams = [i \in Ids |-> None]
  /\ chunks = [s \in Slots |-> None]
  /\ pc = [t \in Tasks |-> "idle"]
  /\ part = [t \in Tasks |-> None]
  /\ again = [t \in Tasks |-> FALSE]
  /\ snap = [t \in Tasks |-> None]
  /\ idx = [t \in Tasks |-> 0]
  /\ buf = [t \in Tasks |-> <<>>]
  /\ inbox = <<>>
  /\ handled = [p \in AllParts |-> 0]
  /\ overlap = {}

\* A task handles a stream header: handle_stream_header calls add_stream, which
\* overwrites what the map holds for the id.
HandleHeader(m) ==
  /\ handled[Header(m)] < MaxHeaders[m]
  /\ handled' = [handled EXCEPT ![Header(m)] = @ + 1]
  /\ streams' = [streams EXCEPT ![StreamId[m]] = NewStream(m)]
  /\ overlap' = IF Busy(m) = {} THEN overlap ELSE overlap \cup {m}
  /\ UNCHANGED <<chunks, local, inbox>>

\* Task t starts on a chunk: add_chunk stores its data, whether or not the node
\* knows the stream.
HandleChunk(t, m, n) ==
  /\ pc[t] = "idle"
  /\ handled[Chunk(m, n)] < MaxCopies[m]
  /\ HeaderFirst => handled[Header(m)] > 0
  /\ handled' = [handled EXCEPT ![Chunk(m, n)] = @ + 1]
  /\ overlap' = IF Busy(m) = {} THEN overlap ELSE overlap \cup {m}
  /\ chunks' = [chunks EXCEPT ![Slot(m, n)] = Piece(m, n)]
  /\ part' = [part EXCEPT ![t] = <<m, n>>]
  /\ Goto(t, "mark")
  /\ UNCHANGED <<streams, again, snap, idx, buf, inbox>>

\* add_chunk under the stream's lock: count the chunk.  Only the task whose chunk
\* makes the stream complete goes on to the check within add_chunk.
MarkReceived(t) ==
  LET received == streams[Id(t)].received \cup {part[t][2]}
      info == [streams[Id(t)] EXCEPT !.received = received]
  IN  /\ pc[t] = "mark"
      /\ Goto(t, "check")
      /\ \/ /\ streams[Id(t)] # None
            /\ streams' = [streams EXCEPT ![Id(t)] = info]
            /\ again' = [again EXCEPT ![t] = ~ Complete(info)]
         \/ /\ streams[Id(t)] = None
            /\ again' = [again EXCEPT ![t] = TRUE]
            /\ UNCHANGED streams
      /\ UNCHANGED <<chunks, part, snap, idx, buf, inbox, handled, overlap>>

\* Variant: the stream is removed as soon as the check has found it complete.
SnapshotUnlisting(t) ==
  /\ pc[t] = "check"
  /\ \/ /\ Ready(Id(t))
        /\ snap' = [snap EXCEPT ![t] = streams[Id(t)]]
        /\ streams' = [streams EXCEPT ![Id(t)] = None]
        /\ Goto(t, "collect")
        /\ UNCHANGED <<part, again, idx, buf>>
     \/ /\ ~ Ready(Id(t))
        /\ EndCheck(t)
        /\ UNCHANGED streams
  /\ UNCHANGED <<chunks, inbox, handled, overlap>>

\* check_stream_complete copies the StreamInfo and looks whether it is complete.
Snapshot(t) ==
  /\ pc[t] = "check"
  /\ \/ /\ Ready(Id(t))
        /\ snap' = [snap EXCEPT ![t] = streams[Id(t)]]
        /\ Goto(t, "collect")
        /\ UNCHANGED <<part, again, idx, buf>>
     \/ /\ ~ Ready(Id(t))
        /\ EndCheck(t)
  /\ UNCHANGED <<streams, chunks, inbox, handled, overlap>>

\* Variant: a chunk that is missing is left out of the message.
CollectChunkSkipping(t) ==
  LET data == chunks[Slot(Msg(t), idx[t])]
      last == idx[t] + 1 = snap[t].total
  IN  /\ pc[t] = "collect"
      /\ buf' = [buf EXCEPT ![t] = IF data = None THEN @ ELSE Append(@, data)]
      /\ idx' = [idx EXCEPT ![t] = IF last THEN 0 ELSE @ + 1]
      /\ Goto(t, IF last THEN "clean" ELSE "collect")
      /\ UNCHANGED <<streams, chunks, part, again, snap, inbox, handled, overlap>>

\* One turn of the loop that collects the chunks: a chunk that is missing ends
\* the check.
CollectChunk(t) ==
  LET data == chunks[Slot(Msg(t), idx[t])]
      last == idx[t] + 1 = snap[t].total
  IN  /\ pc[t] = "collect"
      /\ \/ /\ data # None
            /\ buf' = [buf EXCEPT ![t] = Append(@, data)]
            /\ idx' = [idx EXCEPT ![t] = IF last THEN 0 ELSE @ + 1]
            /\ Goto(t, IF last THEN "clean" ELSE "collect")
            /\ UNCHANGED <<part, again, snap>>
         \/ /\ data = None
            /\ EndCheck(t)
      /\ UNCHANGED <<streams, chunks, inbox, handled, overlap>>

\* One turn of the loop that removes them.
RemoveChunk(t) ==
  LET last == idx[t] + 1 = snap[t].total
  IN  /\ pc[t] = "clean"
      /\ chunks' = [chunks EXCEPT ![Slot(Msg(t), idx[t])] = None]
      /\ idx' = [idx EXCEPT ![t] = IF last THEN 0 ELSE @ + 1]
      /\ Goto(t, IF last THEN "unlist" ELSE "clean")
      /\ UNCHANGED <<streams, part, again, snap, buf, inbox, handled, overlap>>

\* Variant: the chunks are cleaned up and the stream is left.
RemoveStreamForgotten(t) ==
  /\ pc[t] = "unlist"
  /\ Goto(t, "deliver")
  /\ UNCHANGED <<streams, chunks, part, again, snap, idx, buf, inbox, handled, overlap>>

RemoveStream(t) ==
  /\ pc[t] = "unlist"
  /\ streams' = [streams EXCEPT ![Id(t)] = None]
  /\ Goto(t, "deliver")
  /\ UNCHANGED <<chunks, part, again, snap, idx, buf, inbox, handled, overlap>>

\* MemoryNode.handle sends the reassembled message to the in channel.
Deliver(t) ==
  /\ pc[t] = "deliver"
  /\ inbox' = Append(inbox, [name |-> snap[t].channel, content |-> buf[t]])
  /\ EndCheck(t)
  /\ UNCHANGED <<streams, chunks, handled, overlap>>

\* What the runtime goes on with once a chunk has been taken from the network.
Step(t) ==
  \/ MarkReceived(t)
  \/ Snapshot(t)
  \/ CollectChunk(t)
  \/ RemoveChunk(t)
  \/ RemoveStream(t)
  \/ Deliver(t)

Next ==
  \/ \E m \in Msgs : HandleHeader(m)
  \/ \E t \in Tasks, m \in Msgs : \E n \in ChunkNums(m) : HandleChunk(t, m, n)
  \/ \E t \in Tasks : Step(t)

Spec == Init /\ [][Next]_vars

\* The runtime polls every task that can go on: no step waits for another task.
FairSpec == Spec /\ \A t \in Tasks : WF_vars(Step(t))
-----------------------------------------------------------------------------
\* The type invariant: what each variable holds, and which local variables a
\* task has set where.
Labels == {"idle", "mark", "check", "collect", "clean", "unlist", "deliver"}

TypeOK ==
  /\ streams \in [Ids -> StreamInfos \cup {None}]
  /\ chunks \in [Slots -> Data \cup {None}]
  /\ pc \in [Tasks -> Labels]
  /\ part \in [Tasks -> Data \cup {None}]
  /\ again \in [Tasks -> BOOLEAN]
  /\ snap \in [Tasks -> StreamInfos \cup {None}]
  /\ idx \in [Tasks -> Nat]
  /\ buf \in [Tasks -> Seq(Data)]
  /\ inbox \in Seq([name : {Channel[m] : m \in Msgs}, content : Seq(Data)])
  /\ handled \in [AllParts -> Nat]
  /\ overlap \subseteq Msgs
  /\ \A t \in Tasks : part[t] = None <=> pc[t] = "idle"
  /\ \A t \in Tasks : snap[t] = None <=> pc[t] \in {"idle", "mark", "check"}

\* The parts that have been handled, which is what StreamDelivery speaks of.
Arrived == {p \in AllParts : handled[p] > 0}

\* The maps and the tasks hold only what the messages are made of, and only what
\* has arrived: the invariant behind StreamDelivery.
StreamAuthentic(m, info) ==
  /\ info.total = Total[m]
  /\ info.channel = Channel[m]
  /\ info.received \subseteq {n \in ChunkNums(m) : Chunk(m, n) \in Arrived}
  /\ Header(m) \in Arrived

CollectedInOrder(m, b) ==
  \A i \in 1 .. Len(b) : b[i] = Piece(m, i - 1) /\ Chunk(m, i - 1) \in Arrived

TaskAuthentic(t) ==
  /\ pc[t] \in {"idle", "mark", "check"} => idx[t] = 0 /\ buf[t] = <<>>
  /\ pc[t] # "idle" => Chunk(Msg(t), part[t][2]) \in Arrived
  /\ pc[t] \notin {"idle", "mark", "check"} => StreamAuthentic(Msg(t), snap[t])
  /\ pc[t] = "collect" =>
       /\ Len(buf[t]) = idx[t]
       /\ idx[t] < Total[Msg(t)]
       /\ CollectedInOrder(Msg(t), buf[t])
  /\ pc[t] = "clean" => idx[t] < Total[Msg(t)]
  /\ pc[t] \in {"clean", "unlist", "deliver"} =>
       /\ Len(buf[t]) = Total[Msg(t)]
       /\ CollectedInOrder(Msg(t), buf[t])

StreamsAuthentic ==
  \A m \in Msgs :
    streams[StreamId[m]] # None => StreamAuthentic(m, streams[StreamId[m]])
ChunksAuthentic ==
  \A m \in Msgs : \A n \in ChunkNums(m) :
    chunks[Slot(m, n)] # None =>
      chunks[Slot(m, n)] = Piece(m, n) /\ Chunk(m, n) \in Arrived
TasksAuthentic == \A t \in Tasks : TaskAuthentic(t)

Authentic == StreamsAuthentic /\ ChunksAuthentic /\ TasksAuthentic

\* Reassembly delivers whole messages only, and none before all of its parts have
\* arrived, however the tasks interleave and whatever the network repeats.
D == INSTANCE StreamDelivery WITH arrived <- Arrived
WholeMessagesOnly == D!Spec

Copies(m) == Cardinality({i \in DOMAIN inbox : inbox[i] = Whole(m)})
Delivered(m) == \E i \in DOMAIN inbox : inbox[i] = Whole(m)

\* A message on which no two tasks ever worked at the same time is delivered once
\* for each time its header was handled, at most: the checks of add_chunk and
\* handle_chunk do not deliver it twice, nor do late copies of its chunks.
SerialAtMostOncePerHeader ==
  \A m \in Msgs \ overlap : Copies(m) <= handled[Header(m)]

\* A message all of whose parts have been handled, with no task at work on it any
\* more, has been delivered.
CompleteStreamDelivered ==
  \A m \in Msgs : Parts(m) \subseteq Arrived /\ Busy(m) = {} => Delivered(m)

\* What makes it so while tasks are at work: the message has been delivered, or a
\* task holds all of it, or the maps still hold every chunk that was counted and a
\* complete stream has a task that is still going to check it.
Holding(t) == pc[t] \in {"clean", "unlist", "deliver"}
Checking(t) == pc[t] \in {"check", "collect"}

Pending(m) ==
  /\ streams[StreamId[m]] # None
  /\ \A n \in ChunkNums(m) : Chunk(m, n) \in Arrived =>
       /\ chunks[Slot(m, n)] # None
       /\ \/ n \in streams[StreamId[m]].received
          \/ \E t \in Busy(m) : pc[t] = "mark" /\ part[t][2] = n
  /\ Ready(StreamId[m]) => \E t \in Busy(m) : Checking(t)

Kept(m) == Delivered(m) \/ (\E t \in Busy(m) : Holding(t)) \/ Pending(m)

HeadersBeforeChunks ==
  \A m \in Msgs : \A n \in ChunkNums(m) : Chunk(m, n) \in Arrived => Header(m) \in Arrived
CompleteSnapshots == \A t \in Tasks : pc[t] = "collect" => Complete(snap[t])

NoSilentLoss ==
  /\ HeadersBeforeChunks
  /\ CompleteSnapshots
  /\ \A m \in Msgs : Header(m) \in Arrived => Kept(m)

\* Every message whose parts have all been handled is delivered in the end.
EventuallyDelivered ==
  \A m \in Msgs : Parts(m) \subseteq Arrived ~> Delivered(m)
=============================================================================
