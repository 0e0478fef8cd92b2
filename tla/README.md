# A TLA+ model of ratnet

ratnet is a store-and-forward messaging node: messages given to a node are kept
in an outbox, other nodes pick them up or have them dropped off over some
transport, and large ones travel as streams of chunks. This directory models the
parts of `src/` in which steps interleave, calls fail and times race,
model-checks them with TLC on small instances, and proves what matters most for
every instance with TLAPS.

    tlc -workers 2 -config reassembly_any_order.cfg MCReassembly
    tlapm Streams_proof.tla

`PROJECT.json` lists the runs with their properties, for each definition the
lines it stands for, the mutants of the model each property is known to catch,
the hazards of the code and what is known of them, and the findings.

## Inventory of the system

Paths are relative to the repository.

| part | state | operations | interacts with |
| --- | --- | --- | --- |
| chunking, `src/api/chunking.rs` | none | `calculate_chunk_size`, `send_chunked`, `handle_chunked` | sends with `Node::send_msg`, receives into `add_stream`, `add_chunk`, `check_stream_complete` |
| `MemoryNode`, `src/nodes/memory.rs` | maps (DashMap) of streams, chunks, outbox, contacts, channels, profiles, peers; two keys; running flag; policies; router; in and out channels | start, stop, set_policy, set_router; the stream operations; send_msg, pickup, dropoff, flush_outbox; admin_rpc and public_rpc over the tables | policies and transports call its rpc functions, the router its handle and forward |
| `FilesystemNode`, `src/nodes/filesystem.rs` | files named by time in a directory per channel; streams and chunks in memory; tables | the same trait | as above |
| `DatabaseNode`, `src/nodes/database.rs`, `src/database/` | SQLite tables, and a MemoryNode | the same trait, on the database or on the memory node | schema migrations at start |
| peer table, `src/policy/common.rs` | a PeerInfo per host: two times, two counters, the routing key | `poll_server`, add_peer, remove_peer, clear | pickup and dropoff of the local node; rpc ID, Pickup and Dropoff through a transport |
| policies, `src/policy/{poll,server,p2p}.rs` | running flags, listening flag, list of peers | run_policy, stop, discovery | spawn tasks; start and stop transports |
| transports, `src/transports/` | running flag, socket, byte limit | listen, rpc, stop | the rpc functions of a node |
| router, `src/router/default.rs` | patches | route, patch | handle, forward, handle_chunked |
| remoting, `src/api/remoting.rs` | none | call and response to bytes and back | transports |
| registry, crypto, certificates, `main.rs`, benchmark, examples | - | set-up, libraries | - |

What is hard in it, and what makes each part correct:

- **Reassembly.** Several tasks carry chunks at the same time; storing a chunk,
  counting it, checking the stream and collecting it are separate steps on two
  maps. Correct means: only whole messages come out, only of what has arrived;
  none is lost between two tasks; none comes out twice.
- **Chunk planning.** 32-bit arithmetic at the multiples of the payload size,
  limits of several transports, a send that fails midway. Correct means: the
  chunks are the content, contiguous and as many as announced, or the stream is
  not complete; every message fits every transport.
- **Outbox.** The clock is in seconds and read before a message is appended and
  after a bundle is collected; the client's next pickup starts from the bundle's
  time; answers get lost; flushes go on. Correct means: what the client has
  moved past it has; order within a channel; repeats are bounded.
- **poll_server.** Calls for one host overlap, rpcs fail with or without having
  been carried out, the table changes under a call. Correct means: no time moves
  past a message that has not arrived, and everything arrives in the end.
- **Lifecycle.** start, stop and set_policy called at the same time, and the tasks
  they spawn; flags read once in 30 s; addresses held longer than a transport says
  it runs. Correct means: node, policies and transports agree when nothing is under
  way, and a loop that was stopped ends.
- **Stores.** A death of the process between two writes; a file and a memory beside
  it; files that several calls write, read and remove; seconds against nanoseconds; a
  lock taken twice. Correct means: what was acknowledged is stored and stays.
- **Transports.** One UDP socket read by a loop and by every rpc that waits; lost,
  late and repeated datagrams; a response taken for a call and a call for a response.
  Correct means: an rpc returns, with its own answer if it is alone, and nothing
  multiplies.
- **RPC and codec.** Which call changes which table with which arguments, whether
  what is written is what is read, listings made while the tables change.

## Modules

| module | models | abstract of / composed with |
| --- | --- | --- |
| `StreamParts` | messages, their parts, stream ids | used by the next two |
| `StreamDelivery` | what chunked transfer promises: whole messages, of what has arrived | abstract specification |
| `Reassembly` | the chunking receiver of MemoryNode | implements `StreamDelivery` |
| `Chunking` | `calculate_chunk_size`, `send_chunked` | guarantees what `StreamParts` assumes of streams |
| `StoreAndForward` | what passing messages on promises: the time kept of it passes only what has arrived or is excused | abstract specification |
| `Outbox` | send_msg, pickup, flush_outbox and the client of pickup | implements `StoreAndForward` |
| `PollServer` | `PeerTable::poll_server` between two nodes | implements `StoreAndForward` in both directions; the client that `Outbox` has in short |
| `DatabaseNode` | DatabaseNode, SqliteDatabase and the migrations, with death of the process | has `Outbox` and `Reassembly` in short |
| `FilesystemNode` | the message files, and the stream entry with its guards | |
| `TransportRpc` | rpc and the listening side of the four transports | assumes of the bytes what `NodeRpc` checks |
| `JsonValues` | `serde_json::Value` | used by the next three |
| `NodeApi` | admin_rpc and public_rpc of MemoryNode and FilesystemNode | |
| `Scalars` | lengths, and all values but arrays, as bytes | used by `Remoting` |
| `Remoting` | arrays, calls and responses as bytes | the codec of `NodeRpc` |
| `NodeRpc` | a node called over the wire, with any codec | composes `NodeApi` and, in `MCNodeRpc`, `Remoting` |
| `Lifecycle` | a node, its policies and their transports, started and stopped | composes all policies and transports |
| `MC...` | instances for TLC | |
| `..._proof` | theorems and their proofs; `Streams_proof` has those of `Chunking` and `Reassembly`, `NodeRpc_proof` those of `NodeRpc`, `NodeApi` and `Scalars` | |

### Reassembly

State: `streams` and `chunks` are the two maps of MemoryNode, `inbox` what was
sent to `in_tx`. A task that handles a chunk has a program counter and the local
variables of `add_chunk` and `check_stream_complete` (`snap` is the copy of the
StreamInfo, `idx` the loop counter, `buf` the data collected). Every access to a
DashMap is a step of its own, since its lock is given back after it; counting
happens under the lock of the stream and is one step. `again` tells the check
made within `add_chunk` from the second one, which `handle_chunk` makes in any
case. The network is the choice of the part to handle next: any order, each part
as often as `MaxHeaders` and `MaxCopies` allow. `handled` and `overlap` are
histories that the program does not have.

### Chunking

The transports' limits, the length of the content and the size a caller passes
are chosen at the start; then come `calculate_chunk_size` or the caller's size,
the plan with its first message, and a chunk at a time, where `send_msg` may fail.
Contents are byte ranges, numbers are taken modulo `Word` where the code casts
or computes in `u32`. `PoliciesVisible` is FALSE for a node whose
`get_policies` is empty.

### Outbox

A channel's Vec is the log of what was ever appended and the set `live` of what
has not been dropped. Reading the clock and appending are two steps of a send;
a pickup takes one message at a time, holding the entry of the channel it
is at, and reads the clock when it has passed all channels; a flush reads the
clock and takes one channel after the other. The client is that of
`poll_server`: it moves its `last_time` to the time of a bundle that is not
empty. `Calm` says that the clock does not tick during a send or a pickup;
it is what the code relies on without ensuring it, and `outbox_race` shows what
happens without. `Promise` maps the outbox to `StoreAndForward`: what was appended is
sent, the client's `got` is what has arrived, passed is what it asks for and was stamped before
its `lastTime`, and a message is excused that was too long for a bundle or grew too
old. That a message is appended with a stamp that is behind the client's `lastTime` already is
what `Send` of `StoreAndForward` forbids. `NoneLeftBehind`, which `outbox_race` checks, is the
part of `PickupsForward` that speaks of one state.

### PollServer

PeerInfos are objects (`info`) to which the table and the calls refer, because
that is what an `Arc<PeerInfo>` is: a call keeps the one it read while another
takes its place. A step ends at an await. An rpc is answered, fails without having
been carried out (`Fail`), or has been carried out and the answer is lost
(`AnswerLost`). A call belongs to a task. Its panic, on an unwrap of what is not there, ends that
task, and whatever comes after is a call of another (`Unwind`); in a build with `panic = "abort"`,
as the release profile of `Cargo.toml` is, it ends the program, with its calls and its table
(`Abort`). `process` says which build it is, and whether the program is over. The nodes are those of the Node trait: a pickup gives what was
sent at or after a time and the time of now. Two things the trait leaves open
are found in the nodes instead, see Findings: MemoryNode's pickup gives nothing for an
empty list of channels, and its answers are not in the form poll_server parses.
`total_bytes_tx` is kept as the number of dropoffs, up to 2, which is all that
the test for 0 can tell. `Pushed` and `Pulled` map the two directions to `StoreAndForward`:
passed is what any PeerInfo's time has moved past, in the table or not, and nothing is excused.
`UpCovered` and `DownCovered` are what follows for the states of it.

### DatabaseNode

State: the file (`schema` and the `versions` recorded of it, `config`, `rows`,
`outbox`, `stored`), what a process has in memory, and how far its calls are. A query
is a step, and so is what happens in memory between two. `Die` can come at any time;
it clears the memory and the calls and leaves the file. Opening goes through
`SqliteDatabase::new`, the two bootstraps and `load_keys`, which stores the content
key and the routing key one after the other. `current` is the version `migrate` has
read, and from then on its loop variable. start copies the tables in `Synced`, each
by a read and an addition. The variables `touched` and `flushedTo` are histories.
The rows of a table differ by name only, and the value of a key is the number of
the life of the process that made it.

### FilesystemNode

A file has a directory, the nanosecond in its name, and what is in it: nothing yet, or
as many bytes as a message has, which are that message unless a shorter one was written
over it (`whole`). A save reads the clock, finds
or makes the directory of its channel, creates the file and is answered; the data is
written after that. A pickup reads the base directory and then each channel's, with
saves and flushes in between. `Second` says how many nanoseconds a second has, and
the assumption that the clock starts, in nanoseconds, beyond any number of seconds it
comes to (`Epoch`) is what the calendar says. The second half is one entry of the map of streams, with the task
that has it for writing and those that have it for reading; it shares no variable with the files.

### TransportRpc

The network is a bag of datagrams that can be lost and, up to `MaxDup` times,
duplicated, and that arrive in any order. A datagram for a node is taken by the loop
of its listen or by any rpc of its own that waits. What each reader makes of the
bytes of the other kind is in `ReadAsCall` and `ReadAsResponse`; the property
`ArrivesAsSent` of `NodeRpc` checks both against the codec. An rpc over HTTPS or TLS
has its connection to itself. `alone` is a history. The datagrams of the bag are counted
as the set of their copies (`Copies`), a datagram with a number each.

### NodeApi, Remoting, NodeRpc

`Known`, `Required` and `Further` are the checks with which each arm of admin_rpc and
public_rpc begins, `Refuse` what follows when they fail, and there is an action for
each kind of thing an arm does then. One access to a DashMap is a step; a listing
takes a shard at a time, and each name has a shard of its own, which is the most a
listing can be divided. `kind` says which of the two nodes it is. `Scalars` and `Remoting` have
`serialize`, `deserialize` and the varints as they are, byte by byte, but for the
bytes within a string or an integer, of which they keep only which they are. Arrays are
apart because they hold values and so take recursive operators, about which nothing can be
proved; the digits of a varint are recursive functions of at most ten places, the ten that
`varint_decode` reads (its shift ends at 64). In
`NodeRpc` a call goes through bytes to the node and its answer back, as in
`handle_request` and `handle_connection`. The transports' listen does not call these
yet and echoes; the examples call a node directly, which is `AskDirectly`.

### Lifecycle

A call of start or stop has the list of policies it read and the place in the
policy it is at; a step ends at an await. `listens` counts the spawned listens of a
policy that have not begun or are to bind, `loops` the loops that are about to look at
their flag or wait for a tick. `up` is the transport's flag and `served` says whether a
task has its address: the task of UDP never ends, that of TLS when a connection comes,
that of HTTPS within its stop. `mdns` says who holds the socket of the mDNS port, the
policy or its loop. `overtaken`, `refused`, `orderly` and `missed` are histories: they name the
cases in which the code cannot keep its parts in step. `orderly` says that no start or stop
began before the last was over, and nothing else: the task of a set_policy, the listens and the
loops may be as late as they like. `missed` holds the policies that such a task set, or replaced,
while the node ran or a call was under way, until a start or stop reads them: set_policy
neither starts the new nor stops the old, so that they are out of step until then. That is what
happens when main calls start right after set_policy and the start comes first.

## Runs

| run | question | bounds |
| --- | --- | --- |
| `reassembly_any_order` | Is what comes out whole, authentic, and, without overlapping tasks, delivered at most once per header? Does `Reassembly` implement `StreamDelivery`? | 2 streams of 2 chunks, 2 tasks, one stream's parts handled up to twice; symmetric tasks |
| `reassembly_ordered` | With headers first and once: is anything lost between tasks, does everything come out in the end? | the same, one stream's chunks up to twice |
| `chunking` | Is the plan the content, and does it fit? | word of 32, lengths 0 to 33, all sets of two out of ten limits, 4 given sizes |
| `outbox` | Does it implement `StoreAndForward`: has the client what it moved past? In order, with few repeats, and everything in the end? | 3 messages of two sizes, 2 channels, 3 s, room for 3 of 4 |
| `outbox_race` (violation) | And when a second passes during a send or a pickup? | the same, 4 s, room for all |
| `poll_server` | Does each direction implement `StoreAndForward`: do the times move only past what has arrived? Are repeats explained? | 2 overlapping calls, a message each way, 3 s, 1 fault; both builds; calls and objects symmetric |
| `poll_server_lasting` | Does everything arrive if the host is polled again and again and faults end? | 1 call at a time, 4 s, 2 faults; both builds |
| `database_node` | Does the schema come through any crash, do stored keys stay, is what is acknowledged in the file, does start bring back what it should? | 2 migrations, 2 deaths, a table that is copied and one that is not, 2 writes, 1 message, 1 part, 2 s |
| `filesystem_node` | Does a saved message stay, does a pickup take the oldest first, what does a stream do after a chunk? | 2 messages and an add_channel for one channel, 1 message for the base, 2 ns, room for 2 of 4 bytes, 2 tasks |
| `transport_rpc` | Does an rpc return, with its own answer if alone, and does nothing multiply? | 2 rpcs one way and 1 back over UDP, 1 too large, 1 over HTTPS, 1 in memory, 1 duplicate |
| `node_rpc` | Does what is sent arrive, action, arguments and answer, and is a listing bracketed by what the table was meanwhile? | 2 clients, 3 calls out of 14 over the wire and 5 direct ones, both kinds of node, strings of 0, 1, 128 and 130 bytes; clients symmetric |
| `lifecycle` | Do node, policies and transports agree, do loops end? | 2 callers, 4 calls, a poll and a server policy or a P2P policy, all transports for the server, 2 for P2P |

Why the bounds are enough: two tasks are the fewest that race, and two streams the
fewest whose chunks could be mixed up; two chunks make a first and a last one. A
repeated part covers both a copy that comes early and one that comes after the
stream was delivered. In `chunking` the limits lie below, at and above each
threshold, and the lengths include zero, every multiple of each payload size
and the word itself. In `outbox` the sizes make one message not fit after others, and three
seconds are what it takes to be sent, to be moved past and to grow too old. In
`poll_server` the first poll of a host panics, the second dropoff repeats the
first, and the clock moves in between. In `database_node` two deaths let a process
that recovers from one die again, and two migrations tell one that is recorded
from one that is carried out. In `filesystem_node` the two nanoseconds
give two messages one each, and a pickup has room for the large one or for a small one and not
for both: which of them it takes is decided by their order. In `transport_rpc` two rpcs wait on one socket
while the other side calls too. In `node_rpc` a length of 128 is the first that
takes two bytes of a varint, and three calls are a listing and two changes under it. In
`lifecycle` four calls are set_policy, start, stop and a start again, or two of them at once. The theorems below do not depend on bounds.

`CHECK_DEADLOCK FALSE` stands where a system with a bounded clock, a bounded
network or a bounded number of calls comes to rest, or, in `poll_server` and
`poll_server_lasting`, where a program that aborted has ended.

### Fairness

- `Reassembly`: weak fairness for the next step of each task. The runtime polls
  every task that can go on, and none waits for another: locks of a DashMap are
  given back within a step, and `in_tx` is unbounded.
- `Outbox`: weak fairness for a send that has begun and for the pickup, whose
  client polls again and again; strong fairness for the answer: the network does not
  lose every one. Nothing is asked of flushes.
- `PollServer`: weak fairness for the steps of a call that has begun; faults are bounded.
  Nothing has to begin, and no caller survives a panic. That the host is polled again and
  again, by whatever tasks, is the condition `PolledForever` of `EverythingExchanged` and not an
  assumption about the program: nothing in the repository polls in a loop yet
  (`sync_with_peers` in `src/policy/p2p.rs`, the only caller, is not called), and in a release build
  the first poll of a host ends the program, so that the condition is false there.
- `TransportRpc`: weak fairness for the timeout of each rpc over UDP, which is a
  timer of the runtime. Nothing has to arrive.
- `Lifecycle`: weak fairness for each call, each spawned listen, each loop and its
  timer, and the write of set_policy. No packet has to arrive, nobody has to connect,
  and no call has to be made.

## What is proved

| theorem | says | assumes |
| --- | --- | --- |
| `Streams_proof!TypeCorrect` | `[]TypeOK` | |
| `Streams_proof!AuthenticHolds` | `[]Authentic` | |
| `Streams_proof!ImplementsStreamDelivery` | `Reassembly` implements `StreamDelivery` | |
| `Streams_proof!NoLoss` | `[]NoSilentLoss` | `OrderedOnce`: headers first, and once |
| `Streams_proof!CompleteStreamsDelivered` | `[]CompleteStreamDelivered` | `OrderedOnce` |
| `Streams_proof!OncePerHeader` | `[]SerialAtMostOncePerHeader` | |
| `Streams_proof!ChunkingTypeCorrect` | `[]ChunkingTypeOK` | |
| `Streams_proof!TwoChunks` | `[]StreamsHaveTwoChunks` | |
| `Streams_proof!AllOrNotComplete` | `[]AllOrIncomplete` | |
| `Streams_proof!Fits` | `[]FitsTransport` | `PoliciesVisible` |
| `Outbox_proof!TypeCorrect` | `[]TypeOK` | |
| `Outbox_proof!RepeatsBounded` | `[]RepeatsOfLastSecondOnly` | |
| `Outbox_proof!NoneLeft` | `[]NoneLeftBehind` | `Calm`: the clock stands still during sends and pickups |
| `Outbox_proof!InOrder` | `[]ReceivedInOrder` | `Calm` |
| `Outbox_proof!PickupsKeepPromise` | `PickupsForward`: `Outbox` implements `StoreAndForward` | `Calm` |
| `PollServer_proof!TypeCorrect` | `[]TypeOK` | |
| `PollServer_proof!LocalTimeCovered` | `[]UpCovered` | |
| `PollServer_proof!RemoteTimeCovered` | `[]DownCovered` | |
| `PollServer_proof!PushesKeepPromise` | `PushForwards`: `PollServer` implements `StoreAndForward` from here to there | |
| `PollServer_proof!PullsKeepPromise` | `PullForwards`: and from there to here | |
| `PollServer_proof!OnlyExplainedRepeats` | `[]RepeatsExplained` | |
| `DatabaseNode_proof!TypeCorrect` | `[]TypeOK` | |
| `DatabaseNode_proof!SchemaCompleted` | `[]SchemaComplete` | |
| `DatabaseNode_proof!KeysStay` | `StoredKeysStay`, of every step | |
| `DatabaseNode_proof!AcknowledgedIsStored` | `[]StoredFirst` | |
| `DatabaseNode_proof!TablesCopied` | `[]StartBringsBack` | |
| `FilesystemNode_proof!TypeCorrect` | `[]TypeOK` | |
| `FilesystemNode_proof!SavedStays` | `[]SavedIsThere` | |
| `FilesystemNode_proof!StuckForGood` | `[]StuckAfterOneChunk` | |
| `FilesystemNode_proof!OffersOldestFirst` | `[]OldestFirst` | |
| `TransportRpc_proof!TypeCorrect` | `[]TypeOK` | |
| `TransportRpc_proof!OwnAnswer` | `[]OwnAnswerWhenAlone` | |
| `TransportRpc_proof!NeverMultiplied` | `[]NothingMultiplied` | |
| `NodeRpc_proof!TypeCorrect` | `[]TypeOK` of `NodeApi` | |
| `NodeRpc_proof!ListingsBracketed` | `[]ListingBracketed` | |
| `NodeRpc_proof!LengthValuesArrive` | what `write_lv` writes, `read_lv` reads, and goes on behind it | fewer than 2^64 bytes |
| `NodeRpc_proof!ScalarsArrive` | `DeserializeScalar(SerializeScalar(v) \o rest)` is `ScalarArrives(v)` with `rest` left | texts of fewer than 2^64 bytes |
| `Lifecycle_proof!TypeCorrect` | `[]TypeOK` | |
| `Lifecycle_proof!ServersAgree` | `[]ServerAgrees` | |
| `Lifecycle_proof!NodesAgree` | `[]NodeAgrees` | |

All rest on the named assumptions about the constants only
(`StreamPartsAssumption` and the like), which TLC evaluates on every run.

- *Reassembly.* That deliveries are whole is not inductive: a task may hold a
  piece that no map holds any more. `Authentic` says of both maps and of every
  task's copy, counter and buffer that they hold pieces of the right stream, in
  order, that have been handled; with it each step maps to `Arrive`, `Deliver` or
  a stutter. For `NoSilentLoss` the invariant follows a message through the
  steps: it has been delivered, or a task is past collecting all of it, or the maps
  hold every chunk that was counted and, if the stream is complete, a task is
  still before its check. That needs headers to come first and once: a chunk that
  overtakes its header is never counted. For `OncePerHeader` the invariant counts, for
  each message that tasks worked on one after the other, the deliveries against the
  headers handled: one fewer, as long as the stream is listed or the task that has
  removed it is about to deliver.
- *Chunking.* The invariant says what has been sent at every point: nothing, the
  whole message, or the header and the chunks 0 to n-1 of the plan. What is left is
  arithmetic: the chunks of the plan meet end to end, and quotient and
  remainder give back the length.
- *Outbox.* `RepeatsBounded` rests on relations between clock readings: no reading is
  later than the clock, what is in a bundle or received was stamped by then, and a
  message in the client's hands is not younger than its last_time. `NoneLeft` and `InOrder`
  need to follow a pickup under way: of the channel it is at it has handled every message
  before the place it has reached, of the channels it has been to every message sent before
  this second, and a message is handled when it is in the bundle, received, passed over for
  its size, or too old. Only with `Calm` does the second last until the answer: this is where
  `outbox_race` breaks in. Order then is the same of pairs: no message is in a bundle, or
  received, whose predecessor in the log has not been handled. `PickupsKeepPromise` adds what
  is said of steps: a push appends with a stamp of this second, which no last_time is
  later than; a receipt passes only what it brings or what was handled before; and a
  timestamp, once read, stays, so that an excuse does.
- *PollServer.* The two properties speak of the table's PeerInfo only. They are not
  inductive, since a call may write its bundle's time into the PeerInfo later on, and
  another call may hold one that the table has lost. The invariant says it of every PeerInfo (what
  its two times have moved past has arrived) and of every call (what the time of
  a bundle it carries has moved past has arrived or is in that bundle, and has
  all arrived when the call comes to store that time). Two calls that overlap
  cannot spoil it, whichever stores last: both times are covered. That a new PeerInfo
  is no one else's is a matter of counting (`FreshIsFree`). For the two refinements the
  invariant also says that what has arrived or is in a bundle was sent (`Carried`): bundles come
  and go between the pickup and the dropoff, and the steps in between are stutters. For `RepeatsExplained` the invariant
  is of an undisturbed history only (`Alone`): one call at a time works on the table's
  PeerInfo, a bundle holds what was sent from last_poll_local to its time, and once a second
  dropoff is counted nothing that was dropped off is younger than last_poll_local.
- *DatabaseNode.* The versions recorded are the first ones and of migrations carried out, and
  migrate goes on after the last (`VersionsInOrder`): a death between carrying out and
  recording repeats a migration, none is skipped. The routing key is never stored before the
  content key (`KeysInOrder`), so neither is stored twice. A part that waits to be forwarded
  to the MemoryNode is in the file (`Forwarded`). And a table of which start has read the
  rows differs from the file in touched rows only, in its local copy and then in the memory
  (`CopiedSoFar`).
- *FilesystemNode.* Whoever has its nanosecond to itself in its directory has its file from
  File::create on (`Filed`); a flush removes nothing, because its cutoff is below `Epoch`.
  For `OldestFirst` a directory has one file of a time, that of the save that is past
  File::create (`FilesNamed`), and a pickup that has been to a message's directory has found
  its file, and nothing else of its time (`FoundSoFar`). The rest is about the loop over the
  files, the recursive function `Taken`: that it exists and goes from each time to the next
  (`TakenGoesOn`), and that what it has taken and its bytes only grow (`TakenInOrder`), each by
  the least time at which it would fail.
- *TransportRpc.* While an rpc is alone, all that is under way is its own call, on its way
  to the callee, and answers to it (`Solo`). `NothingMultiplied` is inductive with the
  finiteness of what it counts (`Counted`); that a datagram more or less in the bag is a copy
  more or less takes a bijection (`OneCopyMore`, `OneCopyLess`).
- *NodeRpc.* The bounds in `TypeOK` are not inductive by themselves: each call that has been made
  and not yet begun (`Pending`) can still put one thing into the node, so the invariant counts
  what the node holds and the pending calls together against the calls made (`Counted`). A
  task that is asked carries a call whose name is one of `Names`, also after it has been through
  bytes, which is what is assumed of the codec (`NodeRpcAssumption`) and what TLC evaluates for
  that of `Remoting`. For `ListingsBracketed` every listing under way is followed against the
  history of the tables: of each name it is through with it has found it if it was there all
  the time, and found it only if it was there some time (`Bracketed`); steps of others only
  lengthen that history.
- *Scalars.* A number below 2^64 has ten digits of seven bits at most (`SixtyFourBits`); the
  digits that are written are those before the first shift below 128 (`DigitsOf`), and reading from
  any place of them gives what is left of the number there (`DigitsRead`), from the last digit
  back to the first. That the recursive functions exist is proved place by place
  (`LeftGoesOn`, `ReadGoesOn`), by the least place at which two of them would part. The tag
  tells which of the three forms is read, and a string or an integer is known from
  its bytes because all of them are of it.
- *Lifecycle.* Each call is at a place that fits what it does and the policy it is at
  (`Placed`), and each start still owes at most two loops and a listen to each policy it has to
  run (`LoopsCounted`, `ListensCounted`), from which the bounds of the types follow. For
  `ServersAgree` the invariant describes a policy and its transport while calls are under
  way: whatever is out of step has a listen or a stop to come, or was overtaken or refused
  (`Agree`). For `NodesAgree` it follows the one call of an orderly node through its list of
  policies: those it is past are settled, so is the one it is at as far as it is through with
  it, and those it has still to come to are in the list (`Progress`). That the task of a set_policy
  can replace the list under the call is what `missed` is for: until a start or stop has read the
  list, its policies may be out of step (`SetOrdered`), and reading it ends that, because the call
  then goes to each of them (`Ordered`). Nothing is assumed of when that task runs.

Only model-checked:

- the liveness properties `EventuallyDelivered`, `ReceivedInTheEnd`, `EverythingExchanged`,
  `RpcReturns` and `LoopsEnd`, since the provers do not reason about fairness;
- `ArrivesAsSent` of `NodeRpc`: arrays may hold arrays, so `Remoting` takes recursive operators,
  which the provers do not take, and a proof would go by induction over values. What arrays
  are made of, lengths and all other values, is proved to arrive.

Proved and not among the passing runs: `TwoChunks`, which lets `StreamParts` assume two chunks;
`NoneLeft`, `LocalTimeCovered` and `RemoteTimeCovered`, whose properties are parts of the three
refinements of `StoreAndForward` that the runs check; `LengthValuesArrive` and `ScalarsArrive`,
which speak of operators and not of behaviours.

## Findings

Where the code does not do what the repository says of it; `PROJECT.json` quotes the
lines. `outbox_race` shows that a client can move past messages it has not seen. The
others are read off the code, most of them while a definition was translated, and the
models contain them as they are. A property that such behaviour would violate either leaves the
case out, by an exception that is named in it or by a constant of its run, or is not stated;
the hazard in `PROJECT.json` then says so in place of naming a property.

- *Streams.* A message can be delivered twice; it is never delivered if a
  chunk overtakes its header; the chunk size ignores the transports of a
  MemoryNode; send_msg never chunks. A FilesystemNode stops at the first chunk,
  waiting for itself (`StuckAfterOneChunk`).
- *Store and forward.* A client can move past messages it has not seen, when a second passes at the
  wrong moment (`outbox_race`), and past one for which a bundle has no room.
  The first poll of a host panics, which ends its task and, in a release build, the program;
  poll_server asks MemoryNode for no channels and gets nothing; its ID and Pickup calls do not
  fit public_rpc.
- *Database.* Keys are stored and never loaded, and a crash between the two leaves one
  missing for good; messages and parts are stored and never given out again; a
  new file is not created.
- *Files.* A flush removes nothing and a pickup starts from the oldest file every
  time, since names are nanoseconds and times seconds; two messages of a channel in one
  nanosecond have one file; a save is answered before its data is written.
- *Wire.* An rpc over UDP takes any datagram for its answer; bools and objects arrive
  as strings, which AddProfile, AddPeer, SendMsg and Dropoff refuse.
- *Lifecycle.* A UDP transport cannot listen again after a stop, and its loop goes on
  answering. A stop that comes before the spawned listen leaves a transport that serves for a
  stopped policy; a poll policy stopped and started within a tick has two loops;
  a P2P policy that is being started is taken for stopped by a stop, or its run_policy panics when the stop takes the sockets away.

The rest of what `ServerAgrees` and `NodeAgrees` except is just as real, though no line of the
repository promises otherwise: a stop of the transport that comes after
the next start silences a running one; a P2P policy cannot be started again until a
packet has ended its mDNS loop; main.rs calls start right after set_policy, whose write may come
later, and then no policy runs until the node is started again.

## Not modelled

- The router: nothing calls `route`, and no node asks the router it is given.
- P2P discovery (`mdns_listen`, `process_mdns_packet`, `sync_with_peers`): nothing calls
  it; the loops that `run_policy` spawns log what they would do.
- The tags of the codec that nothing writes, the FilesystemNode's functions that
  nothing calls, the registry.
- Cryptography, certificates, the TLS and HTTPS libraries, benchmark, examples and the
  command line: calls of libraries or set-up without control of their own.
- Contents and keys are model values. In `Outbox` the clock does not step back. In
  `Reassembly` two streams in transfer never draw the same id. In `FilesystemNode` a
  directory is read at one moment. In `NodeApi` a start makes its keys in one step.

## Plan

All components whose code is in use are modelled; every invariant and action property of the
passing runs is proved but `ArrivesAsSent`, and the three refinements of `StoreAndForward` and that of
`StreamDelivery`. What could come next depends on the code: `route` and `sync_with_peers` once
something calls them; a listen that asks the node, in place of the echo, which would join
`TransportRpc` with `NodeRpc`; and `pickup` of DatabaseNode once it reads the file it keeps, for
which `StoreAndForward` is the promise to hold it to.
