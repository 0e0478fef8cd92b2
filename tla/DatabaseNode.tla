---------------------------- MODULE DatabaseNode ----------------------------
(***************************************************************************)
(* DatabaseNode: a MemoryNode and an SQLite file beside it.  The methods   *)
(* of the trait go to the file, the RPCs to the MemoryNode, and a message  *)
(* or a part of a stream to the file first and then to the MemoryNode.     *)
(* The process can die between any two queries and be started again with   *)
(* what the file holds: the schema and the versions recorded of it, the    *)
(* keys, the tables, the outbox and the parts.                             *)
(*                                                                         *)
(* A query is one step.  The tables are taken by kind: contacts and peers  *)
(* are copied into the MemoryNode by start, channels and profiles are not. *)
(* One name stands for each key of a table, and the channel of a message,  *)
(* which nothing depends on, is left out.  What only reads is left out as  *)
(* well: pickup, whose answer is that of the MemoryNode, and the getters.  *)
(***************************************************************************)
EXTENDS Integers, FiniteSets

CONSTANTS
  Kinds,       \* the tables: contacts, channels, profiles, peers
  Synced,      \* the kinds that start copies: contacts and peers
  Names,       \* the keys of a table
  Vals,        \* what a row can hold
  Msgs,        \* the messages given to send_msg
  Parts,       \* headers and chunks of streams
  None,        \* no row, no key, no time
  LastVersion, \* the version of the last migration
  MaxAges,     \* the ages flush_outbox is called with
  MaxNow,      \* bound: the last second of the clock
  MaxDeaths,   \* bound: how often the process ends
  MaxCalls     \* bound: how often a table is written

ASSUME DatabaseNodeAssumption ==
  /\ Synced \subseteq Kinds
  /\ None \notin Vals /\ None \notin Nat
  /\ LastVersion \in Nat /\ MaxAges \subseteq Nat
  /\ MaxNow \in Nat /\ MaxDeaths \in Nat /\ MaxCalls \in Nat

VARIABLES
  schema,    \* file: the migrations carried out
  versions,  \* file: the rows of schema_migrations
  config,    \* file: the content and the routing key
  rows,      \* file: the four tables
  outbox,    \* file: the messages, each with its time
  stored,    \* file: the rows of streams and chunks
  pc,        \* how far main and DatabaseNode::new have come
  current,   \* the version read by migrate
  pool,      \* is the connection pool open?
  node,      \* where start and stop are
  copied,    \* the kinds copied by this start, and what was read of the next
  keys,      \* MemoryNode: are there keys, and of which life of the process
  mem,       \* MemoryNode: the four tables
  memOutbox, \* MemoryNode: the messages, each with its time
  memParts,  \* MemoryNode: the parts of streams it was given
  send,      \* the calls of send_msg
  part,      \* the calls of add_stream and add_chunk
  flush,     \* the call of flush_outbox: the age, once the file is flushed
  now, deaths, calls,
  touched,   \* history: the rows written since start has read their table
  flushedTo  \* history: the highest time of which flush_outbox deleted all before

file == <<schema, versions, config, rows, outbox, stored>>
opening == <<pc, current, pool>>
life == <<node, copied, keys>>
memory == <<mem, memOutbox, memParts>>
requests == <<send, part, flush>>
world == <<now, deaths, calls>>
history == <<touched, flushedTo>>
vars == <<file, opening, life, memory, requests, world, history>>
-----------------------------------------------------------------------------
Versions == 1..LastVersion
NoRows == [k \in Kinds |-> [n \in Names |-> None]]
NotSent == [pc |-> "no", time |-> None]
Idle == [m \in Msgs |-> NotSent]
NotCopying == [done |-> {}, kind |-> None, table |-> [n \in Names |-> None]]

Init ==
  /\ schema = {} /\ versions = {} /\ rows = NoRows /\ outbox = {} /\ stored = {}
  /\ config = [content |-> None, routing |-> None]
  /\ pc = "down" /\ current = None /\ pool = FALSE
  /\ node = "stopped" /\ copied = NotCopying /\ keys = None
  /\ mem = NoRows /\ memOutbox = {} /\ memParts = {}
  /\ send = Idle /\ part = [x \in Parts |-> "no"] /\ flush = None
  /\ now = 0 /\ deaths = 0 /\ calls = 0
  /\ touched = {} /\ flushedTo = 0

\* A key made in this life of the process.
NewKey == deaths
Opened == pc = "open"

\* The schema has the tables, and there are connections.
CanQuery == pool /\ Versions \subseteq schema
-----------------------------------------------------------------------------
\* SqliteDatabase::new connects to the file (it is there: sqlite makes none).
Connect ==
  /\ pc = "down"
  /\ pc' = "bootstrap" /\ pool' = TRUE
  /\ UNCHANGED <<file, current, life, memory, requests, world, history>>

\* migrate: schema_migrations is created if it is missing, and MAX(version) read.
ReadVersion ==
  /\ pc = "bootstrap"
  /\ current' = IF versions = {} THEN 0 ELSE CHOOSE v \in versions : \A w \in versions : w <= v
  /\ pc' = "migrate"
  /\ UNCHANGED <<file, pool, life, memory, requests, world, history>>

\* Variant: a migration of the version recorded last is carried out once more.
PendingAgain == {v \in Versions : v >= current}

\* The migrations migrate has still to go through, and the next of them.
Pending == {v \in Versions : v > current}
NextVersion == CHOOSE v \in Pending : \A w \in Pending : v <= w

\* up: the statements of a migration, in one transaction; CREATE TABLE IF NOT EXISTS
\* makes it harmless to carry it out again.
Up ==
  /\ pc = "migrate" /\ Pending # {}
  /\ schema' = schema \cup {NextVersion}
  /\ pc' = "record"
  /\ UNCHANGED <<versions, config, rows, outbox, stored, current, pool, life, memory,
                 requests, world, history>>

\* set_current_version: the version is a primary key, and inserting it twice an error.
\* current stands for the loop variable from here on.
Record ==
  /\ pc = "record"
  /\ IF NextVersion \in versions
       THEN pc' = "failed" /\ UNCHANGED <<versions, current>>
       ELSE /\ versions' = versions \cup {NextVersion}
            /\ current' = NextVersion
            /\ pc' = "migrate"
  /\ UNCHANGED <<schema, config, rows, outbox, stored, pool, life, memory,
                 requests, world, history>>

\* main bootstraps the database, and DatabaseNode::new does it again.
BootstrapAgain ==
  /\ pc = "migrate" /\ Pending = {}
  /\ pc' = "bootstrap"
  /\ UNCHANGED <<file, current, pool, life, memory, requests, world, history>>

\* Variant: the key is stored whether there is one or not.
LoadKeysAlways ==
  /\ pc = "migrate" /\ Pending = {}
  /\ pc' = "routing" /\ config' = [config EXCEPT !.content = NewKey]
  /\ UNCHANGED <<schema, versions, rows, outbox, stored, current, pool, life, memory,
                 requests, world, history>>

\* load_keys: a content key that is stored is left alone, and so is the routing key,
\* stored or not.  Otherwise two new keys are stored, one after the other.
LoadKeys ==
  /\ pc = "migrate" /\ Pending = {}
  /\ IF config.content # None
       THEN pc' = "open" /\ UNCHANGED config
       ELSE pc' = "routing" /\ config' = [config EXCEPT !.content = NewKey]
  /\ UNCHANGED <<schema, versions, rows, outbox, stored, current, pool, life, memory,
                 requests, world, history>>

StoreRoutingKey ==
  /\ pc = "routing"
  /\ config' = [config EXCEPT !.routing = NewKey]
  /\ pc' = "open"
  /\ UNCHANGED <<schema, versions, rows, outbox, stored, current, pool, life, memory,
                 requests, world, history>>

\* The process dies, or ends, at any point.  The file stays, what the memory held is
\* gone, and calls that were not answered never are.
Die ==
  /\ pc # "down" /\ deaths < MaxDeaths
  /\ deaths' = deaths + 1
  /\ pc' = "down" /\ current' = None /\ pool' = FALSE
  /\ node' = "stopped" /\ copied' = NotCopying /\ keys' = None
  /\ mem' = NoRows /\ memOutbox' = {} /\ memParts' = {}
  /\ part' = [x \in Parts |-> "no"] /\ flush' = None /\ touched' = {}
  /\ send' = [m \in Msgs |-> IF send[m].pc \in {"no", "done"} THEN send[m]
                             ELSE [send[m] EXCEPT !.pc = "lost"]]
  /\ UNCHANGED <<file, now, calls, flushedTo>>
-----------------------------------------------------------------------------
\* start: the contacts are read and given to the MemoryNode, then the peers.  A table
\* that cannot be read makes start fail.
Start ==
  /\ Opened /\ node \in {"stopped", "running"} /\ CanQuery
  /\ node' = "starting" /\ copied' = NotCopying
  /\ UNCHANGED <<file, opening, keys, memory, requests, world, history>>

SyncRead(k) ==
  /\ node = "starting" /\ copied.kind = None /\ CanQuery
  /\ k \in Synced \ copied.done
  /\ copied' = [copied EXCEPT !.kind = k, !.table = rows[k]]
  /\ touched' = {t \in touched : t[1] # k}
  /\ UNCHANGED <<file, opening, node, keys, memory, requests, world, flushedTo>>

\* Variant: one table is forgotten.
SyncAddNothing ==
  /\ node = "starting" /\ copied.kind # None
  /\ copied' = [NotCopying EXCEPT !.done = copied.done \cup {copied.kind}]
  /\ UNCHANGED <<file, opening, node, keys, memory, requests, world, history>>

\* Rows are added to what the MemoryNode has; none is taken away.
SyncAdd ==
  LET k == copied.kind
  IN  /\ node = "starting" /\ k # None
      /\ mem' = [mem EXCEPT ![k] = [n \in Names |->
                   IF copied.table[n] # None THEN copied.table[n] ELSE mem[k][n]]]
      /\ copied' = [NotCopying EXCEPT !.done = copied.done \cup {k}]
      /\ UNCHANGED <<file, opening, node, keys, memOutbox, memParts, requests, world, history>>

\* MemoryNode::start makes the keys it has not; those in the file are not loaded.
StartMemoryNode ==
  /\ node = "starting" /\ copied.done = Synced /\ copied.kind = None
  /\ node' = "running" /\ copied' = NotCopying
  /\ keys' = IF keys = None THEN NewKey ELSE keys
  /\ UNCHANGED <<file, opening, memory, requests, world, history>>

\* stop: the MemoryNode is stopped, then the pool is closed, for good.
StopMemoryNode ==
  /\ Opened /\ node \in {"stopped", "running"}
  /\ node' = "stopping"
  /\ UNCHANGED <<file, opening, copied, keys, memory, requests, world, history>>

ClosePool ==
  /\ node = "stopping"
  /\ node' = "stopped" /\ pool' = FALSE
  /\ UNCHANGED <<file, pc, current, copied, keys, memory, requests, world, history>>
-----------------------------------------------------------------------------
Written(k, n) == touched' = touched \cup {<<k, n>>}
OneCall == calls < MaxCalls /\ calls' = calls + 1 /\ UNCHANGED <<now, deaths>>

\* add_* and delete_* of the trait: INSERT OR REPLACE, and DELETE, which does not mind
\* a row that is not there.
Store(k, n, v) ==
  /\ Opened /\ CanQuery /\ OneCall
  /\ rows' = [rows EXCEPT ![k][n] = v]
  /\ Written(k, n)
  /\ UNCHANGED <<schema, versions, config, outbox, stored, opening, life, memory,
                 requests, flushedTo>>

\* The same by admin_rpc, which is passed on to the MemoryNode and leaves the file alone.
StoreByRpc(k, n, v) ==
  /\ Opened /\ OneCall
  /\ mem' = [mem EXCEPT ![k][n] = v]
  /\ Written(k, n)
  /\ UNCHANGED <<file, opening, life, memOutbox, memParts, requests, flushedTo>>
-----------------------------------------------------------------------------
\* Variant: the time is filled in later.
SendBeginUntimed(m) ==
  /\ Opened /\ send[m].pc = "no"
  /\ send' = [send EXCEPT ![m] = [pc |-> "insert", time |-> None]]
  /\ UNCHANGED <<file, opening, life, memory, part, flush, world, history>>

\* save_outbox_msg reads the time ...
SendBegin(m) ==
  /\ Opened /\ send[m].pc = "no"
  /\ send' = [send EXCEPT ![m] = [pc |-> "insert", time |-> now]]
  /\ UNCHANGED <<file, opening, life, memory, part, flush, world, history>>

\* ... and inserts the message.
SendInsert(m) ==
  /\ send[m].pc = "insert" /\ CanQuery
  /\ outbox' = outbox \cup {[msg |-> m, time |-> send[m].time]}
  /\ send' = [send EXCEPT ![m].pc = "forward"]
  /\ UNCHANGED <<schema, versions, config, rows, stored, opening, life, memory,
                 part, flush, world, history>>

\* A query on a closed pool is an error, and the MemoryNode is not given the message.
SendFails(m) ==
  /\ send[m].pc = "insert" /\ ~CanQuery
  /\ send' = [send EXCEPT ![m].pc = "lost"]
  /\ UNCHANGED <<file, opening, life, memory, part, flush, world, history>>

\* The MemoryNode takes the message, with a time of its own; send_msg returns.
SendForward(m) ==
  /\ send[m].pc = "forward"
  /\ memOutbox' = memOutbox \cup {[msg |-> m, time |-> now]}
  /\ send' = [send EXCEPT ![m].pc = "done"]
  /\ UNCHANGED <<file, opening, life, mem, memParts, part, flush, world, history>>
-----------------------------------------------------------------------------
\* Variant: the messages of the cutoff itself go as well.
FlushFileEarly(age) ==
  LET cutoff == now - age
  IN  /\ Opened /\ CanQuery /\ flush = None
      /\ outbox' = {r \in outbox : r.time > cutoff}
      /\ flush' = age
      /\ flushedTo' = IF cutoff > flushedTo THEN cutoff ELSE flushedTo
      /\ UNCHANGED <<schema, versions, config, rows, stored, opening, life, memory,
                     send, part, world, touched>>

\* flush_outbox: first the file ...
FlushFile(age) ==
  LET cutoff == now - age
  IN  /\ Opened /\ CanQuery /\ flush = None
      /\ outbox' = {r \in outbox : ~(r.time < cutoff)}
      /\ flush' = age
      /\ flushedTo' = IF cutoff > flushedTo THEN cutoff ELSE flushedTo
      /\ UNCHANGED <<schema, versions, config, rows, stored, opening, life, memory,
                     send, part, world, touched>>

\* ... then the MemoryNode, by a cutoff of its own that spares one second less.
FlushMemory ==
  /\ flush # None
  /\ memOutbox' = {r \in memOutbox : now - r.time < flush}
  /\ flush' = None
  /\ UNCHANGED <<file, opening, life, mem, memParts, send, part, world, history>>
-----------------------------------------------------------------------------
\* add_stream and add_chunk store the part ...
StorePart(x) ==
  /\ Opened /\ CanQuery /\ part[x] = "no"
  /\ stored' = stored \cup {x}
  /\ part' = [part EXCEPT ![x] = "forward"]
  /\ UNCHANGED <<schema, versions, config, rows, outbox, opening, life, memory,
                 send, flush, world, history>>

\* ... and give it to the MemoryNode (Reassembly says what that does with it).
ForwardPart(x) ==
  /\ part[x] = "forward"
  /\ memParts' = memParts \cup {x}
  /\ part' = [part EXCEPT ![x] = "no"]
  /\ UNCHANGED <<file, opening, life, mem, memOutbox, send, flush, world, history>>

Tick ==
  /\ now < MaxNow
  /\ now' = now + 1
  /\ UNCHANGED <<file, opening, life, memory, requests, deaths, calls, history>>
-----------------------------------------------------------------------------
Open == Connect \/ ReadVersion \/ Up \/ Record \/ BootstrapAgain \/ LoadKeys \/ StoreRoutingKey
StartStop == Start \/ SyncAdd \/ StartMemoryNode \/ StopMemoryNode \/ ClosePool

Next ==
  \/ Open \/ Die \/ StartStop \/ Tick
  \/ \E k \in Kinds : SyncRead(k)
  \/ \E k \in Kinds, n \in Names, v \in Vals \cup {None} : Store(k, n, v) \/ StoreByRpc(k, n, v)
  \/ \E m \in Msgs : SendBegin(m) \/ SendInsert(m) \/ SendFails(m) \/ SendForward(m)
  \/ \E a \in MaxAges : FlushFile(a)
  \/ FlushMemory
  \/ \E x \in Parts : StorePart(x) \/ ForwardPart(x)

Spec == Init /\ [][Next]_vars
-----------------------------------------------------------------------------
Rows == [Kinds -> [Names -> Vals \cup {None}]]
Timed == [msg : Msgs, time : 0..MaxNow]

\* The file, the process and the MemoryNode hold what they can hold.
TypeOK ==
  /\ schema \subseteq Versions /\ versions \subseteq Versions
  /\ config \in [content : Nat \cup {None}, routing : Nat \cup {None}]
  /\ rows \in Rows /\ outbox \subseteq Timed /\ stored \subseteq Parts
  /\ pc \in {"down", "bootstrap", "migrate", "record", "routing", "open", "failed"}
  /\ current \in 0..LastVersion \cup {None} /\ pool \in BOOLEAN
  /\ node \in {"stopped", "starting", "running", "stopping"}
  /\ copied \in [done : SUBSET Synced, kind : Synced \cup {None},
                 table : [Names -> Vals \cup {None}]]
  /\ keys \in Nat \cup {None}
  /\ mem \in Rows /\ memOutbox \subseteq Timed /\ memParts \subseteq Parts
  /\ send \in [Msgs -> [pc : {"no", "insert", "forward", "done", "lost"},
                        time : 0..MaxNow \cup {None}]]
  /\ part \in [Parts -> {"no", "forward"}]
  /\ flush \in MaxAges \cup {None}
  /\ now \in 0..MaxNow /\ deaths \in 0..MaxDeaths /\ calls \in 0..MaxCalls
  /\ touched \subseteq Kinds \X Names /\ flushedTo \in 0..MaxNow

\* Whenever the process died while it made the schema, the next one comes through: no
\* version is recorded of a migration that was not carried out, none is recorded twice,
\* and a node that is made finds all its tables (migrations.rs: migrate).
SchemaComplete ==
  /\ versions \subseteq schema
  /\ pc # "failed"
  /\ pc \in {"routing", "open"} => Versions \subseteq schema

\* A key that is in the file is not replaced, by this process or a later one
\* (database.rs: load_keys).
StoredKeysStay ==
  [][\A k \in DOMAIN config : config[k] # None => config'[k] = config[k]]_config

\* The file is written before the MemoryNode: a message that was acknowledged, or is
\* about to be, is in the file until flush_outbox is called with an age that it has
\* passed, and the MemoryNode works on no part of a stream that the file has not.
\* No death of the process changes that.
StoredFirst ==
  /\ \A m \in Msgs : send[m].pc \in {"forward", "done"} /\ send[m].time >= flushedTo
                       => [msg |-> m, time |-> send[m].time] \in outbox
  /\ memParts \subseteq stored

\* A node that is started has the contacts and the peers of the file, those apart that
\* were written since they were read, and has its keys (database.rs: start).
StartBringsBack ==
  node = "running" =>
    /\ keys # None
    /\ \A k \in Synced, n \in Names :
         rows[k][n] # None /\ <<k, n>> \notin touched => mem[k][n] = rows[k][n]
=============================================================================
