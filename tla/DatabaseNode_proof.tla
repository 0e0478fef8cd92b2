------------------------- MODULE DatabaseNode_proof -------------------------
(***************************************************************************)
(* Theorems about DatabaseNode: whatever the point at which the process    *)
(* dies, the schema is completed, the stored keys stay, what was           *)
(* acknowledged is in the file, and start brings the tables back.  For any *)
(* number of migrations, tables, messages and parts.                       *)
(***************************************************************************)
EXTENDS DatabaseNode, TLAPS

-----------------------------------------------------------------------------
\* The versions recorded are the first ones, and migrate goes on after the last of them.
VersionsInOrder ==
  /\ \E n \in 0..LastVersion : versions = 1..n
  /\ versions \subseteq schema
  /\ pc \in {"migrate", "record"} => current \in 0..LastVersion /\ versions = 1..current
  /\ pc = "record" => current < LastVersion /\ current + 1 \in schema
  /\ pc \in {"routing", "open"} => Versions \subseteq schema
  /\ pc # "failed"

\* The routing key is not stored before the content key, nor while it is being stored.
KeysInOrder ==
  /\ config.content = None => config.routing = None
  /\ pc = "routing" => config.content # None /\ config.routing = None

\* A message that was sent has a time, and what is forwarded is stored.
Forwarded ==
  /\ \A m \in Msgs : send[m].pc \in {"insert", "forward", "done"} => send[m].time # None
  /\ \A x \in Parts : part[x] = "forward" => x \in stored

\* A table that has the rows of the file which were not written since it was read.
Backed(k, table) ==
  \A n \in Names : rows[k][n] # None /\ <<k, n>> \notin touched => table[n] = rows[k][n]

\* What start has copied so far, and what it has read.
CopiedSoFar ==
  /\ node = "running" => keys # None /\ \A k \in Synced : Backed(k, mem[k])
  /\ node = "starting" =>
       /\ \A k \in copied.done : Backed(k, mem[k])
       /\ copied.kind # None => Backed(copied.kind, copied.table)

\* The first state has the types.
LEMMA InitTypes == Init => TypeOK
<1> SUFFICES ASSUME Init PROVE TypeOK
  OBVIOUS
<1> USE DatabaseNodeAssumption
<1>1. rows \in Rows /\ mem \in Rows
  BY DEF Init, NoRows, Rows
<1>2. copied \in [done : SUBSET Synced, kind : Synced \cup {None},
                  table : [Names -> Vals \cup {None}]]
  BY DEF Init, NotCopying
<1>3. send \in [Msgs -> [pc : {"no", "insert", "forward", "done", "lost"},
                         time : 0..MaxNow \cup {None}]]
  BY DEF Init, Idle, NotSent
<1>4. /\ config \in [content : Nat \cup {None}, routing : Nat \cup {None}]
      /\ part \in [Parts -> {"no", "forward"}]
  BY DEF Init
<1>5. /\ now \in 0..MaxNow /\ deaths \in 0..MaxDeaths /\ calls \in 0..MaxCalls
      /\ flushedTo \in 0..MaxNow
  BY DEF Init
<1>6. QED
  BY <1>1, <1>2, <1>3, <1>4, <1>5 DEF Init, TypeOK

\* The version that migrate reads is one of those that are recorded.
LEMMA VersionRead ==
  ASSUME VersionsInOrder, ReadVersion
  PROVE  current' \in 0..LastVersion /\ versions = 1..current'
<1> USE DatabaseNodeAssumption
<1>1. PICK n \in 0..LastVersion : versions = 1..n
  BY DEF VersionsInOrder
<1>2. CASE n = 0
  <2>1. versions = {}
    BY <1>1, <1>2
  <2>2. QED
    BY <1>1, <1>2, <2>1 DEF ReadVersion
<1>3. CASE n > 0
  <2> DEFINE top == CHOOSE v \in versions : \A w \in versions : w <= v
  <2>1. n \in versions /\ \A w \in versions : w <= n
    BY <1>1, <1>3
  <2>2. top \in versions /\ \A w \in versions : w <= top
    BY <2>1
  <2>3. top = n
    <3>1. top \in 1..n /\ n <= top
      BY <1>1, <2>1, <2>2
    <3> HIDE DEF top
    <3>2. QED
      BY <1>1, <3>1
  <2>4. versions # {} /\ current' = top
    BY <2>1 DEF ReadVersion
  <2>5. QED
    BY <1>1, <2>3, <2>4
<1>4. QED
  BY <1>1, <1>2, <1>3

\* The migrations come one after the other.
LEMMA NextIsSuccessor ==
  ASSUME current \in 0..LastVersion, Pending # {}
  PROVE  current < LastVersion /\ NextVersion = current + 1
<1> USE DatabaseNodeAssumption
<1>1. current < LastVersion
  BY DEF Pending, Versions
<1>2. current + 1 \in Pending /\ \A w \in Pending : current + 1 <= w
  BY <1>1 DEF Pending, Versions
<1>3. NextVersion \in Pending /\ \A w \in Pending : NextVersion <= w
  BY <1>2 DEF NextVersion
<1>4. NextVersion \in Nat /\ NextVersion <= current + 1 /\ current + 1 <= NextVersion
  BY <1>2, <1>3 DEF Pending, Versions
<1>5. QED
  BY <1>1, <1>4

\* Every step keeps the types, as long as migrate goes through the versions in order.
LEMMA StepTypes ==
  ASSUME TypeOK, VersionsInOrder, Forwarded, [Next]_vars
  PROVE  TypeOK'
<1> USE DatabaseNodeAssumption
<1> DEFINE Sends == [pc : {"no", "insert", "forward", "done", "lost"},
                     time : 0..MaxNow \cup {None}]
<1>0. /\ schema \subseteq Versions /\ versions \subseteq Versions
      /\ config \in [content : Nat \cup {None}, routing : Nat \cup {None}]
      /\ rows \in Rows /\ outbox \subseteq Timed /\ stored \subseteq Parts
      /\ current \in 0..LastVersion \cup {None} /\ pool \in BOOLEAN
      /\ copied \in [done : SUBSET Synced, kind : Synced \cup {None},
                     table : [Names -> Vals \cup {None}]]
      /\ keys \in Nat \cup {None}
      /\ mem \in Rows /\ memOutbox \subseteq Timed /\ memParts \subseteq Parts
      /\ send \in [Msgs -> Sends]
      /\ part \in [Parts -> {"no", "forward"}]
      /\ flush \in MaxAges \cup {None}
      /\ now \in 0..MaxNow /\ deaths \in 0..MaxDeaths /\ calls \in 0..MaxCalls
      /\ touched \subseteq Kinds \X Names /\ flushedTo \in 0..MaxNow
  BY DEF TypeOK
<1>1. CASE Connect \/ BootstrapAgain
  BY <1>1 DEF Connect, BootstrapAgain, file, life, memory, requests, world, history, TypeOK
<1>2. CASE ReadVersion
  BY <1>2, VersionRead DEF ReadVersion, file, life, memory, requests, world, history, TypeOK
<1>3. CASE Up
  <2>1. NextVersion \in Versions
    <3>1. current \in 0..LastVersion
      BY <1>3 DEF Up, VersionsInOrder
    <3>2. QED
      BY <1>3, <3>1, NextIsSuccessor DEF Up, Versions
  <2>2. QED
    BY <1>3, <2>1 DEF Up, life, memory, requests, world, history, TypeOK
<1>4. CASE Record
  <2>1. NextVersion \in Versions
    <3>1. current \in 0..LastVersion /\ current < LastVersion
      BY <1>4 DEF Record, VersionsInOrder
    <3>2. Pending # {}
      BY <3>1 DEF Pending, Versions
    <3>3. QED
      BY <3>1, <3>2, NextIsSuccessor DEF Versions
  <2>2. NextVersion \in 0..LastVersion
    BY <2>1 DEF Versions
  <2>3. UNCHANGED <<schema, config, rows, outbox, stored, pool, life, memory, requests, world,
                    history>>
    BY <1>4 DEF Record
  <2>4. /\ versions' \subseteq versions \cup {NextVersion} /\ current' \in {current, NextVersion}
        /\ pc' \in {"failed", "migrate"}
    BY <1>4 DEF Record
  <2>5. versions' \subseteq Versions /\ current' \in 0..LastVersion \cup {None}
    BY <1>0, <2>1, <2>2, <2>4
  <2>6. QED
    BY <2>3, <2>4, <2>5 DEF life, memory, requests, world, history, TypeOK
<1>5. CASE LoadKeys \/ StoreRoutingKey
  <2>1. config' \in [content : Nat \cup {None}, routing : Nat \cup {None}]
    BY <1>0, <1>5 DEF LoadKeys, StoreRoutingKey, NewKey
  <2>2. QED
    BY <1>5, <2>1 DEF LoadKeys, StoreRoutingKey, life, memory, requests, world, history, TypeOK
<1>6. CASE Die
  <2>1. mem' \in Rows
    BY <1>6 DEF Die, NoRows, Rows
  <2>2. copied' \in [done : SUBSET Synced, kind : Synced \cup {None},
                     table : [Names -> Vals \cup {None}]]
    BY <1>6 DEF Die, NotCopying
  <2>3. send' \in [Msgs -> Sends]
    <3>1. \A m \in Msgs : send[m] \in Sends /\ [send[m] EXCEPT !.pc = "lost"] \in Sends
      BY <1>0
    <3>2. QED
      BY <1>6, <3>1 DEF Die
  <2>4. deaths' \in 0..MaxDeaths
    BY <1>0, <1>6 DEF Die
  <2>5. QED
    BY <1>6, <2>1, <2>2, <2>3, <2>4 DEF Die, file, TypeOK
<1>7. CASE Start \/ StartMemoryNode \/ StopMemoryNode \/ ClosePool
  <2>1. NotCopying \in [done : SUBSET Synced, kind : Synced \cup {None},
                        table : [Names -> Vals \cup {None}]]
    BY DEF NotCopying
  <2>2. keys' \in Nat \cup {None}
    BY <1>0, <1>7 DEF Start, StartMemoryNode, StopMemoryNode, ClosePool, NewKey
  <2>3. QED
    BY <1>7, <2>1, <2>2 DEF Start, StartMemoryNode, StopMemoryNode, ClosePool, file, opening,
                            memory, requests, world, history, TypeOK
<1>8. ASSUME NEW k \in Kinds, SyncRead(k)
      PROVE  TypeOK'
  <2>1. rows[k] \in [Names -> Vals \cup {None}]
    BY <1>0 DEF Rows
  <2>2. copied' \in [done : SUBSET Synced, kind : Synced \cup {None},
                     table : [Names -> Vals \cup {None}]]
    BY <1>0, <1>8, <2>1 DEF SyncRead
  <2>3. QED
    BY <1>8, <2>2 DEF SyncRead, file, opening, memory, requests, world, TypeOK
<1>9. CASE SyncAdd
  <2>1. copied.kind \in Synced /\ copied.done \subseteq Synced
        /\ copied.table \in [Names -> Vals \cup {None}]
    BY <1>0, <1>9 DEF SyncAdd
  <2>2. copied' \in [done : SUBSET Synced, kind : Synced \cup {None},
                     table : [Names -> Vals \cup {None}]]
    <3>1. copied' = [NotCopying EXCEPT !.done = copied.done \cup {copied.kind}]
      BY <1>9 DEF SyncAdd
    <3>2. QED
      BY <2>1, <3>1 DEF NotCopying
  <2>3. mem' \in Rows
    <3>1. copied.kind \in Kinds
      BY <2>1
    <3>2. [n \in Names |-> IF copied.table[n] # None THEN copied.table[n]
                           ELSE mem[copied.kind][n]] \in [Names -> Vals \cup {None}]
      BY <1>0, <2>1, <3>1 DEF Rows
    <3>3. QED
      BY <1>0, <1>9, <3>2 DEF SyncAdd, Rows
  <2>4. QED
    BY <1>9, <2>2, <2>3 DEF SyncAdd, file, opening, requests, world, history, TypeOK
<1>10. ASSUME NEW k \in Kinds, NEW n \in Names, NEW v \in Vals \cup {None},
              Store(k, n, v) \/ StoreByRpc(k, n, v)
       PROVE  TypeOK'
  <2>1. \A t \in Rows : [t EXCEPT ![k][n] = v] \in Rows
    BY DEF Rows
  <2>2. rows' \in Rows /\ mem' \in Rows
    BY <1>0, <1>10, <2>1 DEF Store, StoreByRpc, file, memory, life
  <2>3. touched' \subseteq Kinds \X Names /\ calls' \in 0..MaxCalls
    BY <1>0, <1>10 DEF Store, StoreByRpc, Written, OneCall
  <2>4. QED
    BY <1>10, <2>2, <2>3 DEF Store, StoreByRpc, OneCall, file, opening, life, memory, requests,
                             TypeOK
<1>11. ASSUME NEW m \in Msgs, SendBegin(m) \/ SendFails(m)
       PROVE  TypeOK'
  <2>1. send' \in [Msgs -> Sends]
    BY <1>0, <1>11 DEF SendBegin, SendFails
  <2>2. QED
    BY <1>11, <2>1 DEF SendBegin, SendFails, file, opening, life, memory, world, history, TypeOK
<1>12. ASSUME NEW m \in Msgs, SendInsert(m) \/ SendForward(m)
       PROVE  TypeOK'
  <2>1. send' \in [Msgs -> Sends]
    BY <1>0, <1>12 DEF SendInsert, SendForward
  <2>2. send[m].pc = "insert" => [msg |-> m, time |-> send[m].time] \in Timed
    BY <1>0 DEF Forwarded, Timed
  <2>3. [msg |-> m, time |-> now] \in Timed
    BY <1>0 DEF Timed
  <2>4. outbox' \subseteq Timed /\ memOutbox' \subseteq Timed
    BY <1>0, <1>12, <2>2, <2>3 DEF SendInsert, SendForward, file, memory
  <2>5. QED
    BY <1>12, <2>1, <2>4 DEF SendInsert, SendForward, file, opening, life, memory, world,
                             history, TypeOK
<1>13. ASSUME NEW a \in MaxAges, FlushFile(a)
       PROVE  TypeOK'
  <2>1. now - a \in Int /\ now - a <= now
    BY <1>0
  <2>2. flushedTo' \in 0..MaxNow
    BY <1>0, <1>13, <2>1 DEF FlushFile
  <2>3. outbox' \subseteq Timed
    BY <1>0, <1>13 DEF FlushFile
  <2>4. QED
    BY <1>13, <2>2, <2>3 DEF FlushFile, opening, life, memory, world, TypeOK
<1>14. CASE FlushMemory
  BY <1>14 DEF FlushMemory, file, opening, life, world, history, TypeOK
<1>15. ASSUME NEW x \in Parts, StorePart(x) \/ ForwardPart(x)
       PROVE  TypeOK'
  BY <1>15 DEF StorePart, ForwardPart, file, opening, life, memory, world, history, TypeOK
<1>16. CASE Tick
  BY <1>0, <1>16 DEF Tick, file, opening, life, memory, requests, history, TypeOK
<1>17. CASE UNCHANGED vars
  BY <1>17 DEF vars, file, opening, life, memory, requests, world, history, TypeOK
<1>18. QED
  BY <1>1, <1>2, <1>3, <1>4, <1>5, <1>6, <1>7, <1>8, <1>9, <1>10, <1>11, <1>12, <1>13, <1>14,
     <1>15, <1>16, <1>17 DEF Next, Open, StartStop

\* The first state has recorded nothing and stored nothing.
LEMMA InitParts == Init => VersionsInOrder /\ KeysInOrder /\ Forwarded /\ CopiedSoFar
<1> SUFFICES ASSUME Init PROVE VersionsInOrder /\ KeysInOrder /\ Forwarded /\ CopiedSoFar
  OBVIOUS
<1>1. versions = 1..0 /\ 0 \in 0..LastVersion
  BY DatabaseNodeAssumption DEF Init
<1>2. VersionsInOrder
  BY <1>1 DEF Init, VersionsInOrder
<1>3. Forwarded /\ KeysInOrder /\ CopiedSoFar
  BY DEF Init, Idle, NotSent, Forwarded, KeysInOrder, CopiedSoFar
<1>4. QED
  BY <1>2, <1>3

\* Whatever migrate was interrupted at, it goes on where the record ends.
LEMMA StepVersions ==
  ASSUME TypeOK, VersionsInOrder, [Next]_vars
  PROVE  VersionsInOrder'
<1> USE DatabaseNodeAssumption
<1>1. CASE UNCHANGED <<schema, versions, pc, current>>
  BY <1>1 DEF VersionsInOrder
<1>2. CASE Connect \/ BootstrapAgain \/ Die
  <2>1. UNCHANGED <<schema, versions>> /\ pc' \in {"bootstrap", "down"}
    BY <1>2 DEF Connect, BootstrapAgain, Die, file
  <2>2. QED
    BY <2>1 DEF VersionsInOrder
<1>3. CASE ReadVersion
  <2>1. UNCHANGED <<schema, versions>> /\ pc' = "migrate"
    BY <1>3 DEF ReadVersion, file
  <2>2. QED
    BY <1>3, <2>1, VersionRead DEF VersionsInOrder
<1>4. CASE Up
  <2>1. /\ current \in 0..LastVersion /\ versions = 1..current /\ versions \subseteq schema
        /\ UNCHANGED <<versions, current>>
        /\ schema' = schema \cup {NextVersion} /\ pc' = "record"
    BY <1>4 DEF Up, VersionsInOrder
  <2>2. current < LastVersion /\ NextVersion = current + 1
    BY <1>4, <2>1, NextIsSuccessor DEF Up
  <2>3. QED
    BY <2>1, <2>2 DEF VersionsInOrder
<1>5. CASE Record
  <2>1. /\ current \in 0..LastVersion /\ versions = 1..current /\ versions \subseteq schema
        /\ current < LastVersion /\ current + 1 \in schema /\ schema' = schema
    BY <1>5 DEF Record, VersionsInOrder
  <2>2. NextVersion = current + 1
    <3>1. Pending # {}
      BY <2>1 DEF Pending, Versions
    <3>2. QED
      BY <2>1, <3>1, NextIsSuccessor
  <2>3. NextVersion \notin versions
    BY <2>1, <2>2
  <2>4. /\ versions' = versions \cup {current + 1} /\ current' = current + 1
        /\ pc' = "migrate"
    BY <1>5, <2>2, <2>3 DEF Record
  <2>5. versions' = 1..current' /\ current' \in 0..LastVersion
    BY <2>1, <2>4
  <2>6. versions' \subseteq schema'
    BY <2>1, <2>4
  <2>7. QED
    BY <2>4, <2>5, <2>6 DEF VersionsInOrder
<1>6. CASE LoadKeys \/ StoreRoutingKey
  <2>1. UNCHANGED <<schema, versions, current>> /\ pc' \in {"routing", "open"}
    BY <1>6 DEF LoadKeys, StoreRoutingKey
  <2>2. Versions \subseteq schema
    <3>1. CASE StoreRoutingKey
      BY <3>1 DEF StoreRoutingKey, VersionsInOrder
    <3>2. CASE LoadKeys
      <4>1. current \in 0..LastVersion /\ versions = 1..current /\ versions \subseteq schema
        BY <3>2 DEF LoadKeys, VersionsInOrder
      <4>2. \A v \in Versions : ~(v > current)
        BY <3>2 DEF LoadKeys, Pending
      <4>3. QED
        BY <4>1, <4>2 DEF Versions
    <3>3. QED
      BY <1>6, <3>1, <3>2
  <2>3. QED
    BY <2>1, <2>2 DEF VersionsInOrder
<1>7. QED
  <2>1. Start \/ SyncAdd \/ StartMemoryNode \/ StopMemoryNode \/ ClosePool \/ Tick
          \/ FlushMemory \/ UNCHANGED vars
          => UNCHANGED <<schema, versions, pc, current>>
    BY DEF Start, SyncAdd, StartMemoryNode, StopMemoryNode, ClosePool, Tick, FlushMemory,
           vars, file, opening
  <2>2. ASSUME NEW k \in Kinds, SyncRead(k)
        PROVE  UNCHANGED <<schema, versions, pc, current>>
    BY <2>2 DEF SyncRead, file, opening
  <2>3. ASSUME NEW k, NEW n, NEW v, Store(k, n, v) \/ StoreByRpc(k, n, v)
        PROVE  UNCHANGED <<schema, versions, pc, current>>
    BY <2>3 DEF Store, StoreByRpc, file, opening
  <2>4. ASSUME NEW m, SendBegin(m) \/ SendInsert(m) \/ SendFails(m) \/ SendForward(m)
        PROVE  UNCHANGED <<schema, versions, pc, current>>
    BY <2>4 DEF SendBegin, SendInsert, SendFails, SendForward, file, opening
  <2>5. ASSUME NEW a, FlushFile(a) \/ StorePart(a) \/ ForwardPart(a)
        PROVE  UNCHANGED <<schema, versions, pc, current>>
    BY <2>5 DEF FlushFile, StorePart, ForwardPart, file, opening
  <2>6. QED
    BY <1>1, <1>2, <1>3, <1>4, <1>5, <1>6, <2>1, <2>2, <2>3, <2>4, <2>5
       DEF Next, Open, StartStop

\* What the steps outside LoadKeys, StoreRoutingKey and the process's own death do to
\* the keys, and where they go.
LEMMA StepKeys ==
  ASSUME TypeOK, KeysInOrder, [Next]_vars
  PROVE  /\ KeysInOrder'
         /\ \A k \in DOMAIN config : config[k] # None => config'[k] = config[k]
<1> USE DatabaseNodeAssumption
<1>0. config \in [content : Nat \cup {None}, routing : Nat \cup {None}] /\ NewKey # None
  BY DEF TypeOK, NewKey
<1>1. CASE config' = config /\ (pc' = pc \/ pc' # "routing")
  BY <1>1 DEF KeysInOrder
<1>2. CASE LoadKeys
  BY <1>0, <1>2 DEF LoadKeys, KeysInOrder
<1>3. CASE StoreRoutingKey
  BY <1>0, <1>3 DEF StoreRoutingKey, KeysInOrder
<1>4. QED
  <2>1. Start \/ SyncAdd \/ StartMemoryNode \/ StopMemoryNode \/ ClosePool \/ Tick
          \/ FlushMemory \/ UNCHANGED vars
          => config' = config /\ pc' = pc
    BY DEF Start, SyncAdd, StartMemoryNode, StopMemoryNode, ClosePool, Tick, FlushMemory,
           vars, file, opening
  <2>2. Connect \/ ReadVersion \/ Up \/ Record \/ BootstrapAgain \/ Die
          => config' = config /\ pc' # "routing"
    BY DEF Connect, ReadVersion, Up, Record, BootstrapAgain, Die, file
  <2>3. ASSUME NEW k \in Kinds, SyncRead(k)
        PROVE  config' = config /\ pc' = pc
    BY <2>3 DEF SyncRead, file, opening
  <2>4. ASSUME NEW k, NEW n, NEW v, Store(k, n, v) \/ StoreByRpc(k, n, v)
        PROVE  config' = config /\ pc' = pc
    BY <2>4 DEF Store, StoreByRpc, file, opening
  <2>5. ASSUME NEW m, SendBegin(m) \/ SendInsert(m) \/ SendFails(m) \/ SendForward(m)
        PROVE  config' = config /\ pc' = pc
    BY <2>5 DEF SendBegin, SendInsert, SendFails, SendForward, file, opening
  <2>6. ASSUME NEW a, FlushFile(a) \/ StorePart(a) \/ ForwardPart(a)
        PROVE  config' = config /\ pc' = pc
    BY <2>6 DEF FlushFile, StorePart, ForwardPart, file, opening
  <2>7. QED
    BY <1>1, <1>2, <1>3, <2>1, <2>2, <2>3, <2>4, <2>5, <2>6 DEF Next, Open, StartStop

\* What was forwarded to the MemoryNode is in the file.
LEMMA StepStored ==
  ASSUME TypeOK, Forwarded, StoredFirst, [Next]_vars
  PROVE  Forwarded' /\ StoredFirst'
<1> USE DatabaseNodeAssumption
<1> DEFINE Sends == [pc : {"no", "insert", "forward", "done", "lost"},
                     time : 0..MaxNow \cup {None}]
<1>0. /\ send \in [Msgs -> Sends] /\ part \in [Parts -> {"no", "forward"}]
      /\ now \in 0..MaxNow /\ flushedTo \in 0..MaxNow
      /\ \A m \in Msgs : send[m] \in Sends
  BY DEF TypeOK
<1>1. CASE UNCHANGED <<outbox, send, flushedTo, stored, part, memParts>>
  BY <1>1 DEF Forwarded, StoredFirst
<1>2. CASE Die
  <2>1. /\ UNCHANGED <<outbox, flushedTo, stored>> /\ memParts' = {}
        /\ \A x \in Parts : part'[x] = "no"
    BY <1>2 DEF Die, file
  <2>2. ASSUME NEW m \in Msgs
        PROVE  /\ send'[m].pc \in {"no", "done", "lost"}
               /\ send'[m].pc = "done" => send'[m] = send[m]
               /\ send'[m].time = send[m].time
    BY <1>0, <1>2 DEF Die
  <2>3. QED
    BY <2>1, <2>2 DEF Forwarded, StoredFirst
<1>3. ASSUME NEW m \in Msgs, SendBegin(m) \/ SendFails(m)
      PROVE  Forwarded' /\ StoredFirst'
  <2>1. /\ UNCHANGED <<outbox, flushedTo, stored, part, memParts>>
        /\ \A x \in Msgs : x # m => send'[x] = send[x]
        /\ send'[m].pc \in {"insert", "lost"} /\ (send'[m].pc = "insert" => send'[m].time = now)
    BY <1>0, <1>3 DEF SendBegin, SendFails, file, memory, history
  <2>2. QED
    BY <1>0, <2>1 DEF Forwarded, StoredFirst
<1>4. ASSUME NEW m \in Msgs, SendInsert(m)
      PROVE  Forwarded' /\ StoredFirst'
  <2>1. /\ UNCHANGED <<flushedTo, stored, part, memParts>>
        /\ \A x \in Msgs : x # m => send'[x] = send[x]
        /\ send'[m].pc = "forward" /\ send'[m].time = send[m].time /\ send[m].pc = "insert"
        /\ outbox' = outbox \cup {[msg |-> m, time |-> send[m].time]}
    BY <1>0, <1>4 DEF SendInsert, memory, history
  <2>2. QED
    BY <1>0, <2>1 DEF Forwarded, StoredFirst
<1>5. ASSUME NEW m \in Msgs, SendForward(m)
      PROVE  Forwarded' /\ StoredFirst'
  <2>1. /\ UNCHANGED <<outbox, flushedTo, stored, part, memParts>>
        /\ \A x \in Msgs : x # m => send'[x] = send[x]
        /\ send'[m].pc = "done" /\ send'[m].time = send[m].time /\ send[m].pc = "forward"
    BY <1>0, <1>5 DEF SendForward, file, history
  <2>2. QED
    BY <1>0, <2>1 DEF Forwarded, StoredFirst
<1>6. ASSUME NEW a \in MaxAges, FlushFile(a)
      PROVE  Forwarded' /\ StoredFirst'
  <2> DEFINE cutoff == now - a
  <2>1. /\ UNCHANGED <<send, stored, part, memParts>>
        /\ outbox' = {r \in outbox : ~(r.time < cutoff)}
        /\ flushedTo' = IF cutoff > flushedTo THEN cutoff ELSE flushedTo
    BY <1>6 DEF FlushFile, memory
  <2>2. cutoff \in Int
    BY <1>0
  <2> HIDE DEF cutoff
  <2>3. flushedTo' >= cutoff /\ flushedTo' >= flushedTo /\ flushedTo' \in Int
    BY <1>0, <2>1, <2>2
  <2>4. ASSUME NEW m \in Msgs, send[m].pc \in {"forward", "done"}, send[m].time >= flushedTo'
        PROVE  [msg |-> m, time |-> send[m].time] \in outbox'
    <3>1. send[m].time \in Nat
      BY <1>0, <2>4 DEF Forwarded
    <3>2. send[m].time >= flushedTo /\ ~(send[m].time < cutoff)
      BY <1>0, <2>2, <2>3, <2>4, <3>1
    <3>3. [msg |-> m, time |-> send[m].time] \in outbox
      BY <2>4, <3>2 DEF StoredFirst
    <3>4. QED
      BY <2>1, <3>2, <3>3
  <2>5. QED
    BY <2>1, <2>4 DEF Forwarded, StoredFirst
<1>7. ASSUME NEW x \in Parts, StorePart(x) \/ ForwardPart(x)
      PROVE  Forwarded' /\ StoredFirst'
  <2>1. /\ UNCHANGED <<outbox, send, flushedTo>> /\ stored \subseteq stored'
        /\ \A y \in Parts : y # x => part'[y] = part[y]
        /\ part'[x] = "forward" => x \in stored'
        /\ memParts' = memParts \/ (memParts' = memParts \cup {x} /\ part[x] = "forward")
    BY <1>0, <1>7 DEF StorePart, ForwardPart, file, memory, history
  <2>2. QED
    BY <2>1 DEF Forwarded, StoredFirst
<1>8. QED
  <2>1. Connect \/ ReadVersion \/ Up \/ Record \/ BootstrapAgain \/ LoadKeys \/ StoreRoutingKey
          => UNCHANGED <<outbox, send, flushedTo, stored, part, memParts>>
    BY DEF Connect, ReadVersion, Up, Record, BootstrapAgain, LoadKeys, StoreRoutingKey, file,
           memory, requests, history
  <2>2. Start \/ SyncAdd \/ StartMemoryNode \/ StopMemoryNode \/ ClosePool \/ Tick
          \/ FlushMemory \/ UNCHANGED vars
          => UNCHANGED <<outbox, send, flushedTo, stored, part, memParts>>
    BY DEF Start, SyncAdd, StartMemoryNode, StopMemoryNode, ClosePool, Tick, FlushMemory,
           vars, file, memory, requests, history
  <2>3. ASSUME NEW k \in Kinds, SyncRead(k)
        PROVE  UNCHANGED <<outbox, send, flushedTo, stored, part, memParts>>
    BY <2>3 DEF SyncRead, file, memory, requests
  <2>4. ASSUME NEW k, NEW n, NEW v, Store(k, n, v) \/ StoreByRpc(k, n, v)
        PROVE  UNCHANGED <<outbox, send, flushedTo, stored, part, memParts>>
    BY <2>4 DEF Store, StoreByRpc, file, memory, requests
  <2>5. QED
    BY <1>1, <1>2, <1>3, <1>4, <1>5, <1>6, <1>7, <2>1, <2>2, <2>3, <2>4
       DEF Next, Open, StartStop

\* Start copies what the file has.
LEMMA StepCopied ==
  ASSUME TypeOK, CopiedSoFar, [Next]_vars
  PROVE  CopiedSoFar'
<1> USE DatabaseNodeAssumption
<1>0. /\ rows \in Rows /\ mem \in Rows
      /\ copied \in [done : SUBSET Synced, kind : Synced \cup {None},
                     table : [Names -> Vals \cup {None}]]
      /\ copied.done \subseteq Synced /\ (copied.kind # None => copied.kind \in Synced)
      /\ keys \in Nat \cup {None} /\ deaths \in Nat
  BY DEF TypeOK
<1>1. CASE UNCHANGED <<rows, mem, touched, node, copied, keys>>
  BY <1>1 DEF CopiedSoFar, Backed
<1>2. CASE node' \in {"stopped", "stopping"}
  BY <1>2 DEF CopiedSoFar
<1>3. CASE Start
  <2>1. node' = "starting" /\ copied'.done = {} /\ copied'.kind = None
    BY <1>3 DEF Start, NotCopying
  <2>2. QED
    BY <2>1 DEF CopiedSoFar
<1>4. ASSUME NEW k \in Kinds, SyncRead(k)
      PROVE  CopiedSoFar'
  <2>1. /\ node = "starting" /\ node' = "starting" /\ UNCHANGED <<rows, mem>>
        /\ k \notin copied.done /\ copied'.done = copied.done /\ copied'.kind = k
        /\ copied'.table = rows[k]
        /\ touched' = {t \in touched : t[1] # k}
    BY <1>0, <1>4 DEF SyncRead, file, memory
  <2>2. ASSUME NEW j \in copied.done
        PROVE  Backed(j, mem[j])'
    <3>1. Backed(j, mem[j]) /\ j # k
      BY <2>1 DEF CopiedSoFar
    <3>2. \A n \in Names : <<j, n>> \in touched => <<j, n>> \in touched'
      BY <2>1, <3>1
    <3>3. QED
      BY <2>1, <3>1, <3>2 DEF Backed
  <2>3. QED
    BY <2>1, <2>2 DEF CopiedSoFar, Backed
<1>5. CASE SyncAdd
  <2> DEFINE k == copied.kind
             after == [n \in Names |-> IF copied.table[n] # None THEN copied.table[n]
                                       ELSE mem[k][n]]
  <2>1. /\ node = "starting" /\ node' = "starting" /\ UNCHANGED <<rows, touched>>
        /\ k \in Synced /\ mem' = [mem EXCEPT ![k] = after]
        /\ copied'.done = copied.done \cup {k} /\ copied'.kind = None
        /\ \A j \in copied.done : Backed(j, mem[j])
        /\ Backed(k, copied.table)
    BY <1>0, <1>5 DEF SyncAdd, NotCopying, file, history, CopiedSoFar
  <2>2. \A n \in Names : rows[k][n] # None /\ <<k, n>> \notin touched => after[n] = rows[k][n]
    BY <2>1 DEF Backed
  <2>3. mem'[k] = after /\ \A j \in Synced : j # k => mem'[j] = mem[j]
    BY <1>0, <2>1 DEF Rows
  <2> HIDE DEF k, after
  <2>4. ASSUME NEW j \in copied'.done
        PROVE  Backed(j, mem[j])'
    <3>1. CASE j = k
      BY <2>1, <2>2, <2>3, <3>1 DEF Backed
    <3>2. CASE j # k
      BY <1>0, <2>1, <2>3, <3>2 DEF Backed
    <3>3. QED
      BY <3>1, <3>2
  <2>5. QED
    BY <2>1, <2>4 DEF CopiedSoFar
<1>6. CASE StartMemoryNode
  <2>1. /\ node = "starting" /\ node' = "running" /\ UNCHANGED <<rows, mem, touched>>
        /\ copied.done = Synced /\ keys' # None
    BY <1>0, <1>6 DEF StartMemoryNode, file, memory, history, NewKey
  <2>2. QED
    BY <2>1 DEF CopiedSoFar, Backed
<1>7. ASSUME NEW k \in Kinds, NEW n \in Names, NEW v, Store(k, n, v) \/ StoreByRpc(k, n, v)
      PROVE  CopiedSoFar'
  <2>1. /\ UNCHANGED <<node, copied, keys>> /\ touched' = touched \cup {<<k, n>>}
        /\ \A j \in Kinds, i \in Names : <<j, i>> # <<k, n>> =>
             rows'[j][i] = rows[j][i] /\ mem'[j][i] = mem[j][i]
    BY <1>0, <1>7 DEF Store, StoreByRpc, Written, file, life, memory, Rows
  <2>2. ASSUME NEW j \in Synced, Backed(j, mem[j])
        PROVE  Backed(j, mem[j])'
    BY <2>1, <2>2 DEF Backed
  <2>3. ASSUME NEW j \in Synced, Backed(j, copied.table)
        PROVE  Backed(j, copied.table)'
    BY <2>1, <2>3 DEF Backed
  <2>4. QED
    BY <1>0, <2>1, <2>2, <2>3 DEF CopiedSoFar
<1>8. QED
  <2>1. Connect \/ ReadVersion \/ Up \/ Record \/ BootstrapAgain \/ LoadKeys \/ StoreRoutingKey
          \/ Tick \/ FlushMemory \/ UNCHANGED vars
          => UNCHANGED <<rows, mem, touched, node, copied, keys>>
    BY DEF Connect, ReadVersion, Up, Record, BootstrapAgain, LoadKeys, StoreRoutingKey, Tick,
           FlushMemory, vars, file, life, memory, history
  <2>2. Die \/ StopMemoryNode \/ ClosePool => node' \in {"stopped", "stopping"}
    BY DEF Die, StopMemoryNode, ClosePool
  <2>3. ASSUME NEW m, SendBegin(m) \/ SendInsert(m) \/ SendFails(m) \/ SendForward(m)
        PROVE  UNCHANGED <<rows, mem, touched, node, copied, keys>>
    BY <2>3 DEF SendBegin, SendInsert, SendFails, SendForward, file, life, memory, history
  <2>4. ASSUME NEW a, FlushFile(a) \/ StorePart(a) \/ ForwardPart(a)
        PROVE  UNCHANGED <<rows, mem, touched, node, copied, keys>>
    BY <2>4 DEF FlushFile, StorePart, ForwardPart, file, life, memory, history
  <2>5. QED
    BY <1>1, <1>2, <1>3, <1>4, <1>5, <1>6, <1>7, <2>1, <2>2, <2>3, <2>4
       DEF Next, Open, StartStop

\* The inductive invariant.
Inductive ==
  TypeOK /\ VersionsInOrder /\ KeysInOrder /\ Forwarded /\ StoredFirst /\ CopiedSoFar

LEMMA Invariant == Spec => []Inductive
<1>1. Init => Inductive
  <2>1. Init => StoredFirst
    BY DEF Init, Idle, NotSent, StoredFirst
  <2>2. QED
    BY <2>1, InitTypes, InitParts DEF Inductive
<1>2. Inductive /\ [Next]_vars => Inductive'
  BY StepTypes, StepVersions, StepKeys, StepStored, StepCopied DEF Inductive
<1>3. QED
  BY <1>1, <1>2, PTL DEF Spec

\* The types of the state, whenever the process dies.
THEOREM TypeCorrect == Spec => []TypeOK
<1>1. Inductive => TypeOK
  BY DEF Inductive
<1>2. QED
  BY <1>1, Invariant, PTL

\* Whatever migration the process died in, and however often, the next one comes through:
\* a migration is carried out before it is recorded, and none is recorded twice.
THEOREM SchemaCompleted == Spec => []SchemaComplete
<1>1. Inductive => SchemaComplete
  BY DEF Inductive, VersionsInOrder, SchemaComplete
<1>2. QED
  BY <1>1, Invariant, PTL

\* No process replaces a key that is in the file.
THEOREM KeysStay == Spec => StoredKeysStay
<1>1. Inductive /\ [Next]_vars
        => [\A k \in DOMAIN config : config[k] # None => config'[k] = config[k]]_config
  BY StepKeys DEF Inductive
<1>2. QED
  BY <1>1, Invariant, PTL DEF Spec, StoredKeysStay

\* What send_msg has acknowledged, or the MemoryNode been given, is in the file until
\* it is flushed.
THEOREM AcknowledgedIsStored == Spec => []StoredFirst
<1>1. Inductive => StoredFirst
  BY DEF Inductive
<1>2. QED
  BY <1>1, Invariant, PTL

\* A node that was started has the tables of the file, but for what was written since.
THEOREM TablesCopied == Spec => []StartBringsBack
<1>1. Inductive => StartBringsBack
  BY DEF Inductive, CopiedSoFar, Backed, StartBringsBack
<1>2. QED
  BY <1>1, Invariant, PTL
=============================================================================
