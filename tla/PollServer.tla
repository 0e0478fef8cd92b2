----------------------------- MODULE PollServer -----------------------------
(***************************************************************************)
(* PeerTable::poll_server: the push and pull of messages between the local *)
(* node and the node at one host, and the table that holds what is known   *)
(* of the host.                                                            *)
(*                                                                         *)
(* A call reads the host's PeerInfo out of the table, under a lock that it *)
(* gives back, and then works on that object, which the table shares with  *)
(* it only as long as nobody puts another in its place: the first poll of  *)
(* the host does, to add the routing key, and so do add_peer and           *)
(* remove_peer.  Nothing keeps two calls for one host apart: between any   *)
(* two awaits of a call the others go on.  What a call does between two    *)
(* awaits, a few loads and stores of the PeerInfo, is taken for one step.  *)
(*                                                                         *)
(* The two nodes and the transport are what poll_server asks of the traits *)
(* Node and Transport: a pickup is made of what was sent at or after the   *)
(* time given to it (Outbox shows how far a MemoryNode keeps to that), an  *)
(* rpc is answered, or it fails with or without having been carried out.   *)
(*                                                                         *)
(* A call belongs to some task of the program, and no task outlives a      *)
(* panic of its call: the next call is that of another task.  A build with *)
(* panic = "abort" ends with the first panic.                              *)
(***************************************************************************)
EXTENDS Integers, FiniteSets

CONSTANTS
  Polls,     \* room for the calls of poll_server for the host that are under way
  PeerInfos, \* the memory for PeerInfo objects
  Up,        \* the messages the local node sends to the remote one
  Down,      \* the messages the remote node sends to the local one
  None,      \* no time, no object, no bundle
  MaxNow,    \* bound: the last second of the clock
  MaxFaults  \* bound: how often something fails or the table is changed

\* There is room for an object more than the table and the calls refer to.
ASSUME PollServerAssumption ==
  /\ IsFiniteSet(Polls) /\ IsFiniteSet(PeerInfos)
  /\ Cardinality(PeerInfos) >= Cardinality(Polls) + 2
  /\ Up \cap Down = {}
  /\ None \notin Nat /\ None \notin PeerInfos
  /\ None \notin [data : SUBSET (Up \cup Down), time : Nat]
  /\ MaxNow \in Nat /\ MaxFaults \in Nat

VARIABLES
  now,      \* the clock of the two nodes
  stamp,    \* when each message was sent
  table,    \* peer_table's entry for the host
  info,     \* the PeerInfo objects
  call,     \* the calls: where each is, and what its variables hold
  atRemote, \* what has been dropped off at the remote node
  atLocal,  \* what has been dropped off at the local node
  faults,   \* how often something has failed or the table was changed
  process,  \* what a panic does to the program (it "unwinds" the task or "aborts"), or "over"
  overlap   \* history: have two calls been under way at the same time?

nodes == <<now, stamp, atRemote, atLocal>>
peers == <<table, info>>
world == <<faults, overlap, process>>
vars  == <<nodes, peers, call, world>>
-----------------------------------------------------------------------------
\* A new PeerInfo.  total_bytes_tx is kept as the number of dropoffs it counts, up to 2.
NewInfo == [key |-> FALSE, local |-> 0, remote |-> 0, tx |-> 0]

\* A call not under way.  peer is its PeerInfo, since its last_poll_remote; a variable
\* that is not read any more holds nothing.
Idle == [pc |-> "idle", peer |-> None, since |-> None, toRemote |-> None, toLocal |-> None]

\* PeerInfos are Arcs: one that is neither in the table nor in use by a call is free.
InUse == {table} \cup {call[p].peer : p \in Polls}
Fresh == CHOOSE o \in PeerInfos : o \notin InUse

\* The objects, once the table holds t and the calls are cs.
Swept(objects, t, cs) ==
  [o \in PeerInfos |->
     IF o = t \/ \E p \in Polls : cs[p].peer = o THEN objects[o] ELSE NewInfo]

\* The messages of a node that were sent at or after a time.
Bundle(msgs, time) ==
  [data |-> {m \in msgs : stamp[m] # None /\ stamp[m] >= time}, time |-> now]
HasData(bundle) == bundle # None /\ bundle.data # {}

Goto(p, label) == call' = [call EXCEPT ![p].pc = label]

\* poll_server returns, or its task is lost; objects are the PeerInfos as it leaves them.
End(p, objects) ==
  /\ call' = [call EXCEPT ![p] = Idle]
  /\ info' = Swept(objects, table, call')
  /\ UNCHANGED table

Fault == faults < MaxFaults /\ faults' = faults + 1 /\ UNCHANGED <<overlap, process>>
-----------------------------------------------------------------------------
Init ==
  /\ now = 0
  /\ stamp = [m \in Up \cup Down |-> None]
  /\ table = None
  /\ info = [o \in PeerInfos |-> NewInfo]
  /\ call = [p \in Polls |-> Idle]
  /\ atRemote = {}
  /\ atLocal = {}
  /\ faults = 0
  /\ overlap = FALSE
  /\ process \in {"unwinds", "aborts"}

Tick ==
  /\ now < MaxNow
  /\ now' = now + 1
  /\ UNCHANGED <<stamp, atRemote, atLocal, peers, call, world>>

\* A node is given a message to send.
SendMsg(m) ==
  /\ stamp[m] = None
  /\ m \in Up => process # "over"
  /\ stamp' = [stamp EXCEPT ![m] = now]
  /\ UNCHANGED <<now, atRemote, atLocal, peers, call, world>>

\* A call looks for the host in the table.
Begin(p) ==
  /\ call[p].pc = "idle" /\ process # "over"
  /\ Goto(p, IF table = None THEN "create" ELSE "load")
  /\ overlap' = (overlap \/ \E q \in Polls : call[q].pc # "idle")
  /\ UNCHANGED <<nodes, peers, faults, process>>

\* The host was not there: a PeerInfo is made and put into the table, whatever is in
\* it by now.
Create(p) ==
  /\ call[p].pc = "create"
  /\ Goto(p, "load")
  /\ table' = Fresh
  /\ info' = Swept(info, Fresh, call)
  /\ UNCHANGED <<nodes, world>>

\* The PeerInfo is read out of the table.
Load(p) ==
  /\ call[p].pc = "load"
  /\ table # None
  /\ call' = [call EXCEPT ![p].peer = table,
                         ![p].pc = IF info[table].key THEN "pickup" ELSE "key"]
  /\ UNCHANGED <<nodes, peers, world>>

\* Variant: the copy that has the key is not put into the table.
GetKeyKept(p) ==
  /\ call[p].pc = "key"
  /\ Goto(p, "pickup")
  /\ UNCHANGED <<nodes, peers, world>>

\* rpc ID is answered: a copy of the PeerInfo that has the key goes into the table.
\* The call goes on with the PeerInfo it has.
GetKey(p) ==
  LET copy == [info[call[p].peer] EXCEPT !.key = TRUE]
  IN  /\ call[p].pc = "key"
      /\ Goto(p, "pickup")
      /\ table' = Fresh
      /\ info' = Swept([info EXCEPT ![Fresh] = copy], Fresh, call)
      /\ UNCHANGED <<nodes, world>>

\* The times are read, and the local node is asked for what is new for the host.
PickupLocal(p) ==
  LET mine == info[call[p].peer]
  IN  /\ call[p].pc = "pickup"
      /\ mine.key
      /\ call' = [call EXCEPT ![p].pc = "ask", ![p].since = mine.remote,
                             ![p].toRemote = Bundle(Up, mine.local)]
      /\ UNCHANGED <<nodes, peers, world>>

\* An unwrap of what is not there: of the table's entry, or of the routing key.
UnwrapsNone(p) ==
  \/ call[p].pc = "load" /\ table = None
  \/ call[p].pc = "pickup" /\ ~ info[call[p].peer].key

\* The task of the call ends with it.
Unwind(p) ==
  /\ End(p, info)
  /\ UNCHANGED world

\* All tasks do, and the table is gone.
Abort ==
  /\ process' = "over"
  /\ call' = [p \in Polls |-> Idle]
  /\ table' = None
  /\ info' = [o \in PeerInfos |-> NewInfo]
  /\ UNCHANGED <<faults, overlap>>

Panic(p) ==
  /\ UnwrapsNone(p)
  /\ IF process = "aborts" THEN Abort ELSE Unwind(p)
  /\ UNCHANGED nodes

\* Variant: last_poll_remote moves as soon as the remote bundle is there.
PickupRemoteAndRecord(p) ==
  /\ call[p].pc = "ask"
  /\ call' = [call EXCEPT ![p].pc = "hand", ![p].since = None,
                         ![p].toLocal = Bundle(Down, call[p].since)]
  /\ info' = [info EXCEPT ![call[p].peer].remote = now]
  /\ UNCHANGED <<nodes, table, world>>

\* rpc Pickup is answered with a bundle.
PickupRemote(p) ==
  /\ call[p].pc = "ask"
  /\ call' = [call EXCEPT ![p].pc = "hand", ![p].since = None,
                         ![p].toLocal = Bundle(Down, call[p].since)]
  /\ UNCHANGED <<nodes, peers, world>>

\* It is answered with something else, and the call goes on without one.
NoBundle(p) ==
  /\ call[p].pc = "ask"
  /\ Fault
  /\ call' = [call EXCEPT ![p].pc = "hand", ![p].since = None]
  /\ UNCHANGED <<nodes, peers>>

\* Variant: a dropoff that fails is logged, and the call goes on.
DropoffRemoteUnchecked(p) ==
  /\ call[p].pc = "hand"
  /\ HasData(call[p].toRemote)
  /\ atRemote' \in {atRemote, atRemote \cup call[p].toRemote.data}
  /\ Goto(p, "count")
  /\ UNCHANGED <<now, stamp, atLocal, peers, world>>

\* rpc Dropoff is carried out and answered.
DropoffRemote(p) ==
  /\ call[p].pc = "hand"
  /\ HasData(call[p].toRemote)
  /\ atRemote' = atRemote \cup call[p].toRemote.data
  /\ Goto(p, "count")
  /\ UNCHANGED <<now, stamp, atLocal, peers, world>>

\* There is nothing for the remote node.
SkipDropoff(p) ==
  /\ call[p].pc = "hand"
  /\ ~ HasData(call[p].toRemote)
  /\ call' = [call EXCEPT ![p].pc = "take", ![p].toRemote = None]
  /\ UNCHANGED <<nodes, peers, world>>

\* rpc Dropoff is carried out and the answer is lost: the call fails.
AnswerLost(p) ==
  /\ call[p].pc = "hand"
  /\ HasData(call[p].toRemote)
  /\ Fault
  /\ atRemote' = atRemote \cup call[p].toRemote.data
  /\ End(p, info)
  /\ UNCHANGED <<now, stamp, atLocal>>

\* The dropoff has been counted.
Counted(tx) == IF tx < 2 THEN tx + 1 ELSE 2

\* Variant: last_poll_local is left where it is.
CountSentOnly(p) ==
  /\ call[p].pc = "count"
  /\ info' = [info EXCEPT ![call[p].peer].tx = Counted(@)]
  /\ call' = [call EXCEPT ![p].pc = "take", ![p].toRemote = None]
  /\ UNCHANGED <<nodes, table, world>>

\* The dropoff is counted, and last_poll_local moves if it is not the first.
CountSent(p) ==
  LET mine  == info[call[p].peer]
      moved == IF mine.tx > 0 THEN call[p].toRemote.time ELSE mine.local
  IN  /\ call[p].pc = "count"
      /\ info' = [info EXCEPT ![call[p].peer] =
                    [mine EXCEPT !.local = moved, !.tx = Counted(mine.tx)]]
      /\ call' = [call EXCEPT ![p].pc = "take", ![p].toRemote = None]
      /\ UNCHANGED <<nodes, table, world>>

\* The local node takes the remote bundle.
DropoffLocal(p) ==
  /\ call[p].pc = "take"
  /\ HasData(call[p].toLocal)
  /\ atLocal' = atLocal \cup call[p].toLocal.data
  /\ Goto(p, "record")
  /\ UNCHANGED <<now, stamp, atRemote, peers, world>>

\* Variant: last_poll_remote moves whether or not there is something for the local node.
EndWithoutRecorded(p) ==
  /\ call[p].pc = "take"
  /\ ~ HasData(call[p].toLocal)
  /\ Goto(p, "record")
  /\ UNCHANGED <<nodes, peers, world>>

\* There is nothing for the local node.
EndWithout(p) ==
  /\ call[p].pc = "take"
  /\ ~ HasData(call[p].toLocal)
  /\ End(p, info)
  /\ UNCHANGED <<nodes, world>>

\* last_poll_remote moves: this call has counted total_bytes_rx up, it is not 0.
RecordReceived(p) ==
  /\ call[p].pc = "record"
  /\ End(p, [info EXCEPT ![call[p].peer].remote = call[p].toLocal.time])
  /\ UNCHANGED <<nodes, world>>

\* An rpc that is not carried out or not answered, or a call of the node that fails.
CanFail(p) ==
  \/ call[p].pc \in {"key", "ask"}
  \/ call[p].pc = "pickup" /\ info[call[p].peer].key
  \/ call[p].pc = "hand" /\ HasData(call[p].toRemote)
  \/ call[p].pc = "take" /\ HasData(call[p].toLocal)

Fail(p) ==
  /\ CanFail(p)
  /\ Fault
  /\ End(p, info)
  /\ UNCHANGED nodes

\* add_peer and remove_peer, and clear with it.
AddPeer ==
  /\ process # "over"
  /\ Fault
  /\ table' = Fresh
  /\ info' = Swept(info, Fresh, call)
  /\ UNCHANGED <<nodes, call>>

RemovePeer ==
  /\ process # "over"
  /\ Fault
  /\ table' = None
  /\ info' = Swept(info, None, call)
  /\ UNCHANGED <<nodes, call>>

\* What a call goes on with as long as nothing fails.
Step(p) ==
  \/ Create(p) \/ Load(p) \/ GetKey(p) \/ Panic(p)
  \/ PickupLocal(p) \/ PickupRemote(p)
  \/ DropoffRemote(p) \/ SkipDropoff(p) \/ CountSent(p)
  \/ DropoffLocal(p) \/ EndWithout(p) \/ RecordReceived(p)

Next ==
  \/ Tick
  \/ \E m \in Up \cup Down : SendMsg(m)
  \/ \E p \in Polls : Begin(p) \/ Step(p) \/ NoBundle(p) \/ AnswerLost(p) \/ Fail(p)
  \/ AddPeer
  \/ RemovePeer

Spec == Init /\ [][Next]_vars

\* The runtime goes on with a call that has begun.  None has to begin.
FairSpec == Spec /\ \A p \in Polls : WF_vars(Step(p))
-----------------------------------------------------------------------------
Infos == [key : BOOLEAN, local : Nat, remote : Nat, tx : 0 .. 2]
Bundles(msgs) == [data : SUBSET msgs, time : Nat]
Labels ==
  {"idle", "create", "load", "key", "pickup", "ask", "hand", "count", "take", "record"}
Calls ==
  [pc : Labels, peer : PeerInfos \cup {None}, since : Nat \cup {None},
   toRemote : Bundles(Up) \cup {None}, toLocal : Bundles(Down) \cup {None}]

\* What a call needs where it is.
Equipped(c) ==
  /\ c.peer = None <=> c.pc \in {"idle", "create", "load"}
  /\ c.since # None <=> c.pc = "ask"
  /\ c.toRemote # None <=> c.pc \in {"ask", "hand", "count"}
  /\ c.toLocal # None => c.pc \in {"hand", "count", "take", "record"}
  /\ c.pc = "record" => c.toLocal # None

TypeOK ==
  /\ now \in 0 .. MaxNow
  /\ stamp \in [Up \cup Down -> Nat \cup {None}]
  /\ table \in PeerInfos \cup {None}
  /\ info \in [PeerInfos -> Infos]
  /\ call \in [Polls -> Calls]
  /\ atRemote \subseteq Up
  /\ atLocal \subseteq Down
  /\ faults \in 0 .. MaxFaults
  /\ overlap \in BOOLEAN
  /\ process \in {"unwinds", "aborts", "over"}
  /\ \A p \in Polls : Equipped(call[p])

\* What last_poll_local has moved past has reached the remote node, whatever calls
\* overlap, fail or lose their PeerInfo: the next pickups do not offer it again.
UpCovered ==
  \A o \in PeerInfos : \A m \in Up :
    stamp[m] # None /\ stamp[m] < info[o].local => m \in atRemote

\* And what last_poll_remote has moved past has reached the local node.
DownCovered ==
  \A o \in PeerInfos : \A m \in Down :
    stamp[m] # None /\ stamp[m] < info[o].remote => m \in atLocal

\* As long as no two calls overlap and nothing fails, a message is dropped off again
\* only by the second dropoff, or if it was sent in the second of last_poll_local.
RepeatsExplained ==
  ~ overlap /\ faults = 0 =>
    \A p \in Polls : call[p].pc = "hand" =>
      \A m \in call[p].toRemote.data \cap atRemote :
        info[call[p].peer].tx <= 1 \/ stamp[m] = info[call[p].peer].local

\* The messages of a node that have been sent, and those that a time, of some PeerInfo,
\* has moved past.
Sent(msgs) == {m \in msgs : stamp[m] # None}
PassedLocal  == {m \in Sent(Up) : \E o \in PeerInfos : stamp[m] < info[o].local}
PassedRemote == {m \in Sent(Down) : \E o \in PeerInfos : stamp[m] < info[o].remote}

\* Either way the polls of a host are deliveries of StoreAndForward, and nothing is
\* excused: only what was sent arrives, nothing that has arrived is taken back, a time
\* passes only what is there, and none has passed a message that is sent now.
Pushed == INSTANCE StoreAndForward WITH
            Msgs <- Up, sent <- Sent(Up), excused <- {}, arrived <- atRemote,
            passed <- PassedLocal
Pulled == INSTANCE StoreAndForward WITH
            Msgs <- Down, sent <- Sent(Down), excused <- {}, arrived <- atLocal,
            passed <- PassedRemote
PushForwards == Pushed!Spec
PullForwards == Pulled!Spec

\* If some task or other polls the host again and again, every message reaches the other node in
\* the end, once nothing fails any more, and though the first poll of each PeerInfo costs the task
\* that makes it (poll_server).  Where that ends the program, nothing is polled any more.
PolledForever == []<><<\E p \in Polls : Begin(p)>>_vars
EverythingExchanged ==
  PolledForever => \A m \in Up \cup Down : stamp[m] # None ~> m \in atRemote \cup atLocal
=============================================================================
