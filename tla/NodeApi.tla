------------------------------- MODULE NodeApi -------------------------------
(***************************************************************************)
(* admin_rpc and public_rpc of MemoryNode and FilesystemNode: the calls a  *)
(* node answers, what it asks of their arguments, and what they do to its  *)
(* tables of contacts, channels, profiles and peers, its keys, and its     *)
(* being started.  The tables are concurrent maps: one access to one is a  *)
(* step, and so is each shard that a listing of it goes through.           *)
(*                                                                         *)
(* What is in the outbox and what a pickup takes from it is in Outbox and  *)
(* FilesystemNode; here a message is only counted, and a bundle is opaque. *)
(***************************************************************************)
EXTENDS Naturals, Sequences, SequencesExt, Functions, JsonValues

CONSTANTS
  Clients,  \* who makes calls: the handlers of a server, the program itself
  Calls,    \* the calls made: [public, action, args]
  PubKeys,  \* the strings that PubKey::from_string reads
  PrivKeys, \* the strings that KeyPair::from_string reads
  Names,    \* the names the tables can have
  MaxCalls, \* bound: how many calls are made
  None      \* no error, no value, no key

Tables == {"contact", "channel", "profile", "peer"}
Kinds == {"memory", "filesystem"}

\* Why a call is refused before anything is done.
Refusals == {"action", "count", "type", "format"}

\* What is put into a table has one of the names.
Named(call) ==
  call.action \in {"AddContact", "AddChannel", "AddProfile", "AddPeer"} /\ call.args # << >> =>
    call.args[1] \in Names

\* A call has the arguments of some action, in number and type, or others.
ASSUME NodeApiAssumption ==
  /\ MaxCalls \in Nat /\ None \notin Nat \cup Refusals
  /\ \A c \in Calls : Named(c) /\ c.public \in BOOLEAN /\ c.args \in Seq(Range(c.args))

VARIABLES
  kind,    \* which node it is
  running, \* is it started?
  based,   \* does the directory of a FilesystemNode exist?
  keys,    \* its routing and its content key: the number of a key pair, None at first
  made,    \* how many key pairs have been made
  tables,  \* the tables: from names to entries
  outbox,  \* how many messages were put into the outbox or saved
  inbox,   \* how many bundles were dropped off
  task,    \* what is done for each client
  asked,   \* how many calls have been made
  log      \* history: all that the tables have been

node == <<kind, running, based, keys, made>>
store == <<tables, log>>
data == <<store, outbox, inbox>>
vars == <<node, data, task, asked>>
-----------------------------------------------------------------------------
GetOf == [GetContact |-> "contact", GetChannel |-> "channel",
          GetProfile |-> "profile", GetPeer |-> "peer"]
ListOf == [GetContacts |-> "contact", GetChannels |-> "channel",
           GetProfiles |-> "profile", GetPeers |-> "peer"]
DeleteOf == [DeleteContact |-> "contact", DeleteChannel |-> "channel",
             DeleteProfile |-> "profile", DeletePeer |-> "peer"]

\* What a FilesystemNode answers to an administrator; a MemoryNode answers more.
FilesystemActions ==
  DOMAIN GetOf \cup DOMAIN ListOf \cup DOMAIN DeleteOf
    \cup {"AddContact", "AddChannel", "AddProfile", "AddPeer", "LoadProfile", "CID", "SendMsg"}
MemoryActions ==
  FilesystemActions
    \cup {"Send", "SendChannel", "GetChannelPrivKey", "FlushOutbox", "IsRunning", "Start", "Stop"}
PublicActions == {"ID", "Pickup", "Dropoff"}

Known(call) ==
  call.action \in IF call.public THEN PublicActions
                  ELSE IF kind = "memory" THEN MemoryActions ELSE FilesystemActions

\* The types of the arguments each action cannot do without, where it looks at them.
NameFirst == DOMAIN GetOf \cup DOMAIN DeleteOf \cup {"LoadProfile", "GetChannelPrivKey"}
Required(call) ==
  CASE call.action \in NameFirst -> <<{"string"}>>
    [] call.action \in {"AddContact", "AddChannel"} -> <<{"string"}, {"string"}>>
    [] call.action = "AddProfile" -> <<{"string"}, {"bool"}>>
    [] call.action = "AddPeer" -> <<{"string"}, {"bool"}, {"string"}>>
    [] call.action \in {"Send", "SendChannel"} -> <<{"string"}, {"string", "array"}>>
    [] call.action \in {"SendMsg", "Dropoff"} -> <<{"any"}>>
    [] call.action = "Pickup" /\ kind = "memory" ->
         <<{"string"}, {"number"}, {"number"}, {"array"}>>
    [] call.action = "Pickup" -> <<{"string"}, {"number"}>>
    [] OTHER -> <<>>

\* What may follow: a group of peers, the channels of a FilesystemNode's pickup.
Further(call) == (call.action \in {"AddPeer", "GetPeers"}
                    \/ (call.action = "Pickup" /\ kind = "filesystem"))
Checked(call) ==
  LET n == Len(Required(call))
  IN  IF ~Further(call) THEN {}
      ELSE IF call.action = "Pickup" THEN n + 1 .. Len(call.args)
      ELSE {i \in {n + 1} : i <= Len(call.args)}

Is(v, types) ==
  \/ "any" \in types
  \/ KindOf(v) \in types
  \/ "string" \in types /\ IsString(v)

WrongCount(call) == Len(call.args) < Len(Required(call))
WrongType(call) ==
  \/ \E i \in DOMAIN Required(call) : ~Is(call.args[i], Required(call)[i])
  \/ \E i \in Checked(call) : ~IsString(call.args[i])

\* from_value reads a Bundle from an object, or from an array of its fields; of a Msg,
\* whose fields are of types that no JSON array here has, an object.
IsBundle(v) ==
  \/ KindOf(v) = "object"
  \/ KindOf(v) = "array" /\ Len(v.array) = 2
       /\ (IsString(v.array[1]) \/ KindOf(v.array[1]) = "array")
       /\ KindOf(v.array[2]) = "number"
Unreadable(call) ==
  \/ call.action = "Dropoff" /\ ~IsBundle(call.args[1])
  \/ call.action = "SendMsg" /\ kind = "memory" /\ KindOf(call.args[1]) # "object"
  \/ call.action = "Pickup" /\ kind = "memory" /\ call.args[1] \notin PubKeys

Refusal(call) ==
  CASE ~Known(call) -> "action"
    [] Known(call) /\ WrongCount(call) -> "count"
    [] Known(call) /\ ~WrongCount(call) /\ WrongType(call) -> "type"
    [] OTHER -> IF Unreadable(call) THEN "format" ELSE None
-----------------------------------------------------------------------------
Success(v) == [error |-> None, value |-> v]
Failure(e) == [error |-> e, value |-> None]
Idle == [pc |-> "idle", answer |-> None]
Asked(call) == [pc |-> "asked", call |-> call]
Answered(answer) == [pc |-> "answered", answer |-> answer]
Answer(c, answer) == task' = [task EXCEPT ![c] = Answered(answer)]

Init ==
  /\ kind \in Kinds /\ running = FALSE
  /\ based \in IF kind = "memory" THEN {FALSE} ELSE BOOLEAN
  /\ keys = [routing |-> None, content |-> None] /\ made = 0
  /\ tables = [t \in Tables |-> << >>] /\ log = <<tables>>
  /\ outbox = 0 /\ inbox = 0
  /\ task = [c \in Clients |-> Idle] /\ asked = 0

Free(c) == task[c].pc \in {"idle", "answered"} /\ asked < MaxCalls
Ask(c, call) ==
  /\ Free(c)
  /\ task' = [task EXCEPT ![c] = Asked(call)]
  /\ asked' = asked + 1
  /\ UNCHANGED <<node, data>>

\* The call of c is accepted and is one of the actions given.
Doing(c, actions) ==
  /\ task[c].pc = "asked" /\ task[c].call.action \in actions
  /\ Refusal(task[c].call) = None
Action(c) == task[c].call.action
Arg(c, i) == task[c].call.args[i]
Given(c, i, default) == IF Len(task[c].call.args) < i THEN default ELSE Arg(c, i)

Refuse(c) ==
  /\ task[c].pc = "asked" /\ Refusal(task[c].call) # None
  /\ Answer(c, Failure(Refusal(task[c].call)))
  /\ UNCHANGED <<node, data, asked>>
-----------------------------------------------------------------------------
\* The maps: insert, remove, get.
PutEntry(t, name, entry) ==
  /\ tables' = [tables EXCEPT ![t] =
                   [n \in DOMAIN @ \cup {name} |-> IF n = name THEN entry ELSE @[n]]]
  /\ log' = Append(log, tables')
DropEntry(t, name) ==
  /\ tables' = [tables EXCEPT ![t] = Restrict(@, DOMAIN @ \ {name})]
  /\ log' = Append(log, tables')
Has(t, name) == name \in DOMAIN tables[t]

AddContact(c) ==
  /\ Doing(c, {"AddContact"})
  /\ IF kind = "filesystem" /\ Arg(c, 2) \notin PubKeys
     THEN Answer(c, Failure("key")) /\ UNCHANGED store
     ELSE /\ PutEntry("contact", Arg(c, 1), [pubkey |-> Arg(c, 2)])
          /\ Answer(c, Success(Null))
  /\ UNCHANGED <<node, outbox, inbox, asked>>

\* A FilesystemNode makes the directory of the channel after the entry: when that fails,
\* for want of the base directory or because another call makes it at the same time, the
\* answer is an error and the entry stays.
AddChannel(c) ==
  /\ Doing(c, {"AddChannel"})
  /\ IF Arg(c, 2) \notin PrivKeys
     THEN Answer(c, Failure("key")) /\ UNCHANGED store
     ELSE /\ PutEntry("channel", Arg(c, 1), [privkey |-> Arg(c, 2)])
          /\ \/ (kind = "memory" \/ based) /\ Answer(c, Success(Null))
             \/ kind = "filesystem" /\ Answer(c, Failure("directory"))
  /\ UNCHANGED <<node, outbox, inbox, asked>>

\* Variant: the key pair is one that was made before.
AddProfileOldKey(c) ==
  /\ Doing(c, {"AddProfile"})
  /\ PutEntry("profile", Arg(c, 1), [enabled |-> Arg(c, 2).bool, key |-> made])
  /\ Answer(c, Success(Null))
  /\ UNCHANGED <<node, outbox, inbox, asked>>

AddProfile(c) ==
  /\ Doing(c, {"AddProfile"})
  /\ PutEntry("profile", Arg(c, 1), [enabled |-> Arg(c, 2).bool, key |-> made])
  /\ made' = made + 1
  /\ Answer(c, Success(Null))
  /\ UNCHANGED <<kind, running, based, keys, outbox, inbox, asked>>

NoGroup == IF kind = "memory" THEN Str("") ELSE Str("default")
AddPeer(c) ==
  /\ Doing(c, {"AddPeer"})
  /\ PutEntry("peer", Arg(c, 1), [enabled |-> Arg(c, 2).bool, group |-> Given(c, 4, NoGroup)])
  /\ Answer(c, Success(Null))
  /\ UNCHANGED <<node, outbox, inbox, asked>>

Delete(c) ==
  /\ Doing(c, DOMAIN DeleteOf)
  /\ LET t == DeleteOf[Action(c)]
     IN  IF Has(t, Arg(c, 1)) THEN DropEntry(t, Arg(c, 1)) /\ Answer(c, Success(Null))
                              ELSE UNCHANGED store /\ Answer(c, Failure("missing"))
  /\ UNCHANGED <<node, outbox, inbox, asked>>

Get(c) ==
  /\ Doing(c, DOMAIN GetOf)
  /\ LET t == GetOf[Action(c)]
     IN  Answer(c, IF Has(t, Arg(c, 1)) THEN Success(Obj(tables[t][Arg(c, 1)]))
                                        ELSE Failure("missing"))
  /\ UNCHANGED <<node, data, asked>>

\* load_profile and get_channel_privkey answer a key of the entry.
GetKey(c) ==
  /\ Doing(c, {"LoadProfile", "GetChannelPrivKey"})
  /\ LET t == IF Action(c) = "LoadProfile" THEN "profile" ELSE "channel"
         name == Arg(c, 1)
     IN  Answer(c, IF ~Has(t, name) THEN Failure("missing")
                   ELSE IF t = "profile" THEN Success(Text(Num(tables[t][name].key)))
                   ELSE Success(tables[t][name].privkey))
  /\ UNCHANGED <<node, data, asked>>
-----------------------------------------------------------------------------
\* get_contacts and the others go through the map one shard after the other; what is
\* put into or taken from one that is done or to come, they do not notice.
ListBegin(c) ==
  /\ Doing(c, DOMAIN ListOf)
  /\ task' = [task EXCEPT ![c] =
                 [pc |-> "listing", of |-> ListOf[Action(c)],
                  group |-> IF Action(c) = "GetPeers" THEN Given(c, 1, None) ELSE None,
                  todo |-> Names, found |-> {}, since |-> Len(log)]]
  /\ UNCHANGED <<node, data, asked>>

Listed(tbls, t, group) == {n \in DOMAIN tbls[t] : group = None \/ tbls[t][n].group = group}

\* Variant: a shard is skipped when another call is about to use it.
ListShardTry(c, n) ==
  /\ task[c].pc = "listing" /\ n \in task[c].todo
  /\ LET busy == \E d \in Clients \ {c} : task[d].pc = "asked" /\ n \in Range(task[d].call.args)
     IN  task' = [task EXCEPT ![c].todo = @ \ {n},
                    ![c].found = @ \cup (IF busy THEN {} ELSE
                                         {n} \cap Listed(tables, task[c].of, task[c].group))]
  /\ UNCHANGED <<node, data, asked>>

ListShard(c, n) ==
  /\ task[c].pc = "listing" /\ n \in task[c].todo
  /\ task' = [task EXCEPT ![c].todo = @ \ {n},
                          ![c].found = @ \cup ({n} \cap Listed(tables, task[c].of, task[c].group))]
  /\ UNCHANGED <<node, data, asked>>

ListEnd(c) ==
  /\ task[c].pc = "listing" /\ task[c].todo = {}
  /\ Answer(c, Success(Arr(SetToSeq({Obj([name |-> n]) : n \in task[c].found}))))
  /\ UNCHANGED <<node, data, asked>>
-----------------------------------------------------------------------------
\* Send and SendChannel make a message of their arguments and SendMsg reads one; what is
\* in it is put into the outbox.  A FilesystemNode answers SendMsg and does nothing.
Send(c) ==
  /\ Doing(c, {"Send", "SendChannel", "SendMsg"})
  /\ outbox' = IF kind = "memory" THEN outbox + 1 ELSE outbox
  /\ Answer(c, Success(Null))
  /\ UNCHANGED <<node, store, inbox, asked>>

FlushOutbox(c) ==
  /\ Doing(c, {"FlushOutbox"})
  /\ outbox' \in 0..outbox
  /\ Answer(c, Success(Null))
  /\ UNCHANGED <<node, store, inbox, asked>>

\* A bundle that cannot be read is dropped and answered like one that is handled; a
\* FilesystemNode saves it as it is.
Dropoff(c) ==
  /\ Doing(c, {"Dropoff"})
  /\ IF kind = "memory" \/ based
     THEN inbox' = inbox + 1 /\ Answer(c, Success(Null))
     ELSE UNCHANGED inbox /\ Answer(c, Failure("directory"))
  /\ UNCHANGED <<node, store, outbox, asked>>

Pickup(c) ==
  /\ Doing(c, {"Pickup"})
  /\ Answer(c, Success(Obj([bundle |-> TRUE])))
  /\ UNCHANGED <<node, data, asked>>

\* ID answers the routing key, CID the content key; before the first start there is none.
Identify(c) ==
  /\ Doing(c, {"ID", "CID"})
  /\ LET key == IF Action(c) = "ID" THEN keys.routing ELSE keys.content
     IN  Answer(c, IF key = None THEN Failure("keyless") ELSE Success(Text(Num(key))))
  /\ UNCHANGED <<node, data, asked>>

IsRunning(c) ==
  /\ Doing(c, {"IsRunning"})
  /\ Answer(c, Success(Bool(running)))
  /\ UNCHANGED <<node, data, asked>>

\* Starting makes the keys that are not there.
MakeKeys ==
  /\ keys' = [routing |-> IF keys.routing = None THEN made ELSE keys.routing,
              content |-> IF keys.content = None THEN made + 1 ELSE keys.content]
  /\ made' = IF keys.routing = None THEN made + 2 ELSE made

StartByRpc(c) ==
  /\ Doing(c, {"Start"})
  /\ running' = TRUE /\ MakeKeys
  /\ Answer(c, Success(Null))
  /\ UNCHANGED <<kind, based, data, asked>>

StopByRpc(c) ==
  /\ Doing(c, {"Stop"})
  /\ running' = FALSE
  /\ Answer(c, Success(Null))
  /\ UNCHANGED <<kind, based, keys, made, data, asked>>

\* The program starts and stops its node.  A FilesystemNode that is started is an error,
\* and one that is not, to stop.
Start ==
  /\ kind = "memory" \/ ~running
  /\ running' = TRUE /\ MakeKeys
  /\ based' = (based \/ kind = "filesystem")
  /\ UNCHANGED <<kind, data, task, asked>>

Stop ==
  /\ kind = "memory" \/ running
  /\ running' = FALSE
  /\ UNCHANGED <<kind, based, keys, made, data, task, asked>>

Handle(c) ==
  \/ Refuse(c) \/ AddContact(c) \/ AddChannel(c) \/ AddProfile(c) \/ AddPeer(c)
  \/ Delete(c) \/ Get(c) \/ GetKey(c) \/ ListBegin(c) \/ ListEnd(c)
  \/ \E n \in Names : ListShard(c, n)
  \/ Send(c) \/ FlushOutbox(c) \/ Dropoff(c) \/ Pickup(c) \/ Identify(c)
  \/ IsRunning(c) \/ StartByRpc(c) \/ StopByRpc(c)

Next ==
  \/ \E c \in Clients : Handle(c) \/ \E call \in Calls : Ask(c, call)
  \/ Start \/ Stop

Spec == Init /\ [][Next]_vars
-----------------------------------------------------------------------------
\* Every table maps names to its kind of entries, keys are numbers of key pairs made.
TypeOK ==
  /\ kind \in Kinds /\ running \in BOOLEAN /\ based \in BOOLEAN
  /\ keys \in [{"routing", "content"} -> (0..(made - 1)) \cup {None}]
  /\ (keys.routing = None) = (keys.content = None)
  /\ made \in 0..(MaxCalls + 2) /\ outbox \in 0..MaxCalls /\ inbox \in 0..MaxCalls
  /\ asked \in 0..MaxCalls
  /\ DOMAIN tables = Tables /\ \A t \in Tables : DOMAIN tables[t] \subseteq Names
  /\ \A n \in DOMAIN tables["profile"] : tables["profile"][n].key < made
  /\ log[Len(log)] = tables
  /\ DOMAIN task = Clients

\* A listing is not made at one moment: an entry that comes or goes meanwhile may be in it
\* or not, whatever else is.  But it has every entry that was there all the time, and none
\* that was never there.
ListingBracketed ==
  \A c \in Clients : task[c].pc = "listing" =>
     LET seen(i) == Listed(log[i], task[c].of, task[c].group)
         during == task[c].since .. Len(log)
     IN  \A n \in Names :
           /\ n \in task[c].found => \E i \in during : n \in seen(i)
           /\ n \notin task[c].todo /\ (\A i \in during : n \in seen(i)) => n \in task[c].found
=============================================================================
