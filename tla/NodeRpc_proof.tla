--------------------------- MODULE NodeRpc_proof ---------------------------
(***************************************************************************)
(* Theorems about NodeRpc, and NodeApi with it: the types of a node that   *)
(* is called over the wire and without, and what a listing holds.  For any *)
(* set of clients and of calls, any number of them, and whatever the codec *)
(* makes of the bytes.  And theorems about the codec, as far as Scalars    *)
(* has it: what is written of a value that is no array is read again.      *)
(***************************************************************************)
EXTENDS NodeRpc, Scalars, FiniteSetTheorems, SequenceTheorems, WellFoundedInduction, TLAPS

-----------------------------------------------------------------------------
\* The invariant.

\* The calls that have been made and not yet been begun.
Pending == {c \in Clients : task[c].pc = "asked" \/ wire[c] = "request"}

\* The key pairs of profiles: two others are the node's.
ProfileKeys == IF keys.routing = None THEN made ELSE made - 2

\* Each call puts at most one thing into the node, ...
Held == outbox + inbox + ProfileKeys
Counters == outbox \in Nat /\ inbox \in Nat /\ ProfileKeys \in Nat
Counted ==
  /\ Counters /\ asked \in 0..MaxCalls
  /\ IsFiniteSet(Pending) /\ Held + Cardinality(Pending) <= asked

NodeKinds ==
  /\ kind \in Kinds /\ running \in BOOLEAN /\ based \in BOOLEAN /\ made \in Nat
  /\ keys \in [{"routing", "content"} -> (0..(made - 1)) \cup {None}]
  /\ keys.routing = None <=> keys.content = None

\* ... the tables are the last of their history, ...
StoreKinds ==
  /\ DOMAIN tables = Tables /\ \A t \in Tables : DOMAIN tables[t] \subseteq Names
  /\ \A n \in DOMAIN tables["profile"] :
       tables["profile"][n].key \in Nat /\ tables["profile"][n].key < made
  /\ \E S : log \in Seq(S)
  /\ Len(log) > 0 /\ log[Len(log)] = tables

Listing(t, group, todo, found, since) ==
  [pc |-> "listing", of |-> t, group |-> group, todo |-> todo, found |-> found, since |-> since]
IsListing(r, last) ==
  \E t \in Tables, todo \in SUBSET Names, found \in SUBSET Names, since \in 1..last : \E group :
    r = Listing(t, group, todo, found, since)

\* ... and what is on the wire is what was sent.
TaskKinds ==
  /\ DOMAIN task = Clients /\ DOMAIN wire = Clients /\ DOMAIN bytes = Clients /\ DOMAIN call = Clients
  /\ \A c \in Clients :
       /\ task[c].pc = "asked" => Named(task[c].call)
       /\ task[c].pc = "listing" => IsListing(task[c], Len(log))
       /\ wire[c] = "request" =>
            /\ call[c] \in Sent /\ bytes[c] = RemoteCallToBytes(call[c])
            /\ task[c].pc \in {"idle", "answered"}

Invariant == Counted /\ NodeKinds /\ StoreKinds /\ TaskKinds
-----------------------------------------------------------------------------
\* Sequences of anything.
LEMMA AppendAny ==
  ASSUME NEW S, NEW s \in Seq(S), NEW x
  PROVE  /\ Append(s, x) \in Seq(S \cup {x})
         /\ Len(Append(s, x)) = Len(s) + 1 /\ Len(s) \in Nat
         /\ \A i \in 1..Len(s) : Append(s, x)[i] = s[i]
         /\ Append(s, x)[Len(s) + 1] = x
<1>1. s \in Seq(S \cup {x}) /\ x \in S \cup {x}
  OBVIOUS
<1> QED
  BY <1>1

\* A call has been begun by the action for it: it was not refused.
LEMMA NamedArgument ==
  ASSUME TaskKinds, NEW c \in Clients,
         Doing(c, {"AddContact"}) \/ Doing(c, {"AddChannel"}) \/ Doing(c, {"AddProfile"}) \/ Doing(c, {"AddPeer"})
  PROVE  Arg(c, 1) \in Names
<1> DEFINE call_ == task[c].call
<1>1. /\ task[c].pc = "asked" /\ Refusal(call_) = None
      /\ call_.action \in {"AddContact", "AddChannel", "AddProfile", "AddPeer"}
  BY DEF Doing
<1>2. Len(call_.args) >= Len(Required(call_)) /\ Len(Required(call_)) > 0
  <2>1. ~ WrongCount(call_)
    BY <1>1, NodeApiAssumption DEF Refusal, Refusals
  <2>2. Len(Required(call_)) \in {2, 3}
    BY <1>1 DEF Required, NameFirst, GetOf, DeleteOf
  <2> QED
    BY <2>1, <2>2 DEF WrongCount
<1>3. call_.args # << >>
  BY <1>2
<1> QED
  BY <1>1, <1>3 DEF TaskKinds, Named, Arg
-----------------------------------------------------------------------------
\* What a step of a call does, by what it touches.  Most answer it at once; ...
Replies(c) == task[c].pc = "asked" /\ \E answer : task' = [task EXCEPT ![c] = Answered(answer)]
RepliesOnly(c) ==
  \/ Refuse(c) \/ Get(c) \/ GetKey(c) \/ Pickup(c) \/ Identify(c) \/ IsRunning(c)
Puts(c) == AddContact(c) \/ AddChannel(c) \/ AddProfile(c) \/ AddPeer(c)

LEMMA OnlyReplying ==
  ASSUME NEW c, RepliesOnly(c)
  PROVE  Replies(c) /\ UNCHANGED <<node, data, asked>>
<1>1. CASE Refuse(c)
  BY <1>1 DEF Refuse, Answer, Replies
<1>2. CASE Get(c)
  BY <1>2, Zenon DEF Get, Doing, Answer, Replies
<1>3. CASE GetKey(c)
  BY <1>3, Zenon DEF GetKey, Doing, Answer, Replies
<1>4. CASE Pickup(c) \/ Identify(c) \/ IsRunning(c)
  BY <1>4, Zenon DEF Pickup, Identify, IsRunning, Doing, Answer, Replies
<1> QED
  BY <1>1, <1>2, <1>3, <1>4 DEF RepliesOnly

LEMMA StoringReplies ==
  ASSUME NEW c, Puts(c) \/ Delete(c)
  PROVE  Replies(c) /\ UNCHANGED <<kind, running, based, keys, outbox, inbox, asked>>
<1>1. CASE AddContact(c)
  BY <1>1, Zenon DEF AddContact, Doing, Answer, Replies, node
<1>2. CASE AddChannel(c)
  BY <1>2, Zenon DEF AddChannel, Doing, Answer, Replies, node
<1>3. CASE AddProfile(c)
  BY <1>3, Zenon DEF AddProfile, Doing, Answer, Replies, node
<1>4. CASE AddPeer(c)
  BY <1>4, Zenon DEF AddPeer, Doing, Answer, Replies, node
<1>5. CASE Delete(c)
  BY <1>5, Zenon DEF Delete, Doing, Answer, Replies, node
<1> QED
  BY <1>1, <1>2, <1>3, <1>4, <1>5 DEF Puts

LEMMA CountingReplies ==
  ASSUME NEW c, Send(c) \/ FlushOutbox(c) \/ Dropoff(c)
  PROVE  Replies(c) /\ UNCHANGED <<node, store, asked>>
<1>1. CASE Send(c) \/ FlushOutbox(c)
  BY <1>1, Zenon DEF Send, FlushOutbox, Doing, Answer, Replies
<1>2. CASE Dropoff(c)
  BY <1>2, Zenon DEF Dropoff, Doing, Answer, Replies
<1> QED
  BY <1>1, <1>2

LEMMA StartingReplies ==
  ASSUME NEW c, StartByRpc(c) \/ StopByRpc(c)
  PROVE  Replies(c) /\ UNCHANGED <<kind, based, data, asked>>
BY Zenon DEF StartByRpc, StopByRpc, Doing, Answer, Replies

\* ... but a listing takes its time.
LEMMA Listings ==
  ASSUME TaskKinds, StoreKinds, NEW c \in Clients
  PROVE  /\ ListBegin(c) =>
              /\ task[c].pc = "asked"
              /\ \E t \in Tables : \E group :
                   task' = [task EXCEPT ![c] = Listing(t, group, Names, {}, Len(log))]
         /\ \A n : ListShard(c, n) =>
              /\ IsListing(task[c], Len(log)) /\ n \in task[c].todo
              /\ task' = [task EXCEPT ![c] =
                   Listing(task[c].of, task[c].group, task[c].todo \ {n},
                           task[c].found \cup ({n} \cap Listed(tables, task[c].of, task[c].group)),
                           task[c].since)]
         /\ ListEnd(c) =>
              /\ task[c].pc = "listing"
              /\ \E answer : task' = [task EXCEPT ![c] = Answered(answer)]
<1>1. ASSUME ListBegin(c)
      PROVE  /\ task[c].pc = "asked"
             /\ \E t \in Tables : \E group :
                  task' = [task EXCEPT ![c] = Listing(t, group, Names, {}, Len(log))]
  <2>1. ListOf[Action(c)] \in Tables
    BY <1>1 DEF ListBegin, Doing, Action, ListOf, Tables
  <2> QED
    BY <1>1, <2>1, Zenon DEF ListBegin, Doing, Listing
<1>2. ASSUME NEW n, ListShard(c, n)
      PROVE  /\ IsListing(task[c], Len(log)) /\ n \in task[c].todo
             /\ task' = [task EXCEPT ![c] =
                  Listing(task[c].of, task[c].group, task[c].todo \ {n},
                          task[c].found \cup ({n} \cap Listed(tables, task[c].of, task[c].group)),
                          task[c].since)]
  <2> DEFINE more == {n} \cap Listed(tables, task[c].of, task[c].group)
  <2>1. task[c].pc = "listing" /\ n \in task[c].todo
    BY <1>2 DEF ListShard
  <2>2. IsListing(task[c], Len(log))
    BY <2>1 DEF TaskKinds
  <2>3. PICK t, group, todo, found, since : task[c] = Listing(t, group, todo, found, since)
    BY <2>2 DEF IsListing
  <2>4. task' = [task EXCEPT ![c].todo = @ \ {n}, ![c].found = @ \cup more]
    BY <1>2 DEF ListShard
  <2> HIDE DEF more
  <2>5. /\ task[c].of = t /\ task[c].group = group /\ task[c].todo = todo
        /\ task[c].found = found /\ task[c].since = since
    BY <2>3 DEF Listing
  <2> DEFINE todo2 == todo \ {n}
             found2 == found \cup more
  <2>6. task' = [task EXCEPT ![c] = [[task[c] EXCEPT !.todo = todo2] EXCEPT !.found = found2]]
    BY <2>3, <2>4, <2>5 DEF Listing
  <2> HIDE DEF todo2, found2
  <2>7. task' = [task EXCEPT ![c] = Listing(t, group, todo2, found2, since)]
    <3>1. [task[c] EXCEPT !.todo = todo2] = Listing(t, group, todo2, found, since)
      BY <2>3 DEF Listing
    <3>2. [Listing(t, group, todo2, found, since) EXCEPT !.found = found2]
            = Listing(t, group, todo2, found2, since)
      BY DEF Listing
    <3> QED
      BY <2>6, <3>1, <3>2, Zenon
  <2> QED
    BY <2>1, <2>2, <2>5, <2>7 DEF more, todo2, found2
<1>3. ASSUME ListEnd(c)
      PROVE  /\ task[c].pc = "listing"
             /\ \E answer : task' = [task EXCEPT ![c] = Answered(answer)]
  BY <1>3, Zenon DEF ListEnd, Answer
<1> QED
  BY <1>1, <1>2, <1>3
-----------------------------------------------------------------------------
\* The tables: what is put into one, taken from one, or left.
LEMMA LogGrows ==
  ASSUME StoreKinds, log' = log \/ log' = Append(log, tables')
  PROVE  /\ \E S : log' \in Seq(S)
         /\ Len(log) \in Nat /\ Len(log') \in {Len(log), Len(log) + 1}
         /\ \A i \in 1..Len(log) : log'[i] = log[i]
         /\ log' # log => Len(log') = Len(log) + 1 /\ log'[Len(log) + 1] = tables'
<1> PICK S : log \in Seq(S)
  BY DEF StoreKinds
<1>1. CASE log' = log
  BY <1>1
<1>2. CASE log' = Append(log, tables')
  <2> DEFINE x == tables'
  <2>1. log' = Append(log, x)
    BY <1>2
  <2> HIDE DEF x
  <2>2. /\ log' \in Seq(S \cup {x})
        /\ Len(log') = Len(log) + 1 /\ Len(log) \in Nat
        /\ \A i \in 1..Len(log) : log'[i] = log[i]
        /\ log'[Len(log) + 1] = x
    BY <2>1, AppendAny
  <2> QED
    BY <2>2 DEF x
<1> QED
  BY <1>1, <1>2

LEMMA LogFollows ==
  ASSUME StoreKinds, log' = Append(log, tables')
  PROVE  (\E S : log' \in Seq(S)) /\ Len(log') > 0 /\ log'[Len(log')] = tables'
<1> PICK S : log \in Seq(S)
  BY DEF StoreKinds
<1> DEFINE x == tables'
<1>1. log' = Append(log, x)
  OBVIOUS
<1> HIDE DEF x
<1>2. /\ log' \in Seq(S \cup {x})
      /\ Len(log') = Len(log) + 1 /\ Len(log) \in Nat /\ log'[Len(log) + 1] = x
  BY <1>1, AppendAny
<1> QED
  BY <1>2 DEF x

LEMMA PutKeeps ==
  ASSUME StoreKinds, NEW t \in Tables, NEW name \in Names, NEW entry, PutEntry(t, name, entry),
         made \in Nat,
         \/ made' = made /\ t # "profile"
         \/ made' = made + 1 /\ t = "profile" /\ entry.key = made
  PROVE  StoreKinds'
<1> DEFINE table == [n \in DOMAIN tables[t] \cup {name} |-> IF n = name THEN entry ELSE tables[t][n]]
<1>1. tables' = [tables EXCEPT ![t] = table]
  BY DEF PutEntry
<1>2. DOMAIN table = DOMAIN tables[t] \cup {name} /\ table[name] = entry
      /\ \A n \in DOMAIN tables[t] : n # name => table[n] = tables[t][n]
  OBVIOUS
<1> HIDE DEF table
<1>3. DOMAIN tables' = Tables /\ tables'[t] = table /\ \A u \in Tables \ {t} : tables'[u] = tables[u]
  BY <1>1 DEF StoreKinds
<1>4. \A u \in Tables : DOMAIN tables'[u] \subseteq Names
  BY <1>2, <1>3 DEF StoreKinds
<1>5. \A n \in DOMAIN tables'["profile"] :
        tables'["profile"][n].key \in Nat /\ tables'["profile"][n].key < made'
  <2>1. "profile" \in Tables
    BY DEF Tables
  <2>2. CASE t = "profile"
    BY <1>2, <1>3, <2>2 DEF StoreKinds
  <2>3. CASE t # "profile"
    BY <1>3, <2>1, <2>3 DEF StoreKinds
  <2> QED
    BY <2>2, <2>3
<1> QED
  BY <1>3, <1>4, <1>5, LogFollows DEF StoreKinds, PutEntry

LEMMA DropKeeps ==
  ASSUME StoreKinds, NEW t \in Tables, NEW name, DropEntry(t, name), made' = made
  PROVE  StoreKinds'
<1> DEFINE table == Restrict(tables[t], DOMAIN tables[t] \ {name})
<1>1. tables' = [tables EXCEPT ![t] = table]
  BY DEF DropEntry
<1>2. DOMAIN table \subseteq DOMAIN tables[t] /\ \A n \in DOMAIN table : table[n] = tables[t][n]
  BY DEF Restrict
<1> HIDE DEF table
<1>3. DOMAIN tables' = Tables /\ tables'[t] = table /\ \A u \in Tables \ {t} : tables'[u] = tables[u]
  BY <1>1 DEF StoreKinds
<1>4. \A u \in Tables : DOMAIN tables'[u] \subseteq Names
  BY <1>2, <1>3 DEF StoreKinds
<1>5. \A n \in DOMAIN tables'["profile"] :
        tables'["profile"][n].key \in Nat /\ tables'["profile"][n].key < made'
  <2>1. "profile" \in Tables
    BY DEF Tables
  <2>2. CASE t = "profile"
    BY <1>2, <1>3, <2>2 DEF StoreKinds
  <2>3. CASE t # "profile"
    BY <1>3, <2>1, <2>3 DEF StoreKinds
  <2> QED
    BY <2>2, <2>3
<1> QED
  BY <1>3, <1>4, <1>5, LogFollows DEF StoreKinds, DropEntry

LEMMA LeftAlone ==
  ASSUME StoreKinds, UNCHANGED store, made \in Nat, made' \in Nat, made' >= made
  PROVE  StoreKinds'
BY DEF StoreKinds, store

\* What the calls put.
LEMMA PutsEntry ==
  ASSUME TaskKinds, NEW c \in Clients, Puts(c)
  PROVE  \/ UNCHANGED <<store, made>>
         \/ \E t \in Tables, name \in Names : \E entry :
              /\ PutEntry(t, name, entry)
              /\ \/ made' = made /\ t # "profile"
                 \/ made' = made + 1 /\ t = "profile" /\ entry.key = made
<1>1. Arg(c, 1) \in Names
  BY NamedArgument DEF Puts, AddContact, AddChannel, AddProfile, AddPeer
<1>2. CASE AddContact(c)
  <2>1. "contact" \in Tables /\ "contact" # "profile"
    BY DEF Tables
  <2> QED
    BY <1>1, <1>2, <2>1, Zenon DEF AddContact, node
<1>3. CASE AddChannel(c)
  <2>1. "channel" \in Tables /\ "channel" # "profile"
    BY DEF Tables
  <2> QED
    BY <1>1, <1>3, <2>1, Zenon DEF AddChannel, node
<1>4. CASE AddProfile(c)
  <2> DEFINE entry == [enabled |-> Arg(c, 2).bool, key |-> made]
  <2>1. "profile" \in Tables
    BY DEF Tables
  <2>2. entry.key = made
    OBVIOUS
  <2>3. PutEntry("profile", Arg(c, 1), entry) /\ made' = made + 1
    BY <1>4 DEF AddProfile
  <2> HIDE DEF entry
  <2> QED
    BY <1>1, <2>1, <2>2, <2>3, Zenon
<1>5. CASE AddPeer(c)
  <2>1. "peer" \in Tables /\ "peer" # "profile"
    BY DEF Tables
  <2> QED
    BY <1>1, <1>5, <2>1, Zenon DEF AddPeer, node
<1> QED
  BY <1>2, <1>3, <1>4, <1>5 DEF Puts

LEMMA DeletesEntry ==
  ASSUME NEW c, Delete(c)
  PROVE  made' = made /\ (UNCHANGED store \/ \E t \in Tables : \E name : DropEntry(t, name))
<1>1. DeleteOf[Action(c)] \in Tables
  BY DEF Delete, Doing, Action, DeleteOf, Tables
<1> QED
  BY <1>1, Zenon DEF Delete, node
-----------------------------------------------------------------------------
\* The tasks and the wire: a step is one of one client, or none.
Others(c) ==
  /\ DOMAIN task' = DOMAIN task /\ DOMAIN wire' = DOMAIN wire
  /\ DOMAIN call' = DOMAIN call /\ DOMAIN bytes' = DOMAIN bytes
  /\ \A d \in Clients \ {c} :
       task'[d] = task[d] /\ wire'[d] = wire[d] /\ call'[d] = call[d] /\ bytes'[d] = bytes[d]

Grows == Len(log) \in Nat /\ Len(log') \in Nat /\ Len(log) <= Len(log')

LEMMA ListingStays ==
  ASSUME NEW r, Grows, IsListing(r, Len(log))
  PROVE  IsListing(r, Len(log'))
<1> PICK t \in Tables, todo \in SUBSET Names, found \in SUBSET Names, since \in 1..Len(log) :
           \E group : r = Listing(t, group, todo, found, since)
  BY DEF IsListing
<1>1. since \in 1..Len(log')
  BY DEF Grows
<1> QED
  BY <1>1, Zenon DEF IsListing

LEMMA TasksKept ==
  ASSUME TaskKinds, Grows, NEW c, Others(c),
         c \in Clients =>
           /\ task'[c].pc = "asked" => Named(task'[c].call)
           /\ task'[c].pc = "listing" => IsListing(task'[c], Len(log'))
           /\ wire'[c] = "request" =>
                /\ call'[c] \in Sent /\ bytes'[c] = RemoteCallToBytes(call'[c])
                /\ task'[c].pc \in {"idle", "answered"}
  PROVE  TaskKinds'
<1>1. ASSUME NEW d \in Clients
      PROVE  /\ task'[d].pc = "asked" => Named(task'[d].call)
             /\ task'[d].pc = "listing" => IsListing(task'[d], Len(log'))
             /\ wire'[d] = "request" =>
                  /\ call'[d] \in Sent /\ bytes'[d] = RemoteCallToBytes(call'[d])
                  /\ task'[d].pc \in {"idle", "answered"}
  <2>1. CASE d = c
    BY <2>1
  <2>2. CASE d # c
    <3>1. task'[d] = task[d] /\ wire'[d] = wire[d] /\ call'[d] = call[d] /\ bytes'[d] = bytes[d]
      BY <2>2 DEF Others
    <3>2. task[d].pc = "listing" => IsListing(task'[d], Len(log'))
      BY <3>1, ListingStays DEF TaskKinds
    <3> QED
      BY <3>1, <3>2 DEF TaskKinds
  <2> QED
    BY <2>1, <2>2
<1> QED
  BY <1>1 DEF TaskKinds, Others

\* A task that goes on, with nothing on the wire that changes.
LEMMA TaskGoesOn ==
  ASSUME TaskKinds, Grows, NEW c \in Clients, NEW r, task' = [task EXCEPT ![c] = r], UNCHANGED rpcvars,
         r.pc = "answered" \/ (r.pc = "listing" /\ IsListing(r, Len(log'))), wire[c] # "request"
  PROVE  TaskKinds' /\ Others(c) /\ task'[c] = r
<1>1. Others(c) /\ task'[c] = r
  BY DEF TaskKinds, Others, rpcvars
<1>2. wire'[c] # "request"
  BY DEF rpcvars
<1>3. r.pc # "asked"
  OBVIOUS
<1> QED
  BY <1>1, <1>2, <1>3, TasksKept
-----------------------------------------------------------------------------
\* The counters.
LEMMA HeldType == (Counters => Held \in Nat) /\ (Counters' => Held' \in Nat)
BY DEF Held, Counters

LEMMA OneFewer ==
  ASSUME Counted, TaskKinds, NEW c \in Pending, Others(c), ~ (c \in Pending)',
         Counters', asked' = asked, Held' <= Held + 1
  PROVE  Counted'
<1>1. Pending' = Pending \ {c}
  BY DEF Pending, Others
<1>2. /\ IsFiniteSet(Pending') /\ Cardinality(Pending') = Cardinality(Pending) - 1
      /\ Cardinality(Pending) \in Nat
  BY <1>1, FS_RemoveElement, FS_CardinalityType DEF Counted
<1>3. Held \in Nat /\ Held' \in Nat
  BY HeldType DEF Counted
<1>4. asked \in Nat /\ Held + Cardinality(Pending) <= asked
  BY NodeApiAssumption DEF Counted
<1>5. Held' + Cardinality(Pending') <= asked
  BY <1>2, <1>3, <1>4
<1> QED
  BY <1>2, <1>5 DEF Counted

LEMMA OneMore ==
  ASSUME Counted, TaskKinds, NEW c \in Clients, c \notin Pending, Others(c), (c \in Pending)',
         Counters', Held' = Held, asked' = asked + 1, asked < MaxCalls
  PROVE  Counted'
<1>1. Pending' = Pending \cup {c}
  BY DEF Pending, Others
<1>2. /\ IsFiniteSet(Pending') /\ Cardinality(Pending') = Cardinality(Pending) + 1
      /\ Cardinality(Pending) \in Nat
  BY <1>1, FS_AddElement, FS_CardinalityType DEF Counted
<1>3. Held \in Nat
  BY HeldType DEF Counted
<1> QED
  BY <1>2, <1>3, NodeApiAssumption DEF Counted

LEMMA AsMany ==
  ASSUME Counted, TaskKinds, NEW c, Others(c), (c \in Pending)' <=> c \in Pending,
         Counters', Held' = Held, asked' = asked
  PROVE  Counted'
<1>1. Pending' = Pending
  BY DEF Pending, Others
<1> QED
  BY <1>1 DEF Counted

LEMMA RepliedTask ==
  ASSUME TaskKinds, Grows, NEW c \in Clients, Replies(c), UNCHANGED rpcvars
  PROVE  TaskKinds' /\ Others(c) /\ c \in Pending /\ ~ (c \in Pending)'
<1> PICK answer : task' = [task EXCEPT ![c] = Answered(answer)]
  BY DEF Replies
<1>1. task[c].pc = "asked" /\ wire[c] # "request"
  BY DEF Replies, TaskKinds
<1> DEFINE r == Answered(answer)
<1>2. task' = [task EXCEPT ![c] = r] /\ r.pc = "answered"
  BY DEF Answered
<1> HIDE DEF r
<1>3. TaskKinds' /\ Others(c) /\ task'[c] = r
  BY <1>1, <1>2, TaskGoesOn
<1> QED
  BY <1>1, <1>2, <1>3 DEF Pending, rpcvars

\* A call that is answered has put at most one thing into the node.
LEMMA Replied ==
  ASSUME Counted, TaskKinds, Grows, NEW c \in Clients, Replies(c), UNCHANGED rpcvars,
         Counters', asked' = asked, Held' <= Held + 1
  PROVE  Counted' /\ TaskKinds'
BY RepliedTask, OneFewer

LEMMA SameLog ==
  ASSUME StoreKinds, log' = log \/ log' = Append(log, tables')
  PROVE  Grows
BY LogGrows DEF Grows
-----------------------------------------------------------------------------
\* The keys.
LEMMA KeysMade ==
  ASSUME NodeKinds, ProfileKeys \in Nat, MakeKeys
  PROVE  /\ keys' \in [{"routing", "content"} -> (0..(made' - 1)) \cup {None}]
         /\ keys'.routing = None <=> keys'.content = None
         /\ made' \in Nat /\ made' >= made /\ ProfileKeys' = ProfileKeys
<1>1. CASE keys.routing = None
  <2>1. keys.content = None
    BY <1>1 DEF NodeKinds
  <2>2. keys' = [routing |-> made, content |-> made + 1] /\ made' = made + 2
    BY <1>1, <2>1 DEF MakeKeys
  <2>3. made \in Nat /\ made # None /\ made + 1 # None
    BY NodeApiAssumption DEF NodeKinds
  <2>4. keys'.routing = made /\ keys'.content = made + 1 /\ made' - 1 = made + 1
    BY <2>2, <2>3
  <2> QED
    BY <1>1, <2>2, <2>3, <2>4 DEF ProfileKeys
<1>2. CASE keys.routing # None
  <2>1. keys.content # None
    BY <1>2 DEF NodeKinds
  <2>2. keys' = [routing |-> keys.routing, content |-> keys.content] /\ made' = made
    BY <1>2, <2>1 DEF MakeKeys
  <2>3. keys' = keys
    BY <2>2 DEF NodeKinds
  <2> QED
    BY <2>2, <2>3 DEF NodeKinds, ProfileKeys
<1> QED
  BY <1>1, <1>2

LEMMA OneKeyMore ==
  ASSUME NodeKinds, Counters, made' = made \/ made' = made + 1,
         UNCHANGED <<kind, running, based, keys, outbox, inbox>>
  PROVE  NodeKinds' /\ Counters' /\ Held' <= Held + 1
<1>1. made \in Nat /\ made' \in Nat /\ \A i \in 0..(made - 1) : i \in 0..(made' - 1)
  BY DEF NodeKinds
<1>2. NodeKinds'
  BY <1>1 DEF NodeKinds
<1>3. ProfileKeys \in Nat /\ (ProfileKeys' = ProfileKeys \/ ProfileKeys' = ProfileKeys + 1)
  <2>1. CASE made' = made
    BY <2>1 DEF ProfileKeys, Counters
  <2>2. CASE made' = made + 1
    <3>1. ProfileKeys \in Nat
      BY DEF Counters
    <3>2. CASE keys.routing = None
      BY <2>2, <3>1, <3>2 DEF ProfileKeys
    <3>3. CASE keys.routing # None
      <4>1. ProfileKeys = made - 2 /\ ProfileKeys' = made' - 2
        BY <3>3 DEF ProfileKeys
      <4>2. made' - 2 = made - 2 + 1
        BY <1>1, <2>2
      <4> QED
        BY <3>1, <4>1, <4>2
    <3> QED
      BY <3>2, <3>3
  <2> QED
    BY <2>1, <2>2
<1> DEFINE before == ProfileKeys
           after == ProfileKeys'
           rest == outbox + inbox
<1>4. before \in Nat /\ (after = before \/ after = before + 1) /\ rest \in Nat
  BY <1>3 DEF Counters
<1> HIDE DEF before, after, rest
<1>5. after \in Nat /\ rest + after <= rest + before + 1
  BY <1>4
<1>6. Held = rest + before /\ Held' = rest + after
  BY DEF Held, before, after, rest
<1> QED
  BY <1>2, <1>5, <1>6 DEF Counters, after

LEMMA SameNode ==
  ASSUME NodeKinds, UNCHANGED node
  PROVE  NodeKinds' /\ ProfileKeys' = ProfileKeys /\ made' = made /\ made \in Nat
BY DEF NodeKinds, node, ProfileKeys
-----------------------------------------------------------------------------
\* Every step keeps the invariant.  What a node does for a client: ...
LEMMA ReplyingStep ==
  ASSUME Invariant, NEW c \in Clients, RepliesOnly(c), UNCHANGED rpcvars
  PROVE  Invariant'
<1>1. Replies(c) /\ UNCHANGED <<node, data, asked>>
  BY OnlyReplying
<1>2. NodeKinds' /\ ProfileKeys' = ProfileKeys /\ made' = made /\ made \in Nat
  BY <1>1, SameNode DEF Invariant
<1>3. StoreKinds' /\ Grows
  <2>1. UNCHANGED store /\ log' = log
    BY <1>1 DEF data, store
  <2> QED
    BY <1>2, <2>1, LeftAlone, SameLog DEF Invariant
<1>4. Counters' /\ Held' = Held
  BY <1>1, <1>2 DEF Invariant, Counted, Counters, Held, data
<1>5. Held' <= Held + 1
  BY <1>4, HeldType
<1> QED
  BY <1>1, <1>2, <1>3, <1>4, <1>5, Replied DEF Invariant

LEMMA StoringStep ==
  ASSUME Invariant, NEW c \in Clients, Puts(c) \/ Delete(c), UNCHANGED rpcvars
  PROVE  Invariant'
<1>1. Replies(c) /\ UNCHANGED <<kind, running, based, keys, outbox, inbox, asked>>
  BY StoringReplies
<1>2. StoreKinds' /\ Grows /\ made' \in {made, made + 1}
  <2>1. CASE UNCHANGED <<store, made>>
    <3>1. made' = made /\ log' = log /\ UNCHANGED store
      BY <2>1 DEF store
    <3> QED
      BY <3>1, LeftAlone, SameLog DEF Invariant, NodeKinds
  <2>2. ASSUME NEW t \in Tables, NEW name \in Names, NEW entry, PutEntry(t, name, entry),
               \/ made' = made /\ t # "profile"
               \/ made' = made + 1 /\ t = "profile" /\ entry.key = made
        PROVE  StoreKinds' /\ Grows /\ made' \in {made, made + 1}
    <3>1. StoreKinds'
      BY <2>2, PutKeeps DEF Invariant, NodeKinds
    <3>2. Grows
      BY <2>2, SameLog DEF PutEntry, Invariant
    <3> QED
      BY <2>2, <3>1, <3>2
  <2>3. ASSUME NEW t \in Tables, NEW name, DropEntry(t, name), made' = made
        PROVE  StoreKinds' /\ Grows /\ made' \in {made, made + 1}
    <3>1. StoreKinds'
      BY <2>3, DropKeeps DEF Invariant
    <3>2. Grows
      BY <2>3, SameLog DEF DropEntry, Invariant
    <3> QED
      BY <2>3, <3>1, <3>2
  <2>4. CASE Puts(c)
    <3>1. \/ UNCHANGED <<store, made>>
          \/ \E t \in Tables, name \in Names : \E entry :
               /\ PutEntry(t, name, entry)
               /\ \/ made' = made /\ t # "profile"
                  \/ made' = made + 1 /\ t = "profile" /\ entry.key = made
      BY <2>4, PutsEntry DEF Invariant
    <3> QED
      BY <2>1, <2>2, <3>1
  <2>5. CASE Delete(c)
    <3>1. made' = made /\ (UNCHANGED store \/ \E t \in Tables : \E name : DropEntry(t, name))
      BY <2>5, DeletesEntry
    <3> QED
      BY <2>1, <2>3, <3>1
  <2> QED
    BY <2>4, <2>5
<1>3. made' = made \/ made' = made + 1
  BY <1>2
<1>4. NodeKinds' /\ Counters' /\ Held' <= Held + 1
  BY <1>1, <1>3, OneKeyMore DEF Invariant, Counted
<1> QED
  BY <1>1, <1>2, <1>3, <1>4, Replied DEF Invariant

LEMMA CountingStep ==
  ASSUME Invariant, NEW c \in Clients, Send(c) \/ FlushOutbox(c) \/ Dropoff(c), UNCHANGED rpcvars
  PROVE  Invariant'
<1>1. Replies(c) /\ UNCHANGED <<node, store, asked>>
  BY CountingReplies
<1>2. NodeKinds' /\ ProfileKeys' = ProfileKeys /\ made' = made /\ made \in Nat
  BY <1>1, SameNode DEF Invariant
<1>3. StoreKinds' /\ Grows
  <2>1. UNCHANGED store /\ log' = log
    BY <1>1 DEF store
  <2> QED
    BY <1>2, <2>1, LeftAlone, SameLog DEF Invariant
<1>4. Counters' /\ Held' <= Held + 1
  <2>1. outbox \in Nat /\ inbox \in Nat /\ ProfileKeys \in Nat
    BY DEF Invariant, Counted, Counters
  <2>2. \/ outbox' \in 0..outbox /\ inbox' = inbox
        \/ outbox' = outbox + 1 /\ inbox' = inbox
        \/ outbox' = outbox /\ inbox' = inbox + 1
    BY <2>1 DEF Send, FlushOutbox, Dropoff
  <2>3. Counters'
    BY <1>2, <2>1, <2>2 DEF Counters
  <2>4. outbox' + inbox' + ProfileKeys <= outbox + inbox + ProfileKeys + 1
    BY <2>1, <2>2
  <2> QED
    BY <1>2, <2>3, <2>4 DEF Held
<1> QED
  BY <1>1, <1>2, <1>3, <1>4, Replied DEF Invariant

LEMMA StartingStep ==
  ASSUME Invariant, NEW c \in Clients, StartByRpc(c) \/ StopByRpc(c), UNCHANGED rpcvars
  PROVE  Invariant'
<1>1. Replies(c) /\ UNCHANGED <<kind, based, data, asked>>
  BY StartingReplies
<1>2. /\ NodeKinds' /\ ProfileKeys' = ProfileKeys
      /\ made \in Nat /\ made' \in Nat /\ made' >= made
  <2>1. CASE StartByRpc(c)
    BY <1>1, <2>1, KeysMade DEF StartByRpc, Invariant, Counted, Counters, NodeKinds
  <2>2. CASE StopByRpc(c)
    <3>1. running' = FALSE /\ keys' = keys /\ made' = made /\ kind' = kind /\ based' = based
      BY <1>1, <2>2 DEF StopByRpc
    <3>2. NodeKinds' /\ made \in Nat
      BY <3>1 DEF Invariant, NodeKinds
    <3> QED
      BY <3>1, <3>2 DEF ProfileKeys
  <2> QED
    BY <2>1, <2>2
<1>3. StoreKinds' /\ Grows
  <2>1. UNCHANGED store /\ log' = log
    BY <1>1 DEF data, store
  <2> QED
    BY <1>2, <2>1, LeftAlone, SameLog DEF Invariant
<1>4. Counters' /\ Held' = Held
  BY <1>1, <1>2 DEF Invariant, Counted, Counters, Held, data
<1>5. Held' <= Held + 1
  BY <1>4, HeldType
<1> QED
  BY <1>1, <1>2, <1>3, <1>4, <1>5, Replied DEF Invariant

LEMMA ListingStep ==
  ASSUME Invariant, NEW c \in Clients, UNCHANGED rpcvars,
         ListBegin(c) \/ (\E n \in Names : ListShard(c, n)) \/ ListEnd(c)
  PROVE  Invariant'
<1>1. UNCHANGED <<node, data, asked>>
  BY DEF ListBegin, ListShard, ListEnd
<1>2. NodeKinds' /\ ProfileKeys' = ProfileKeys /\ made' = made /\ made \in Nat
  BY <1>1, SameNode DEF Invariant
<1>3. StoreKinds' /\ Grows /\ log' = log
  <2>1. UNCHANGED store /\ log' = log
    BY <1>1 DEF data, store
  <2> QED
    BY <1>2, <2>1, LeftAlone, SameLog DEF Invariant
<1>4. Counters' /\ Held' = Held
  BY <1>1, <1>2 DEF Invariant, Counted, Counters, Held, data
<1>5. PICK r : /\ task' = [task EXCEPT ![c] = r]
               /\ r.pc = "answered" \/ (r.pc = "listing" /\ IsListing(r, Len(log')))
  <2>1. CASE ListBegin(c)
    <3>1. PICK t \in Tables : \E group : task' = [task EXCEPT ![c] = Listing(t, group, Names, {}, Len(log))]
      BY <2>1, Listings DEF Invariant
    <3>2. PICK group : task' = [task EXCEPT ![c] = Listing(t, group, Names, {}, Len(log))]
      BY <3>1
    <3>3. Len(log) \in 1..Len(log')
      BY <1>3 DEF Grows, Invariant, StoreKinds
    <3>4. IsListing(Listing(t, group, Names, {}, Len(log)), Len(log'))
      BY <3>3, Zenon DEF IsListing
    <3>5. Listing(t, group, Names, {}, Len(log)).pc = "listing"
      BY DEF Listing
    <3> QED
      BY <3>2, <3>4, <3>5, Zenon
  <2>2. ASSUME NEW n \in Names, ListShard(c, n)
        PROVE  \E r : /\ task' = [task EXCEPT ![c] = r]
                      /\ r.pc = "answered" \/ (r.pc = "listing" /\ IsListing(r, Len(log')))
    <3> DEFINE more == {n} \cap Listed(tables, task[c].of, task[c].group)
               next(r) == Listing(r.of, r.group, r.todo \ {n}, r.found \cup more, r.since)
    <3>1. IsListing(task[c], Len(log)) /\ task' = [task EXCEPT ![c] = next(task[c])]
      BY <2>2, Listings DEF Invariant
    <3>2. more \subseteq Names
      OBVIOUS
    <3> HIDE DEF more
    <3>3. PICK t \in Tables, todo \in SUBSET Names, found \in SUBSET Names, since \in 1..Len(log) :
            \E group : task[c] = Listing(t, group, todo, found, since)
      BY <3>1 DEF IsListing
    <3>4. PICK group : task[c] = Listing(t, group, todo, found, since)
      BY <3>3
    <3>5. next(task[c]) = Listing(t, group, todo \ {n}, found \cup more, since)
      BY <3>4 DEF Listing
    <3>6. todo \ {n} \in SUBSET Names /\ found \cup more \in SUBSET Names /\ since \in 1..Len(log')
      BY <1>3, <3>2
    <3>7. IsListing(next(task[c]), Len(log'))
      BY <3>5, <3>6, Zenon DEF IsListing
    <3>8. next(task[c]).pc = "listing"
      BY DEF Listing
    <3> QED
      BY <3>1, <3>7, <3>8, Zenon
  <2>3. CASE ListEnd(c)
    <3>1. PICK answer : task' = [task EXCEPT ![c] = Answered(answer)]
      BY <2>3, Listings DEF Invariant
    <3>2. Answered(answer).pc = "answered"
      BY DEF Answered
    <3> QED
      BY <3>1, <3>2, Zenon
  <2> QED
    BY <2>1, <2>2, <2>3
<1>6. task[c].pc \in {"asked", "listing"} /\ wire[c] # "request"
  BY Listings DEF Invariant, TaskKinds, IsListing, Listing, ListShard
<1>7. TaskKinds' /\ Others(c) /\ task'[c] = r
  BY <1>3, <1>5, <1>6, TaskGoesOn DEF Invariant
<1>8. ~ (c \in Pending)'
  BY <1>5, <1>6, <1>7 DEF Pending, rpcvars
<1>9. Counted'
  <2>1. CASE c \in Pending
    <3>1. Held' <= Held + 1
      BY <1>4, HeldType
    <3> QED
      BY <1>1, <1>4, <1>7, <1>8, <2>1, <3>1, OneFewer DEF Invariant
  <2>2. CASE c \notin Pending
    BY <1>1, <1>4, <1>7, <1>8, <2>2, AsMany DEF Invariant
  <2> QED
    BY <2>1, <2>2
<1> QED
  BY <1>2, <1>3, <1>7, <1>9 DEF Invariant

\* ... what it is called over the wire, ...
LEMMA RequestStep ==
  ASSUME Invariant, NEW c \in Clients, NEW sent \in Sent, Request(c, sent)
  PROVE  Invariant'
<1>1. UNCHANGED <<node, data, task>> /\ asked' = asked + 1
  BY DEF Request
<1>2. NodeKinds' /\ ProfileKeys' = ProfileKeys /\ made' = made /\ made \in Nat
  BY <1>1, SameNode DEF Invariant
<1>3. StoreKinds' /\ Grows
  <2>1. UNCHANGED store /\ log' = log
    BY <1>1 DEF data, store
  <2> QED
    BY <1>2, <2>1, LeftAlone, SameLog DEF Invariant
<1>4. Counters' /\ Held' = Held
  BY <1>1, <1>2 DEF Invariant, Counted, Counters, Held, data
<1>5. /\ Others(c) /\ call'[c] = sent /\ wire'[c] = "request" /\ task'[c] = task[c]
      /\ bytes'[c] = RemoteCallToBytes(sent)
  BY DEF Request, Put, Others, Invariant, TaskKinds
<1>6. /\ task[c].pc \in {"idle", "answered"} /\ asked < MaxCalls
      /\ wire[c] \in {"no", "response"}
  BY DEF Request, Free
<1>7. TaskKinds'
  BY <1>3, <1>5, <1>6, TasksKept DEF Invariant
<1>8. c \notin Pending /\ (c \in Pending)'
  BY <1>5, <1>6 DEF Pending
<1> QED
  BY <1>1, <1>2, <1>3, <1>4, <1>5, <1>6, <1>7, <1>8, OneMore DEF Invariant

LEMMA AskStep ==
  ASSUME Invariant, NEW c \in Clients, NEW direct \in Calls, AskDirectly(c, direct)
  PROVE  Invariant'
<1>1. UNCHANGED <<node, data>> /\ asked' = asked + 1
  BY DEF AskDirectly, Ask
<1>2. NodeKinds' /\ ProfileKeys' = ProfileKeys /\ made' = made /\ made \in Nat
  BY <1>1, SameNode DEF Invariant
<1>3. StoreKinds' /\ Grows
  <2>1. UNCHANGED store /\ log' = log
    BY <1>1 DEF data, store
  <2> QED
    BY <1>2, <2>1, LeftAlone, SameLog DEF Invariant
<1>4. Counters' /\ Held' = Held
  BY <1>1, <1>2 DEF Invariant, Counted, Counters, Held, data
<1>5. Others(c) /\ wire'[c] = "no" /\ task'[c] = Asked(direct)
  BY DEF AskDirectly, Ask, Others, Invariant, TaskKinds
<1>6. /\ task[c].pc \in {"idle", "answered"} /\ asked < MaxCalls
      /\ wire[c] \in {"no", "response"}
  BY DEF AskDirectly, Ask, Free
<1>7. task'[c].pc = "asked" /\ Named(task'[c].call)
  BY <1>5, NodeApiAssumption DEF Asked
<1>8. TaskKinds'
  BY <1>3, <1>5, <1>7, TasksKept DEF Invariant
<1>9. c \notin Pending /\ (c \in Pending)'
  BY <1>6, <1>7 DEF Pending
<1> QED
  BY <1>1, <1>2, <1>3, <1>4, <1>5, <1>6, <1>8, <1>9, OneMore DEF Invariant

LEMMA ServeStep ==
  ASSUME Invariant, NEW c \in Clients, Serve(c)
  PROVE  Invariant'
<1> DEFINE read == RemoteCallFromBytes(bytes[c])
<1>1. UNCHANGED <<node, data, asked, call>> /\ wire[c] = "request"
  BY DEF Serve
<1>2. NodeKinds' /\ ProfileKeys' = ProfileKeys /\ made' = made /\ made \in Nat
  BY <1>1, SameNode DEF Invariant
<1>3. StoreKinds' /\ Grows
  <2>1. UNCHANGED store /\ log' = log
    BY <1>1 DEF data, store
  <2> QED
    BY <1>2, <2>1, LeftAlone, SameLog DEF Invariant
<1>4. Counters' /\ Held' = Held
  BY <1>1, <1>2 DEF Invariant, Counted, Counters, Held, data
<1>5. /\ call[c] \in Sent /\ bytes[c] = RemoteCallToBytes(call[c])
      /\ task[c].pc \in {"idle", "answered"} /\ c \in Pending
  BY <1>1 DEF Invariant, TaskKinds, Pending
<1>6. CASE task' = task /\ \E state \in {"no", "response"} : \E b : Put(c, state, b)
  <2>1. Others(c) /\ wire'[c] \in {"no", "response"} /\ task'[c] = task[c]
    BY <1>1, <1>6 DEF Put, Others, Invariant, TaskKinds
  <2>2. TaskKinds'
    BY <1>3, <1>5, <2>1, TasksKept DEF Invariant
  <2>3. ~ (c \in Pending)'
    BY <1>5, <2>1 DEF Pending
  <2>4. Held' <= Held + 1
    BY <1>4, HeldType
  <2> QED
    BY <1>1, <1>2, <1>3, <1>4, <1>5, <2>1, <2>2, <2>3, <2>4, OneFewer DEF Invariant
<1>7. CASE /\ read.ok /\ Put(c, "served", << >>)
           /\ task' = [task EXCEPT ![c] = Asked(CallRead(call[c], read.value))]
  <2> DEFINE given == CallRead(call[c], read.value)
  <2>1. Named(given)
    BY <1>5, <1>7, NodeRpcAssumption
  <2> HIDE DEF given
  <2>2. Others(c) /\ wire'[c] = "served" /\ task'[c] = Asked(given)
    BY <1>1, <1>7 DEF Put, Others, Invariant, TaskKinds, given
  <2>3. task'[c].pc = "asked" /\ Named(task'[c].call)
    BY <2>1, <2>2 DEF Asked
  <2>4. TaskKinds'
    BY <1>3, <2>2, <2>3, TasksKept DEF Invariant
  <2>5. (c \in Pending)' <=> c \in Pending
    BY <1>5, <2>3 DEF Pending
  <2> QED
    BY <1>1, <1>2, <1>3, <1>4, <2>2, <2>4, <2>5, AsMany DEF Invariant
<1> QED
  BY <1>6, <1>7, Zenon DEF Serve

LEMMA RespondStep ==
  ASSUME Invariant, NEW c \in Clients, Respond(c)
  PROVE  Invariant'
<1>1. UNCHANGED <<vars, call>> /\ wire[c] = "served" /\ \E b : Put(c, "response", b)
  BY Zenon DEF Respond
<1>2. UNCHANGED node /\ UNCHANGED data /\ task' = task /\ asked' = asked /\ call' = call
  BY <1>1 DEF vars
<1>3. NodeKinds' /\ ProfileKeys' = ProfileKeys /\ made' = made /\ made \in Nat
  BY <1>2, SameNode DEF Invariant
<1>4. StoreKinds' /\ Grows
  <2>1. UNCHANGED store /\ log' = log
    BY <1>2 DEF data, store
  <2> QED
    BY <1>3, <2>1, LeftAlone, SameLog DEF Invariant
<1>5. Counters' /\ Held' = Held
  BY <1>2, <1>3 DEF Invariant, Counted, Counters, Held, data
<1>6. Others(c) /\ wire'[c] = "response" /\ task'[c] = task[c]
  BY <1>1, <1>2 DEF Put, Others, Invariant, TaskKinds
<1>7. TaskKinds'
  <2>1. task'[c].pc = "asked" => Named(task'[c].call)
    BY <1>6 DEF Invariant, TaskKinds
  <2>2. task'[c].pc = "listing" => IsListing(task'[c], Len(log'))
    BY <1>4, <1>6, ListingStays DEF Invariant, TaskKinds
  <2> QED
    BY <1>4, <1>6, <2>1, <2>2, TasksKept DEF Invariant
<1>8. (c \in Pending)' <=> c \in Pending
  BY <1>1, <1>6 DEF Pending
<1> QED
  BY <1>2, <1>3, <1>4, <1>5, <1>6, <1>7, <1>8, AsMany DEF Invariant

\* ... what its program does, and nothing.
LEMMA ProgramStep ==
  ASSUME Invariant, (((Start \/ Stop) /\ UNCHANGED rpcvars) \/ UNCHANGED allvars)
  PROVE  Invariant'
<1>1. UNCHANGED <<store, outbox, inbox, task, asked, call, bytes, wire>>
  BY DEF Start, Stop, allvars, rpcvars, vars, data
<1>2. /\ NodeKinds' /\ ProfileKeys' = ProfileKeys
      /\ made \in Nat /\ made' \in Nat /\ made' >= made
  <2>1. CASE Start
    <3>1. based' \in BOOLEAN /\ kind' = kind /\ running' \in BOOLEAN /\ MakeKeys
      BY <2>1 DEF Start, Invariant, NodeKinds
    <3> QED
      BY <3>1, KeysMade DEF Invariant, Counted, Counters, NodeKinds
  <2>2. CASE Stop \/ UNCHANGED allvars
    <3>1. /\ running' \in BOOLEAN /\ keys' = keys /\ made' = made /\ kind' = kind
          /\ based' = based
      BY <2>2 DEF Stop, allvars, vars, node, Invariant, NodeKinds
    <3>2. NodeKinds' /\ made \in Nat
      BY <3>1 DEF Invariant, NodeKinds
    <3> QED
      BY <3>1, <3>2 DEF ProfileKeys
  <2> QED
    BY <2>1, <2>2
<1>3. StoreKinds' /\ Grows
  <2>1. UNCHANGED store /\ log' = log
    BY <1>1 DEF store
  <2> QED
    BY <1>2, <2>1, LeftAlone, SameLog DEF Invariant
<1>4. Counters' /\ Held' = Held
  BY <1>1, <1>2 DEF Invariant, Counted, Counters, Held
<1>5. TaskKinds'
  BY <1>1, <1>3 DEF Invariant, TaskKinds, store
<1>6. Pending' = Pending
  BY <1>1 DEF Pending
<1>7. Counted'
  BY <1>1, <1>4, <1>6 DEF Invariant, Counted
<1> QED
  BY <1>2, <1>3, <1>5, <1>7 DEF Invariant

LEMMA StepInvariant == Invariant /\ [RpcNext]_allvars => Invariant'
<1> SUFFICES ASSUME Invariant, [RpcNext]_allvars
             PROVE  Invariant'
  OBVIOUS
<1>1. ASSUME NEW c \in Clients, Handle(c), UNCHANGED rpcvars
      PROVE  Invariant'
  <2>1. \/ RepliesOnly(c) \/ Puts(c) \/ Delete(c)
        \/ ListBegin(c) \/ (\E n \in Names : ListShard(c, n)) \/ ListEnd(c)
        \/ Send(c) \/ FlushOutbox(c) \/ Dropoff(c) \/ StartByRpc(c) \/ StopByRpc(c)
    BY <1>1 DEF Handle, RepliesOnly, Puts
  <2> QED
    BY <1>1, <2>1, ReplyingStep, StoringStep, ListingStep, CountingStep, StartingStep
<1> QED
  BY <1>1, RequestStep, AskStep, ServeStep, RespondStep, ProgramStep DEF RpcNext

LEMMA InitInvariant == RpcInit => Invariant
<1> SUFFICES ASSUME RpcInit
             PROVE  Invariant
  OBVIOUS
<1>1. NodeKinds
  <2>1. /\ kind \in Kinds /\ running \in BOOLEAN /\ based \in BOOLEAN /\ made = 0
        /\ keys = [routing |-> None, content |-> None]
    BY DEF RpcInit, Init
  <2> QED
    BY <2>1 DEF NodeKinds
<1>2. StoreKinds
  <2>1. log = <<tables>> /\ tables = [t \in Tables |-> << >>]
    BY DEF RpcInit, Init
  <2>2. log \in Seq({tables}) /\ Len(log) = 1 /\ log[1] = tables
    BY <2>1
  <2>3. DOMAIN tables = Tables /\ \A t \in Tables : DOMAIN tables[t] = {}
    BY <2>1
  <2>4. "profile" \in Tables
    BY DEF Tables
  <2> QED
    BY <2>2, <2>3, <2>4 DEF StoreKinds
<1>3. TaskKinds
  BY DEF RpcInit, Init, TaskKinds, Idle
<1>4. Counted
  <2>1. Pending = {}
    BY DEF RpcInit, Init, Pending, Idle
  <2>2. outbox = 0 /\ inbox = 0 /\ asked = 0 /\ ProfileKeys = 0
    BY DEF RpcInit, Init, ProfileKeys
  <2> QED
    BY <2>1, <2>2, FS_EmptySet, NodeApiAssumption DEF Counted, Counters, Held
<1> QED
  BY <1>1, <1>2, <1>3, <1>4 DEF Invariant

LEMMA AlwaysInvariant == RpcSpec => []Invariant
BY InitInvariant, StepInvariant, PTL DEF RpcSpec
-----------------------------------------------------------------------------
\* The types and counts of a node are what TypeOK says, however it is called: every key of
\* a profile or of the node is one that was made, and a call puts no more than one thing in.
THEOREM TypeCorrect == RpcSpec => []TypeOK
<1>1. Invariant => TypeOK
  <2> SUFFICES ASSUME Invariant
               PROVE  TypeOK
    OBVIOUS
  <2>1. Cardinality(Pending) \in Nat /\ Held + Cardinality(Pending) <= asked /\ Held \in Nat
    BY FS_CardinalityType, HeldType DEF Invariant, Counted
  <2>2. asked \in 0..MaxCalls /\ MaxCalls \in Nat
    BY NodeApiAssumption DEF Invariant, Counted
  <2>3. Held <= MaxCalls
    BY <2>1, <2>2
  <2>4. outbox \in Nat /\ inbox \in Nat /\ ProfileKeys \in Nat
    BY DEF Invariant, Counted, Counters
  <2>5. outbox <= MaxCalls /\ inbox <= MaxCalls /\ ProfileKeys <= MaxCalls
    BY <2>2, <2>3, <2>4 DEF Held
  <2>6. made \in 0..(MaxCalls + 2)
    BY <2>2, <2>4, <2>5 DEF ProfileKeys, Invariant, NodeKinds
  <2>7. outbox \in 0..MaxCalls /\ inbox \in 0..MaxCalls
    BY <2>2, <2>4, <2>5
  <2>8. \A n \in DOMAIN tables["profile"] : tables["profile"][n].key < made
    BY DEF Invariant, StoreKinds
  <2>9. /\ kind \in Kinds /\ running \in BOOLEAN /\ based \in BOOLEAN
        /\ keys \in [{"routing", "content"} -> (0..(made - 1)) \cup {None}]
        /\ (keys.routing = None) = (keys.content = None)
    BY DEF Invariant, NodeKinds
  <2>10. /\ DOMAIN tables = Tables /\ \A t \in Tables : DOMAIN tables[t] \subseteq Names
         /\ log[Len(log)] = tables /\ DOMAIN task = Clients
    BY DEF Invariant, StoreKinds, TaskKinds
  <2> QED
    BY <2>2, <2>6, <2>7, <2>8, <2>9, <2>10, Zenon DEF TypeOK
<1> QED
  BY <1>1, AlwaysInvariant, PTL
-----------------------------------------------------------------------------
\* What a listing holds, of the history it looks back on.
Bracketed(r, history) ==
  LET seen(i) == Listed(history[i], r.of, r.group)
      during == r.since .. Len(history)
  IN  \A n \in Names :
        /\ n \in r.found => \E i \in during : n \in seen(i)
        /\ n \notin r.todo /\ (\A i \in during : n \in seen(i)) => n \in r.found

Replying(c) == \E answer : task' = [task EXCEPT ![c] = Answered(answer)]
Beginning(c) ==
  \E t \in Tables : \E group : task' = [task EXCEPT ![c] = Listing(t, group, Names, {}, Len(log))]
GoingOn(c, n) ==
  /\ IsListing(task[c], Len(log))
  /\ task' = [task EXCEPT ![c] =
       Listing(task[c].of, task[c].group, task[c].todo \ {n},
               task[c].found \cup ({n} \cap Listed(tables, task[c].of, task[c].group)),
               task[c].since)]

\* What a step does to the tables and to the listings.
LEMMA HandlesLog ==
  ASSUME Invariant, NEW c \in Clients, Handle(c)
  PROVE  \/ Replying(c) /\ (log' = log \/ log' = Append(log, tables'))
         \/ log' = log /\ (Beginning(c) \/ \E n \in Names : GoingOn(c, n))
<1>1. CASE RepliesOnly(c)
  BY <1>1, OnlyReplying DEF Replies, Replying, data, store
<1>2. CASE Puts(c)
  <2>1. Replying(c)
    BY <1>2, StoringReplies DEF Replies, Replying
  <2>2. log' = log \/ log' = Append(log, tables')
    BY <1>2, PutsEntry, Zenon DEF Invariant, PutEntry, store
  <2> QED
    BY <2>1, <2>2
<1>3. CASE Delete(c)
  <2>1. Replying(c)
    BY <1>3, StoringReplies DEF Replies, Replying
  <2>2. log' = log \/ log' = Append(log, tables')
    BY <1>3, DeletesEntry, Zenon DEF DropEntry, store
  <2> QED
    BY <2>1, <2>2
<1>4. CASE Send(c) \/ FlushOutbox(c) \/ Dropoff(c)
  BY <1>4, CountingReplies DEF Replies, Replying, store
<1>5. CASE StartByRpc(c) \/ StopByRpc(c)
  BY <1>5, StartingReplies DEF Replies, Replying, data, store
<1>6. CASE ListBegin(c)
  <2>1. Beginning(c)
    BY <1>6, Listings DEF Invariant, Beginning
  <2> QED
    BY <1>6, <2>1 DEF ListBegin, data, store
<1>7. CASE ListEnd(c)
  <2>1. Replying(c)
    BY <1>7, Listings DEF Invariant, Replying
  <2> QED
    BY <1>7, <2>1 DEF ListEnd, data, store
<1>8. ASSUME NEW n \in Names, ListShard(c, n)
      PROVE  log' = log /\ GoingOn(c, n)
  <2>1. GoingOn(c, n)
    BY <1>8, Listings DEF Invariant, GoingOn
  <2> QED
    BY <1>8, <2>1 DEF ListShard, data, store
<1> QED
  BY <1>1, <1>2, <1>3, <1>4, <1>5, <1>6, <1>7, <1>8 DEF Handle, RepliesOnly, Puts

LEMMA OthersLog ==
  ASSUME Invariant, NEW c \in Clients,
         \/ \E sent \in Sent : Request(c, sent)
         \/ \E direct \in Calls : AskDirectly(c, direct)
         \/ Serve(c) \/ Respond(c)
  PROVE  log' = log /\ (task' = task \/ \E given : task' = [task EXCEPT ![c] = Asked(given)])
<1>1. CASE \E sent \in Sent : Request(c, sent)
  BY <1>1 DEF Request, data, store
<1>2. CASE \E direct \in Calls : AskDirectly(c, direct)
  BY <1>2 DEF AskDirectly, Ask, data, store
<1>3. CASE Serve(c)
  BY <1>3, Zenon DEF Serve, data, store
<1>4. CASE Respond(c)
  BY <1>4 DEF Respond, vars, data, store
<1> QED
  BY <1>1, <1>2, <1>3, <1>4

\* What is in a listing already, or not, is of the tables that have been.
LEMMA BracketStays ==
  ASSUME StoreKinds, log' = log \/ log' = Append(log, tables'),
         NEW r, IsListing(r, Len(log)), Bracketed(r, log)
  PROVE  Bracketed(r, log')
<1>1. /\ Len(log) \in Nat /\ Len(log') \in {Len(log), Len(log) + 1}
      /\ \A i \in 1..Len(log) : log'[i] = log[i]
  BY LogGrows
<1>2. r.since \in 1..Len(log)
  BY DEF IsListing, Listing
<1>3. ASSUME NEW i \in r.since..Len(log)
      PROVE  i \in r.since..Len(log') /\ log'[i] = log[i]
  <2>1. i \in 1..Len(log) /\ i <= Len(log')
    BY <1>1, <1>2
  <2> QED
    BY <1>1, <1>2, <2>1
<1>4. ASSUME NEW n \in Names, n \in r.found
      PROVE  \E i \in r.since..Len(log') : n \in Listed(log'[i], r.of, r.group)
  <2>1. PICK i \in r.since..Len(log) : n \in Listed(log[i], r.of, r.group)
    BY <1>4 DEF Bracketed
  <2> QED
    BY <1>3, <2>1
<1>5. ASSUME NEW n \in Names, n \notin r.todo,
             \A i \in r.since..Len(log') : n \in Listed(log'[i], r.of, r.group)
      PROVE  n \in r.found
  <2>1. \A i \in r.since..Len(log) : n \in Listed(log[i], r.of, r.group)
    BY <1>3, <1>5
  <2> QED
    BY <1>5, <2>1 DEF Bracketed
<1> QED
  BY <1>4, <1>5, Zenon DEF Bracketed

\* A listing begins with nothing and everything to do, ...
LEMMA BracketBegins ==
  ASSUME NEW t, NEW group, NEW since, NEW history
  PROVE  Bracketed(Listing(t, group, Names, {}, since), history)
BY DEF Bracketed, Listing

\* ... and what it adds is in the tables now.
LEMMA BracketGoesOn ==
  ASSUME StoreKinds, NEW r, IsListing(r, Len(log)), Bracketed(r, log), NEW n \in Names
  PROVE  Bracketed(Listing(r.of, r.group, r.todo \ {n},
                           r.found \cup ({n} \cap Listed(tables, r.of, r.group)), r.since), log)
<1> DEFINE more == {n} \cap Listed(tables, r.of, r.group)
           s == Listing(r.of, r.group, r.todo \ {n}, r.found \cup more, r.since)
<1>1. Len(log) \in r.since..Len(log) /\ log[Len(log)] = tables
  <2>1. r.since \in 1..Len(log)
    BY DEF IsListing, Listing
  <2> QED
    BY <2>1 DEF StoreKinds
<1>2. /\ s.of = r.of /\ s.group = r.group /\ s.since = r.since
      /\ s.todo = r.todo \ {n} /\ s.found = r.found \cup more
  BY DEF Listing
<1> HIDE DEF s
<1>3. ASSUME NEW m \in Names, m \in s.found
      PROVE  \E i \in s.since..Len(log) : m \in Listed(log[i], s.of, s.group)
  <2>1. CASE m \in r.found
    BY <1>2, <2>1 DEF Bracketed
  <2>2. CASE m \in more
    BY <1>1, <1>2, <2>2
  <2> QED
    BY <1>2, <1>3, <2>1, <2>2
<1>4. ASSUME NEW m \in Names, m \notin s.todo,
             \A i \in s.since..Len(log) : m \in Listed(log[i], s.of, s.group)
      PROVE  m \in s.found
  <2>1. CASE m = n
    <3>1. n \in Listed(tables, r.of, r.group)
      BY <1>1, <1>2, <1>4, <2>1
    <3> QED
      BY <1>2, <2>1, <3>1
  <2>2. CASE m # n
    BY <1>2, <1>4, <2>2 DEF Bracketed
  <2> QED
    BY <2>1, <2>2
<1>5. Bracketed(s, log)
  BY <1>3, <1>4, Zenon DEF Bracketed
<1> QED
  BY <1>5 DEF s

LEMMA BracketedStep ==
  Invariant /\ ListingBracketed /\ [RpcNext]_allvars => ListingBracketed'
<1> SUFFICES ASSUME Invariant, ListingBracketed, [RpcNext]_allvars, NEW d \in Clients,
                    task'[d].pc = "listing"
             PROVE  Bracketed(task'[d], log')
  BY DEF ListingBracketed, Bracketed
<1>1. task[d].pc = "listing" => IsListing(task[d], Len(log)) /\ Bracketed(task[d], log)
  BY DEF Invariant, TaskKinds, ListingBracketed, Bracketed
<1>2. ASSUME task'[d] = task[d], log' = log \/ log' = Append(log, tables')
      PROVE  Bracketed(task'[d], log')
  BY <1>1, <1>2, BracketStays DEF Invariant
<1>3. ASSUME NEW c \in Clients, NEW r, task' = [task EXCEPT ![c] = r],
             c = d => r.pc # "listing" \/ (log' = log /\ Bracketed(r, log)),
             log' = log \/ log' = Append(log, tables')
      PROVE  Bracketed(task'[d], log')
  <2>1. task'[d] = IF c = d THEN r ELSE task[d]
    BY <1>3 DEF Invariant, TaskKinds
  <2> QED
    BY <1>2, <1>3, <2>1
<1>4. ASSUME NEW c \in Clients, Handle(c)
      PROVE  Bracketed(task'[d], log')
  <2>1. CASE Replying(c) /\ (log' = log \/ log' = Append(log, tables'))
    <3>1. PICK answer : task' = [task EXCEPT ![c] = Answered(answer)]
      BY <2>1 DEF Replying
    <3>2. Answered(answer).pc # "listing"
      BY DEF Answered
    <3> QED
      BY <1>3, <2>1, <3>1, <3>2
  <2>2. CASE log' = log /\ Beginning(c)
    <3>1. PICK t \in Tables : \E group : task' = [task EXCEPT ![c] = Listing(t, group, Names, {}, Len(log))]
      BY <2>2 DEF Beginning
    <3>2. PICK group : task' = [task EXCEPT ![c] = Listing(t, group, Names, {}, Len(log))]
      BY <3>1
    <3>3. Bracketed(Listing(t, group, Names, {}, Len(log)), log)
      BY BracketBegins
    <3> QED
      BY <1>3, <2>2, <3>2, <3>3
  <2>3. ASSUME NEW n \in Names, GoingOn(c, n), log' = log
        PROVE  Bracketed(task'[d], log')
    <3> DEFINE next(r) == Listing(r.of, r.group, r.todo \ {n},
                                  r.found \cup ({n} \cap Listed(tables, r.of, r.group)), r.since)
    <3>1. IsListing(task[c], Len(log)) /\ task' = [task EXCEPT ![c] = next(task[c])]
      BY <2>3 DEF GoingOn
    <3>2. task[c].pc = "listing"
      BY <3>1 DEF IsListing, Listing
    <3>3. c = d => Bracketed(next(task[c]), log)
      BY <1>1, <3>1, <3>2, BracketGoesOn DEF Invariant
    <3> HIDE DEF next
    <3> QED
      BY <1>3, <2>3, <3>1, <3>3
  <2> QED
    BY <1>4, <2>1, <2>2, <2>3, HandlesLog
<1>5. ASSUME NEW c \in Clients,
             \/ \E sent \in Sent : Request(c, sent)
             \/ \E direct \in Calls : AskDirectly(c, direct)
             \/ Serve(c) \/ Respond(c)
      PROVE  Bracketed(task'[d], log')
  <2>1. log' = log /\ (task' = task \/ \E given : task' = [task EXCEPT ![c] = Asked(given)])
    BY <1>5, OthersLog
  <2>2. ASSUME NEW given, task' = [task EXCEPT ![c] = Asked(given)]
        PROVE  Bracketed(task'[d], log')
    <3>1. Asked(given).pc # "listing"
      BY DEF Asked
    <3> QED
      BY <1>3, <2>1, <2>2, <3>1
  <2> QED
    BY <1>2, <2>1, <2>2
<1>6. CASE Start \/ Stop \/ UNCHANGED allvars
  BY <1>2, <1>6 DEF Start, Stop, allvars, vars, data, store
<1> QED
  BY <1>4, <1>5, <1>6 DEF RpcNext

\* A listing goes through a table shard by shard while others put things into it and take
\* things from it, and so may be of no one moment: but whatever was there all the time is in
\* it once its shard is done, and nothing is that never was there.
THEOREM ListingsBracketed == RpcSpec => []ListingBracketed
<1>1. RpcInit => ListingBracketed
  BY DEF RpcInit, Init, ListingBracketed, Idle
<1> QED
  BY <1>1, BracketedStep, AlwaysInvariant, PTL DEF RpcSpec
-----------------------------------------------------------------------------
\* The codec, for values of any length there is in 64 bits.

\* Of numbers there is a least.
LEMMA Minimum ==
  ASSUME NEW S \in SUBSET Nat, S # {}
  PROVE  \E b \in S : \A c \in S : b <= c
<1>1. \E b \in S : \A c \in S : ~ (c < b)
  <2> DEFINE R == OpToRel(<, Nat)
  <2>1. IsWellFoundedOn(R, Nat)
    BY NatLessThanWellFounded
  <2>2. \A c, d \in Nat : c < d => <<c, d>> \in R
    BY Zenon DEF OpToRel
  <2> HIDE DEF R
  <2>3. \E b \in S : \A c \in S : ~ (<<c, b>> \in R)
    BY <2>1, WFMin
  <2> QED
    BY <2>2, <2>3
<1> QED
  BY <1>1

\* What holds at first, and next whenever it holds, holds up to the last.
LEMMA UpToLast ==
  ASSUME NEW last \in Nat, NEW F \in SUBSET (0..last), 0 \in F, \A k \in F : k < last => k + 1 \in F
  PROVE  F = 0..last
<1> SUFFICES ASSUME (0..last) \ F # {} PROVE FALSE
  OBVIOUS
<1>2. PICK m \in (0..last) \ F : \A n \in (0..last) \ F : m <= n
  <2>1. (0..last) \ F \in SUBSET Nat
    OBVIOUS
  <2> QED
    BY <2>1, Minimum
<1>3. m \in 0..last /\ m # 0 /\ m - 1 \in 0..last /\ m - 1 < m /\ m - 1 < last /\ (m - 1) + 1 = m
  OBVIOUS
<1>4. m - 1 \in F
  BY <1>2, <1>3
<1> QED
  BY <1>3, <1>4

\* Shifting goes digit by digit.
LEMMA LeftGoesOn ==
  ASSUME NEW n \in Nat
  PROVE  /\ Left(n)[0] = n
         /\ \A i \in 1..9 : Left(n)[i] = Left(n)[i - 1] \div 128
<1> DEFINE At(g, i) == IF i = 0 THEN n ELSE g[i - 1] \div 128
           F == {k \in 0..9 : \E g : g = [i \in 0..k |-> At(g, i)]}
<1>1. 0 \in F
  <2> DEFINE g == [i \in 0..0 |-> n]
  <2>1. g = [i \in 0..0 |-> At(g, i)]
    OBVIOUS
  <2> HIDE DEF g, At
  <2> QED
    BY <2>1
<1>2. ASSUME NEW k \in F, k < 9
      PROVE  k + 1 \in F
  <2>1. PICK g : g = [i \in 0..k |-> At(g, i)]
    OBVIOUS
  <2>2. k \in Nat /\ k + 1 \in 0..9
    BY <1>2
  <2> HIDE DEF F
  <2> DEFINE h == [i \in 0..(k + 1) |-> IF i = k + 1 THEN g[k] \div 128 ELSE g[i]]
  <2>3. \A i \in 0..k : g[i] = At(g, i) /\ h[i] = g[i]
    <3>1. \A i \in 0..k : g[i] = At(g, i)
      BY <2>1
    <3>2. \A i \in 0..k : i # k + 1 /\ i \in 0..(k + 1)
      BY <2>2
    <3>3. \A i \in 0..k : h[i] = g[i]
      BY <3>2
    <3> QED
      BY <3>1, <3>3
  <2>4. h[k + 1] = g[k] \div 128
    BY <2>2
  <2>5. ASSUME NEW i \in 0..(k + 1)
        PROVE  h[i] = At(h, i)
    <3>1. CASE i = k + 1
      <4>1. h[k] = g[k] /\ i # 0 /\ i - 1 = k
        BY <2>2, <2>3, <3>1
      <4> HIDE DEF h
      <4> QED
        BY <2>4, <3>1, <4>1
    <3>2. CASE i # k + 1
      <4>1. i \in 0..k /\ (i # 0 => i - 1 \in 0..k)
        BY <2>2, <3>2
      <4>2. h[i] = g[i] /\ (i # 0 => h[i - 1] = g[i - 1])
        BY <2>3, <4>1
      <4> HIDE DEF h
      <4> QED
        BY <2>3, <4>1, <4>2
    <3> QED
      BY <3>1, <3>2
  <2>6. h = [i \in 0..(k + 1) |-> h[i]]
    OBVIOUS
  <2> HIDE DEF h
  <2>7. h = [i \in 0..(k + 1) |-> At(h, i)]
    <3> HIDE DEF At
    <3> QED
      BY <2>5, <2>6
  <2> QED
    BY <2>2, <2>7 DEF F
<1>3. 9 \in F
  <2>1. F \in SUBSET (0..9) /\ 9 \in Nat
    OBVIOUS
  <2> HIDE DEF F
  <2> QED
    BY <1>1, <1>2, <2>1, UpToLast
<1>4. \E g : g = [i \in 0..9 |-> At(g, i)]
  BY <1>3
<1>5. Left(n) = [i \in 0..9 |-> At(Left(n), i)]
  <2>1. \E g : g = [i \in 0..(MaxDigits - 1) |-> At(g, i)]
    BY <1>4 DEF MaxDigits
  <2>2. Left(n) = [i \in 0..(MaxDigits - 1) |-> At(Left(n), i)]
    BY <2>1, Zenon DEF Left
  <2> QED
    BY <2>2 DEF MaxDigits
<1> HIDE DEF F
<1> QED
  BY <1>5

\* Reading goes byte by byte.
LEMMA ReadGoesOn ==
  ASSUME NEW written
  PROVE  \A k \in 1..10 :
           LET i == 11 - k
               code == CodeOf(written[i])
               more == ReadFrom(written)[k - 1]
           IN  ReadFrom(written)[k] =
                 IF i > Len(written) THEN Fails
                 ELSE IF code < 128 THEN Reads(code, From(written, i + 1))
                 ELSE IF ~more.ok THEN Fails
                 ELSE Reads((code - 128) + 128 * more.value, more.rest)
<1> DEFINE Reading(k, more) ==
             IF 11 - k > Len(written) THEN Fails
             ELSE IF CodeOf(written[11 - k]) < 128
             THEN Reads(CodeOf(written[11 - k]), From(written, 11 - k + 1))
             ELSE IF ~more.ok THEN Fails
             ELSE Reads((CodeOf(written[11 - k]) - 128) + 128 * more.value, more.rest)
           At(g, k) == IF k = 0 THEN Fails ELSE Reading(k, g[k - 1])
           F == {m \in 0..10 : \E g : g = [k \in 0..m |-> At(g, k)]}
<1>1. 0 \in F
  <2> DEFINE g == [k \in 0..0 |-> Fails]
  <2> HIDE DEF Reading
  <2>1. g = [k \in 0..0 |-> At(g, k)]
    OBVIOUS
  <2> HIDE DEF g, At
  <2> QED
    BY <2>1
<1>2. ASSUME NEW m \in F, m < 10
      PROVE  m + 1 \in F
  <2> HIDE DEF Reading
  <2>1. PICK g : g = [k \in 0..m |-> At(g, k)]
    OBVIOUS
  <2>2. m \in Nat /\ m + 1 \in 0..10
    BY <1>2
  <2> HIDE DEF F
  <2> DEFINE h == [k \in 0..(m + 1) |-> IF k = m + 1 THEN Reading(m + 1, g[m]) ELSE g[k]]
  <2>3. \A k \in 0..m : g[k] = At(g, k) /\ h[k] = g[k]
    <3>1. \A k \in 0..m : g[k] = At(g, k)
      BY <2>1
    <3>2. \A k \in 0..m : k # m + 1 /\ k \in 0..(m + 1)
      BY <2>2
    <3>3. \A k \in 0..m : h[k] = g[k]
      BY <3>2
    <3> QED
      BY <3>1, <3>3
  <2>4. h[m + 1] = Reading(m + 1, g[m])
    BY <2>2
  <2>5. ASSUME NEW k \in 0..(m + 1)
        PROVE  h[k] = At(h, k)
    <3>1. CASE k = m + 1
      <4>1. h[m] = g[m] /\ k # 0 /\ k - 1 = m
        BY <2>2, <2>3, <3>1
      <4> HIDE DEF h
      <4> QED
        BY <2>4, <3>1, <4>1
    <3>2. CASE k # m + 1
      <4>1. k \in 0..m /\ (k # 0 => k - 1 \in 0..m)
        BY <2>2, <3>2
      <4>2. h[k] = g[k] /\ (k # 0 => h[k - 1] = g[k - 1])
        BY <2>3, <4>1
      <4> HIDE DEF h
      <4> QED
        BY <2>3, <4>1, <4>2
    <3> QED
      BY <3>1, <3>2
  <2>6. h = [k \in 0..(m + 1) |-> h[k]]
    OBVIOUS
  <2> HIDE DEF h
  <2>7. h = [k \in 0..(m + 1) |-> At(h, k)]
    <3> HIDE DEF At
    <3> QED
      BY <2>5, <2>6
  <2> QED
    BY <2>2, <2>7 DEF F
<1>3. 10 \in F
  <2>1. F \in SUBSET (0..10) /\ 10 \in Nat
    OBVIOUS
  <2> HIDE DEF F
  <2> QED
    BY <1>1, <1>2, <2>1, UpToLast
<1>4. \E g : g = [k \in 0..10 |-> At(g, k)]
  BY <1>3
<1> DEFINE read == ReadFrom(written)
<1>5. read = [k \in 0..10 |-> At(read, k)]
  <2> DEFINE ByDigits(g, k) ==
               IF k = 0 \/ MaxDigits + 1 - k > Len(written) THEN Fails
               ELSE IF CodeOf(written[MaxDigits + 1 - k]) < 128
               THEN Reads(CodeOf(written[MaxDigits + 1 - k]), From(written, MaxDigits + 1 - k + 1))
               ELSE IF ~g[k - 1].ok THEN Fails
               ELSE Reads((CodeOf(written[MaxDigits + 1 - k]) - 128) + 128 * g[k - 1].value, g[k - 1].rest)
  <2>1. MaxDigits = 10 /\ MaxDigits + 1 = 11
    BY DEF MaxDigits
  <2>2. ASSUME NEW g, NEW k \in 0..10
        PROVE  At(g, k) = ByDigits(g, k)
    BY <2>1
  <2>3. \A g : [k \in 0..10 |-> At(g, k)] = [k \in 0..MaxDigits |-> ByDigits(g, k)]
    <3> HIDE DEF At, ByDigits
    <3> QED
      BY <2>1, <2>2
  <2>4. \E g : g = [k \in 0..MaxDigits |-> ByDigits(g, k)]
    <3> HIDE DEF At, ByDigits
    <3>1. PICK g : g = [k \in 0..10 |-> At(g, k)]
      BY <1>4
    <3>2. [k \in 0..10 |-> At(g, k)] = [k \in 0..MaxDigits |-> ByDigits(g, k)]
      BY <2>3, Zenon
    <3> QED
      BY <3>1, <3>2, Zenon
  <2>5. read = [k \in 0..MaxDigits |-> ByDigits(read, k)]
    BY <2>4, Zenon DEF ReadFrom
  <2> HIDE DEF At, ByDigits, read
  <2>6. [k \in 0..10 |-> At(read, k)] = [k \in 0..MaxDigits |-> ByDigits(read, k)]
    BY <2>3, Zenon
  <2> QED
    BY <2>5, <2>6, Zenon
<1> HIDE DEF F, read
<1>6. \A k \in 1..10 : read[k] = Reading(k, read[k - 1])
  <2> HIDE DEF Reading
  <2> QED
    BY <1>5
<1> QED
  BY <1>6 DEF read

\* The same, by the place that is read.
ReadsAt(written, i, code, more) ==
  ReadFrom(written)[11 - i] =
    IF i > Len(written) THEN Fails
    ELSE IF code < 128 THEN Reads(code, From(written, i + 1))
    ELSE IF ~more.ok THEN Fails
    ELSE Reads((code - 128) + 128 * more.value, more.rest)

LEMMA ReadPlaceByPlace ==
  ASSUME NEW written, NEW i \in 1..10
  PROVE  ReadsAt(written, i, CodeOf(written[i]), ReadFrom(written)[10 - i])
<1> DEFINE k == 11 - i
           rd == ReadFrom(written)
<1>1. k \in 1..10 /\ 11 - k = i /\ k - 1 = 10 - i
  OBVIOUS
<1> HIDE DEF k, rd
<1>2. rd[k] = IF 11 - k > Len(written) THEN Fails
              ELSE IF CodeOf(written[11 - k]) < 128
              THEN Reads(CodeOf(written[11 - k]), From(written, 11 - k + 1))
              ELSE IF ~rd[k - 1].ok THEN Fails
              ELSE Reads((CodeOf(written[11 - k]) - 128) + 128 * rd[k - 1].value, rd[k - 1].rest)
  BY <1>1, ReadGoesOn DEF rd
<1>3. rd[k] = IF i > Len(written) THEN Fails
              ELSE IF CodeOf(written[i]) < 128
              THEN Reads(CodeOf(written[i]), From(written, i + 1))
              ELSE IF ~rd[10 - i].ok THEN Fails
              ELSE Reads((CodeOf(written[i]) - 128) + 128 * rd[10 - i].value, rd[10 - i].rest)
  BY <1>1, <1>2
<1> QED
  BY <1>3, Zenon DEF ReadsAt, k, rd

\* A number of 64 bits has no more than ten digits, of which three are 21 bits.
TwoTo21 == 2097152
TwoTo64 == TwoTo21 * (TwoTo21 * (TwoTo21 * 2))

LEMMA ThreeShifts ==
  ASSUME NEW a \in Nat, NEW b, b = a \div 128, NEW c, c = b \div 128, NEW d, d = c \div 128,
         NEW m \in Nat, a < TwoTo21 * m
  PROVE  b \in Nat /\ c \in Nat /\ d \in Nat /\ d < m
<1>1. b \in Nat /\ b < 16384 * m
  BY DEF TwoTo21
<1>2. c \in Nat /\ c < 128 * m
  BY <1>1
<1> QED
  BY <1>2

LEMMA SixtyFourBits ==
  ASSUME NEW n \in Nat, n < TwoTo64
  PROVE  (\A i \in 0..9 : Left(n)[i] \in Nat) /\ Left(n)[9] < 128
<1> DEFINE F == {i \in 0..9 : Left(n)[i] \in Nat}
           l(i) == Left(n)[i]
<1>1. /\ Left(n)[0] = n
      /\ \A i \in 1..9 : Left(n)[i] = Left(n)[i - 1] \div 128
  BY LeftGoesOn
<1>2. F = 0..9
  <2>1. 0 \in F
    BY <1>1
  <2>2. ASSUME NEW i \in F, i < 9
        PROVE  i + 1 \in F
    <3>1. Left(n)[i] \in Nat /\ i \in 0..9
      OBVIOUS
    <3>2. i + 1 \in 1..9 /\ (i + 1) - 1 = i
      BY <2>2, <3>1
    <3>3. Left(n)[i + 1] = Left(n)[i] \div 128
      BY <1>1, <3>2
    <3>4. Left(n)[i] \div 128 \in Nat
      BY <3>1
    <3> QED
      BY <3>2, <3>3, <3>4
  <2>3. F \in SUBSET (0..9) /\ 9 \in Nat
    OBVIOUS
  <2> HIDE DEF F
  <2> QED
    BY <2>1, <2>2, <2>3, UpToLast
<1>3. \A i \in 0..9 : l(i) \in Nat
  BY <1>2
<1>4. ASSUME NEW i \in 0..6, NEW m \in Nat, l(i) < TwoTo21 * m
      PROVE  l(i + 3) < m
  <2>1. /\ i + 1 \in 1..9 /\ (i + 1) - 1 = i /\ i + 2 \in 1..9 /\ (i + 2) - 1 = i + 1
        /\ i + 3 \in 1..9 /\ (i + 3) - 1 = i + 2 /\ i \in 0..9
    OBVIOUS
  <2>2. /\ l(i + 1) = l(i) \div 128 /\ l(i + 2) = l(i + 1) \div 128
        /\ l(i + 3) = l(i + 2) \div 128
    BY <1>1, <2>1
  <2>3. l(i) \in Nat
    BY <1>3, <2>1
  <2> HIDE DEF l
  <2> QED
    BY <1>4, <2>2, <2>3, ThreeShifts
<1>5. l(0) < TwoTo21 * (TwoTo21 * (TwoTo21 * 2))
  BY <1>1 DEF TwoTo64
<1> HIDE DEF l
<1>6. l(3) < TwoTo21 * (TwoTo21 * 2)
  <2>1. TwoTo21 * (TwoTo21 * 2) \in Nat /\ 0 \in 0..6 /\ 0 + 3 = 3
    BY DEF TwoTo21
  <2> QED
    BY <1>4, <1>5, <2>1, Zenon
<1>7. l(6) < TwoTo21 * 2
  <2>1. TwoTo21 * 2 \in Nat /\ 3 \in 0..6 /\ 3 + 3 = 6
    BY DEF TwoTo21
  <2> QED
    BY <1>4, <1>6, <2>1, Zenon
<1>8. l(9) < 2
  <2>1. 2 \in Nat /\ 6 \in 0..6 /\ 6 + 3 = 9
    OBVIOUS
  <2> QED
    BY <1>4, <1>7, <2>1, Zenon
<1>9. l(9) < 128
  BY <1>3, <1>8
<1> QED
  BY <1>3, <1>9 DEF l

LEMMA CodeOfByte == \A n : CodeOf(Byte(n)) = n
BY DEF CodeOf, Byte

\* What is behind a sequence that another was put after.
Joined(s, t, st) ==
  /\ From(st, Len(s) + 1) = t
  /\ SubSeq(st, 1, Len(s)) = s
  /\ Len(st) = Len(s) + Len(t) /\ Len(s) \in Nat /\ Len(t) \in Nat
  /\ \A i \in 1..Len(s) : st[i] = s[i]

LEMMA AfterFirst ==
  ASSUME NEW S, NEW T, NEW s \in Seq(S), NEW t \in Seq(T)
  PROVE  s \o t \in Seq(S \cup T) /\ Joined(s, t, s \o t)
<1> DEFINE U == S \cup T
<1>1. s \in Seq(U) /\ t \in Seq(U)
  OBVIOUS
<1> HIDE DEF U
<1>2. /\ s \o t \in Seq(U) /\ Len(s \o t) = Len(s) + Len(t)
      /\ \A i \in 1..(Len(s) + Len(t)) : (s \o t)[i] = IF i <= Len(s) THEN s[i] ELSE t[i - Len(s)]
  BY <1>1, ConcatProperties
<1>3. Len(s) \in Nat /\ Len(t) \in Nat
  BY <1>1, LenProperties
<1> DEFINE st == s \o t
           m == Len(s)
           n == Len(t)
<1>4. /\ st \in Seq(U) /\ Len(st) = m + n /\ m \in Nat /\ n \in Nat
      /\ \A i \in 1..(m + n) : st[i] = IF i <= m THEN s[i] ELSE t[i - m]
      /\ \A i \in 1..(m + n) : st[i] \in U
  <2>1. \A i \in 1..(m + n) : st[i] \in U
    BY <1>2, <1>3, ElementOfSeq
  <2> QED
    BY <1>2, <1>3, <2>1
<1> HIDE DEF st
<1>5. SubSeq(st, 1, m) = s
  <2> DEFINE u == SubSeq(st, 1, m)
  <2>1. u \in Seq(U) /\ Len(u) = m /\ \A i \in 1..m : u[i] = st[i]
    BY <1>4, SubSeqProperties
  <2> HIDE DEF u
  <2>2. \A i \in 1..Len(u) : u[i] = s[i]
    BY <1>4, <2>1
  <2>3. u = s
    BY <1>1, <2>1, <2>2, SeqEqual
  <2> QED
    BY <2>3 DEF u
<1>6. SubSeq(st, m + 1, m + n) = t
  <2> DEFINE u == SubSeq(st, m + 1, m + n)
  <2>1. u \in Seq(U) /\ Len(u) = n /\ \A i \in 1..n : u[i] = st[m + i]
    BY <1>4, SubSeqProperties
  <2> HIDE DEF u
  <2>2. \A i \in 1..n : m + i \in 1..(m + n) /\ ~ (m + i <= m) /\ (m + i) - m = i
    BY <1>3
  <2>4. \A i \in 1..n : st[m + i] = t[i]
    BY <1>4, <2>2
  <2>5. \A i \in 1..Len(u) : u[i] = t[i]
    BY <2>1, <2>4
  <2>3. u = t
    BY <1>1, <2>1, <2>5, SeqEqual
  <2> QED
    BY <2>3 DEF u
<1> QED
  BY <1>2, <1>3, <1>4, <1>5, <1>6 DEF From, Joined, st, U

\* The digits of a number are as many as it needs.
LEMMA DigitsOf ==
  ASSUME NEW n \in Nat, n < TwoTo64
  PROVE  \E last \in 0..9 :
           /\ Left(n)[last] < 128 /\ \A j \in 0..(last - 1) : Left(n)[j] >= 128
           /\ VarintEncode(n) = [i \in 1..(last + 1) |-> Byte(IF i > last THEN Left(n)[i - 1]
                                                            ELSE (Left(n)[i - 1] % 128) + 128)]
<1> DEFINE small == {i \in 0..9 : Left(n)[i] < 128}
           is(i) == Left(n)[i] < 128 /\ \A j \in 0..(i - 1) : Left(n)[j] >= 128
<1>1. \A i \in 0..9 : Left(n)[i] \in Nat /\ Left(n)[9] < 128
  BY SixtyFourBits
<1>2. PICK i \in small : \A j \in small : i <= j
  <2>1. small # {} /\ small \in SUBSET Nat
    BY <1>1
  <2> HIDE DEF small
  <2> QED
    BY <2>1, Minimum
<1>3. is(i)
  <2>1. ASSUME NEW j \in 0..(i - 1)
        PROVE  Left(n)[j] >= 128
    <3>1. j \in 0..9 /\ i \in 0..9 /\ j < i
      OBVIOUS
    <3>2. j \notin small
      <4> HIDE DEF small
      <4> QED
        BY <1>2, <3>1
    <3> QED
      BY <1>1, <3>1, <3>2
  <2> QED
    BY <2>1
<1>4. \E k \in 0..9 : is(k)
  BY <1>3
<1> DEFINE last == CHOOSE k \in 0..9 : is(k)
<1>5. last \in 0..9 /\ is(last)
  <2> HIDE DEF is
  <2> QED
    BY <1>4
<1>6. VarintEncode(n) = [k \in 1..(last + 1) |-> Byte(IF k > last THEN Left(n)[k - 1]
                                                    ELSE (Left(n)[k - 1] % 128) + 128)]
  BY DEF VarintEncode, Digits, MaxDigits
<1> HIDE DEF last
<1> QED
  BY <1>5, <1>6, Zenon
-----------------------------------------------------------------------------
\* What is left of a number, shift by shift; the first below 128; the digits up to it.
Shifted(l) == \A i \in 0..9 : l[i] \in Nat /\ (i > 0 => l[i] = l[i - 1] \div 128)
FirstBelow(l, last) == l[last] < 128 /\ \A j \in 0..(last - 1) : l[j] >= 128
Coded(l, last, i) == IF i > last THEN l[i - 1] ELSE (l[i - 1] % 128) + 128
DigitsUpTo(l, last) == [i \in 1..(last + 1) |-> Byte(Coded(l, last, i))]

\* The digits of a number are read again as that number, and what follows them is left.
LEMMA DigitsRead ==
  ASSUME NEW l, Shifted(l), NEW last \in 0..9, FirstBelow(l, last),
         NEW T, NEW rest \in Seq(T), NEW digits, digits = DigitsUpTo(l, last),
         NEW written, written = digits \o rest
  PROVE  /\ ReadFrom(written)[10] = Reads(l[0], rest)
         /\ \E D : digits \in Seq(D)
<1>1. PICK D : digits \in Seq(D) /\ Len(digits) = last + 1
  <2> DEFINE d(i) == Byte(Coded(l, last, i))
             D == {d(i) : i \in 1..(last + 1)}
  <2> HIDE DEF d
  <2>1. [i \in 1..(last + 1) |-> d(i)] \in Seq(D) /\ Len([i \in 1..(last + 1) |-> d(i)]) = last + 1
    <3>1. /\ \A i \in 1..(last + 1) : d(i) \in D
          /\ last + 1 \in Nat
      OBVIOUS
    <3> HIDE DEF D
    <3> QED
      BY <3>1
  <2> HIDE DEF D
  <2> QED
    BY <2>1 DEF d, DigitsUpTo
<1>2. /\ From(written, last + 2) = rest /\ Len(written) >= last + 1 /\ Len(written) \in Nat
      /\ \A i \in 1..(last + 1) : written[i] = digits[i]
  <2>1. /\ From(written, Len(digits) + 1) = rest /\ Len(written) = Len(digits) + Len(rest)
        /\ Len(rest) \in Nat /\ \A i \in 1..Len(digits) : written[i] = digits[i]
    <3>1. Joined(digits, rest, written)
      BY <1>1, AfterFirst, Zenon
    <3> QED
      BY <3>1, Zenon DEF Joined
  <2>2. Len(digits) + 1 = last + 2
    BY <1>1
  <2> QED
    BY <1>1, <2>1, <2>2
<1>3. /\ \A i \in 1..last : CodeOf(written[i]) = (l[i - 1] % 128) + 128
      /\ CodeOf(written[last + 1]) = l[last]
  <2>1. /\ last + 1 \in 1..(last + 1) /\ last + 1 > last /\ (last + 1) - 1 = last
        /\ \A i \in 1..last : i \in 1..(last + 1) /\ ~ (i > last)
    OBVIOUS
  <2>2. \A i \in 1..(last + 1) : digits[i] = Byte(Coded(l, last, i))
    BY DEF DigitsUpTo
  <2>3. \A i \in 1..last : digits[i] = Byte((l[i - 1] % 128) + 128)
    BY <2>2, <2>1, Zenon DEF Coded
  <2>4. digits[last + 1] = Byte(l[last])
    BY <2>2, <2>1, Zenon DEF Coded
  <2>5. \A i \in 1..last : written[i] = Byte((l[i - 1] % 128) + 128)
    BY <1>2, <2>3, <2>1, Zenon
  <2>6. written[last + 1] = Byte(l[last])
    BY <1>2, <2>4, <2>1, Zenon
  <2> QED
    BY <2>5, <2>6, CodeOfByte
<1> DEFINE rd(k) == ReadFrom(written)[k]
           code(i) == CodeOf(written[i])
<1>4. ASSUME NEW i \in 1..10, i <= Len(written), code(i) < 128
      PROVE  rd(11 - i) = Reads(code(i), From(written, i + 1))
  <2>1. ReadsAt(written, i, code(i), rd(10 - i)) /\ ~ (i > Len(written))
    <3>1. ReadsAt(written, i, code(i), rd(10 - i))
      BY ReadPlaceByPlace, Zenon
    <3> HIDE DEF rd, code
    <3>2. i \in Nat /\ i <= Len(written)
      BY <1>4
    <3> QED
      BY <1>2, <3>1, <3>2
  <2> QED
    BY <1>4, <2>1, Zenon DEF ReadsAt
<1>5. ASSUME NEW i \in 1..10, i <= Len(written), code(i) \in Nat, code(i) >= 128, rd(10 - i).ok
      PROVE  rd(11 - i) = Reads((code(i) - 128) + 128 * rd(10 - i).value, rd(10 - i).rest)
  <2>1. ReadsAt(written, i, code(i), rd(10 - i)) /\ ~ (i > Len(written))
    <3>1. ReadsAt(written, i, code(i), rd(10 - i))
      BY ReadPlaceByPlace, Zenon
    <3> HIDE DEF rd, code
    <3>2. i \in Nat /\ i <= Len(written)
      BY <1>5
    <3> QED
      BY <1>2, <3>1, <3>2
  <2>2. ~ (code(i) < 128)
    BY <1>5
  <2> QED
    BY <1>5, <2>1, <2>2, Zenon DEF ReadsAt
<1> HIDE DEF rd, code
<1> DEFINE F == {k \in 0..last : rd(10 - (last - k)) = Reads(l[last - k], rest)}
<1>6. 0 \in F
  <2>1. /\ last + 1 \in 1..10 /\ 10 - (last - 0) = 11 - (last + 1)
        /\ last + 1 + 1 = last + 2 /\ last - 0 = last /\ 0 \in 0..last
    OBVIOUS
  <2>2. last + 1 <= Len(written) /\ code(last + 1) = l[last] /\ code(last + 1) < 128
    <3>1. code(last + 1) = l[last] /\ l[last] < 128
      BY <1>3, Zenon DEF code, FirstBelow
    <3>2. last + 1 <= Len(written)
      BY <1>2
    <3> QED
      BY <3>1, <3>2
  <2>3. rd(11 - (last + 1)) = Reads(code(last + 1), From(written, last + 1 + 1))
    BY <1>4, <2>1, <2>2
  <2>4. rd(10 - (last - 0)) = Reads(l[last - 0], rest)
    BY <1>2, <2>1, <2>2, <2>3
  <2> QED
    BY <2>1, <2>4
<1>7. ASSUME NEW k \in F, k < last
      PROVE  k + 1 \in F
  <2> DEFINE i == last - k
             was == l[i - 1]
             c == code(i)
  <2>1. /\ k \in 0..last /\ i \in 1..9 /\ i \in 1..10 /\ i \in 1..last /\ i - 1 \in 0..(last - 1)
        /\ last - (k + 1) = i - 1 /\ 10 - (i - 1) = 11 - i /\ 10 - (last - k) = 10 - i
        /\ k + 1 \in 0..last /\ i - 1 \in 0..9 /\ i <= last + 1
    BY <1>7
  <2>2. rd(10 - i) = Reads(l[i], rest)
    OBVIOUS
  <2> HIDE DEF i, F
  <2>3. was \in Nat /\ was >= 128 /\ l[i] = was \div 128
    <3>1. i \in 0..9 /\ i > 0
      BY <2>1
    <3> QED
      BY <2>1, <3>1, Zenon DEF Shifted, FirstBelow
  <2>4. c = (was % 128) + 128 /\ i <= Len(written)
    <3>1. c = (was % 128) + 128
      BY <1>3, <2>1, Zenon DEF code
    <3>2. i \in Nat /\ i <= last + 1 /\ Len(written) >= last + 1 /\ Len(written) \in Nat
      BY <1>2, <2>1
    <3> HIDE DEF was, c
    <3> QED
      BY <3>1, <3>2
  <2>5. rd(10 - i).ok /\ rd(10 - i).value = was \div 128 /\ rd(10 - i).rest = rest
    BY <2>2, <2>3 DEF Reads
  <2>6. c \in Nat /\ c >= 128 => rd(11 - i) = Reads((c - 128) + 128 * rd(10 - i).value, rd(10 - i).rest)
    BY <1>5, <2>1, <2>4, <2>5
  <2> HIDE DEF was, c
  <2>7. c \in Nat /\ c >= 128 /\ (c - 128) + 128 * (was \div 128) = was
    BY <2>3, <2>4
  <2>8. rd(11 - i) = Reads(was, rest)
    BY <2>5, <2>6, <2>7
  <2>9. rd(10 - (last - (k + 1))) = Reads(l[last - (k + 1)], rest)
    <3>1. 10 - (last - (k + 1)) = 11 - i
      BY <2>1
    <3>2. l[last - (k + 1)] = was
      BY <2>1 DEF was
    <3> QED
      BY <2>8, <3>1, <3>2, Zenon
  <2> QED
    BY <2>1, <2>9 DEF F
<1>8. last \in F
  <2>1. F \in SUBSET (0..last) /\ last \in Nat
    OBVIOUS
  <2> HIDE DEF F
  <2>2. F = 0..last
    BY <1>6, <1>7, <2>1, UpToLast
  <2> QED
    BY <2>1, <2>2
<1>9. rd(10) = Reads(l[0], rest)
  <2>1. last - last = 0 /\ 10 - 0 = 10
    OBVIOUS
  <2>2. rd(10 - (last - last)) = Reads(l[last - last], rest)
    BY <1>8
  <2> QED
    BY <2>1, <2>2
<1> QED
  BY <1>1, <1>9 DEF rd

\* What is written of a number is read again, whatever follows.
LEMMA VarintArrives ==
  ASSUME NEW n \in Nat, n < TwoTo64, NEW T, NEW rest \in Seq(T)
  PROVE  /\ VarintDecode(VarintEncode(n) \o rest) = Reads(n, rest)
         /\ \E D : VarintEncode(n) \in Seq(D)
<1> DEFINE l == Left(n)
           digits == VarintEncode(n)
           written == digits \o rest
<1>1. PICK last \in 0..9 : FirstBelow(l, last) /\ digits = DigitsUpTo(l, last)
  BY DigitsOf DEF FirstBelow, DigitsUpTo, Coded
<1>2. Shifted(l) /\ l[0] = n
  <2>1. ASSUME NEW i \in 0..9
        PROVE  l[i] \in Nat /\ (i > 0 => l[i] = l[i - 1] \div 128)
    <3>1. i > 0 => i \in 1..9
      OBVIOUS
    <3> HIDE DEF l
    <3> QED
      BY <3>1, SixtyFourBits, LeftGoesOn, Zenon DEF l
  <2>2. l[0] = n
    BY LeftGoesOn
  <2> HIDE DEF l
  <2> QED
    BY <2>1, <2>2 DEF Shifted
<1>3. written = digits \o rest
  OBVIOUS
<1>4. VarintDecode(written) = ReadFrom(written)[10]
  BY DEF VarintDecode, MaxDigits
<1> HIDE DEF l, digits, written
<1>5. ReadFrom(written)[10] = Reads(l[0], rest) /\ \E D : digits \in Seq(D)
  BY <1>1, <1>2, <1>3, DigitsRead
<1> QED
  BY <1>2, <1>4, <1>5 DEF written, digits

\* A length and as many bytes are read again, whatever follows: where the next value begins,
\* reader and writer agree at every length that there is in 64 bits.
THEOREM LengthValuesArrive ==
  ASSUME NEW S, NEW written \in Seq(S), Len(written) < TwoTo64, NEW T, NEW rest \in Seq(T)
  PROVE  ReadLengthValue(LengthValue(written) \o rest) = Reads(written, rest)
<1> DEFINE n == Len(written)
           both == written \o rest
           digits == VarintEncode(n)
<1>1. /\ n \in Nat /\ both \in Seq(S \cup T) /\ Len(rest) \in Nat
      /\ From(both, n + 1) = rest /\ SubSeq(both, 1, n) = written /\ Len(both) = n + Len(rest)
  <2>1. both \in Seq(S \cup T) /\ Joined(written, rest, both)
    BY AfterFirst, Zenon
  <2> HIDE DEF both
  <2> QED
    BY <2>1 DEF Joined
<1>2. n < TwoTo64
  OBVIOUS
<1>3. LengthValue(written) = digits \o written /\ both = written \o rest
  BY DEF LengthValue
<1> HIDE DEF both, n
<1>4. VarintDecode(digits \o both) = Reads(n, both) /\ \E D : digits \in Seq(D)
  BY <1>1, <1>2, VarintArrives
<1> HIDE DEF digits
<1>5. LengthValue(written) \o rest = digits \o both
  <2>1. PICK D : digits \in Seq(D)
    BY <1>4
  <2> DEFINE U == D \cup S \cup T
  <2>2. digits \in Seq(U) /\ written \in Seq(U) /\ rest \in Seq(U)
    BY <2>1
  <2> HIDE DEF U
  <2>3. (digits \o written) \o rest = digits \o (written \o rest)
    BY <2>2, ConcatAssociative
  <2> QED
    BY <1>3, <2>3
<1>6. Take(both, n) = Reads(written, rest)
  <2>1. ~ (Len(both) < n)
    BY <1>1
  <2> QED
    BY <1>1, <2>1, Zenon DEF Take
<1>7. ReadLengthValue(digits \o both) = Take(both, n)
  <2>1. Reads(n, both).ok /\ Reads(n, both).rest = both /\ Reads(n, both).value = n
    BY DEF Reads
  <2> QED
    BY <1>4, <2>1 DEF ReadLengthValue
<1> QED
  BY <1>5, <1>6, <1>7

\* There is a set of what is in the bytes of a length and a value.
LEMMA LengthValuesAreBytes ==
  ASSUME NEW S, NEW written \in Seq(S), Len(written) < TwoTo64
  PROVE  \E D : LengthValue(written) \in Seq(D)
<1> DEFINE digits == VarintEncode(Len(written))
<1>1. << >> \in Seq(S) /\ Len(written) \in Nat
  OBVIOUS
<1>2. PICK D : digits \in Seq(D)
  BY <1>1, VarintArrives
<1> HIDE DEF digits
<1>3. digits \o written \in Seq(D \cup S)
  BY <1>2, AfterFirst, Zenon
<1> QED
  BY <1>3, Zenon DEF LengthValue, digits

\* A tag, and what goes behind it.
Tagged(x, s, st) == st # << >> /\ Head(st) = x /\ Tail(st) = s

Before(x, s, t) == (<<x>> \o s) \o t = <<x>> \o (s \o t)

LEMMA TagOfBoth ==
  ASSUME NEW x, NEW S, NEW s \in Seq(S), NEW T, NEW t \in Seq(T)
  PROVE  Before(x, s, t)
<1> DEFINE U == {x} \cup S \cup T
<1>1. <<x>> \in Seq(U) /\ s \in Seq(U) /\ t \in Seq(U)
  OBVIOUS
<1> HIDE DEF U
<1> QED
  BY <1>1, ConcatAssociative DEF Before

LEMMA TagFirst ==
  ASSUME NEW x, NEW T, NEW t \in Seq(T)
  PROVE  Tagged(x, t, <<x>> \o t)
<1> DEFINE U == {x} \cup T
<1>1. <<x>> \in Seq(U) /\ t \in Seq(U)
  OBVIOUS
<1> HIDE DEF U
<1>2. Tagged(x, t, <<x>> \o t)
  <2> DEFINE st == <<x>> \o t
  <2>1. /\ st \in Seq(U) /\ Len(st) = 1 + Len(t) /\ Len(t) \in Nat
        /\ \A i \in 1..(1 + Len(t)) : st[i] = IF i <= 1 THEN x ELSE t[i - 1]
    BY <1>1, ConcatProperties
  <2> HIDE DEF st
  <2>2. st # << >> /\ Head(st) = x
    BY <2>1
  <2>3. /\ Tail(st) \in Seq(U) /\ Len(Tail(st)) = Len(st) - 1
        /\ \A i \in 1..Len(Tail(st)) : Tail(st)[i] = st[i + 1]
    BY <2>1, <2>2, HeadTailProperties
  <2>4. Tail(st) = t
    <3> DEFINE u == Tail(st)
    <3>1. u \in Seq(U) /\ Len(u) = Len(t)
      BY <2>1, <2>3
    <3>2. ASSUME NEW i \in 1..Len(t)
          PROVE  u[i] = t[i]
      <4>1. i + 1 \in 1..(1 + Len(t)) /\ ~ (i + 1 <= 1) /\ (i + 1) - 1 = i
        BY <2>1
      <4> QED
        BY <2>1, <2>3, <3>1, <4>1
    <3> HIDE DEF u
    <3>3. u = t
      BY <1>1, <3>1, <3>2, SeqEqual
    <3> QED
      BY <3>3 DEF u
  <2> QED
    BY <2>2, <2>4 DEF Tagged, st
<1> QED
  BY <1>2

LEMMA BytesAreOf ==
  ASSUME NEW v, NEW n \in Nat
  PROVE  /\ \E S : BytesOf(v, n) \in Seq(S)
         /\ Len(BytesOf(v, n)) = n
         /\ Whole(BytesOf(v, n), v)
         /\ n > 0 => "of" \in DOMAIN BytesOf(v, n)[1] /\ BytesOf(v, n)[1].of = v
<1> DEFINE part(i) == Part(v, i)
<1> HIDE DEF part
<1>1. /\ [i \in 1..n |-> part(i)] \in Seq({part(i) : i \in 1..n})
      /\ Len([i \in 1..n |-> part(i)]) = n
  <2> DEFINE D == {part(i) : i \in 1..n}
  <2>1. \A i \in 1..n : part(i) \in D
    OBVIOUS
  <2> HIDE DEF D
  <2>2. [i \in 1..n |-> part(i)] \in Seq(D) /\ Len([i \in 1..n |-> part(i)]) = n
    BY <2>1
  <2> QED
    BY <2>2 DEF D
<1>2. BytesOf(v, n) \in Seq({Part(v, i) : i \in 1..n}) /\ Len(BytesOf(v, n)) = n
  BY <1>1 DEF BytesOf, part
<1>3. Whole(BytesOf(v, n), v)
  BY <1>2, Zenon DEF Whole
<1>4. n > 0 => BytesOf(v, n)[1] = Part(v, 1)
  BY DEF BytesOf
<1>5. "of" \in DOMAIN Part(v, 1) /\ Part(v, 1).of = v
  BY DEF Part
<1> QED
  BY <1>2, <1>3, <1>4, <1>5, Zenon

LEMMA KindsOfValues ==
  /\ KindOf(Null) = "null" /\ \A b : KindOf(Bool(b)) = "bool" /\ KindOf(Obj(b)) = "object"
  /\ \A n : KindOf(Num(n)) = "number" /\ KindOf(Str(n)) = "string" /\ KindOf(Text(n)) = "text"
BY DEF KindOf, Null, Bool, Obj, Num, Str, Text

\* A string that fits 64 bits of length, and is the empty one when that is 0.
Fits(s) ==
  /\ IsString(s) /\ LengthOf(s) \in Nat /\ LengthOf(s) < TwoTo64
  /\ LengthOf(s) = 0 => s = Str("")

\* A string is read again, whatever follows.
LEMMA StringsArrive ==
  ASSUME NEW s, Fits(s), NEW T, NEW rest \in Seq(T)
  PROVE  DeserializeScalar(StringToBytes(s) \o rest) = Reads(s, rest)
<1> DEFINE n == LengthOf(s)
           content == BytesOf(s, n)
           lv == LengthValue(content)
           behind == lv \o rest
           written == StringToBytes(s) \o rest
<1>1. n \in Nat /\ n < TwoTo64 /\ IsString(s) /\ (n = 0 => s = Str(""))
  BY DEF Fits
<1> HIDE DEF n
<1>2. PICK S : content \in Seq(S) /\ Len(content) = n /\ Whole(content, s)
               /\ (n > 0 => "of" \in DOMAIN content[1] /\ content[1].of = s)
  BY <1>1, BytesAreOf, Zenon
<1> HIDE DEF content
<1>3. Len(content) < TwoTo64
  BY <1>1, <1>2
<1>4. ReadLengthValue(behind) = Reads(content, rest) /\ \E D : lv \in Seq(D)
  BY <1>2, <1>3, LengthValuesArrive, LengthValuesAreBytes
<1>5. StringToBytes(s) = <<Byte(String)>> \o lv
  BY Zenon DEF StringToBytes, lv, content, n
<1> HIDE DEF lv
<1>6. Tagged(Byte(String), behind, written)
  <2>1. PICK D : lv \in Seq(D)
    BY <1>4
  <2>2. behind \in Seq(D \cup T)
    BY <2>1, AfterFirst, Zenon
  <2>3. Before(Byte(String), lv, rest)
    BY <2>1, TagOfBoth, Zenon
  <2>4. written = <<Byte(String)>> \o behind
    BY <1>5, <2>3, Zenon DEF Before
  <2> HIDE DEF behind, written
  <2> QED
    BY <2>2, <2>4, TagFirst, Zenon
<1> HIDE DEF behind, written
<1>7. CodeOf(Head(written)) = 4 /\ Tail(written) = behind /\ written # << >>
  BY <1>6, CodeOfByte DEF Tagged, String
<1>8. StringOf(content, rest) = Reads(s, rest)
  <2>1. n \in Nat
    BY <1>1, Zenon
  <2>2. CASE n = 0
    <3>1. content = << >>
      BY <1>2, <2>2
    <3> QED
      BY <1>1, <2>2, <3>1 DEF StringOf
  <2>3. CASE n > 0
    <3>1. content # << >>
      <4>1. content = << >> => n = 0
        BY <1>2, EmptySeq, Zenon
      <4> QED
        BY <2>3, <4>1
    <3>2. LengthOf(s) = Len(content)
      BY <1>2 DEF n
    <3> QED
      BY <1>1, <1>2, <2>3, <3>1, <3>2, Zenon DEF StringOf
  <2>4. n = 0 \/ n > 0
    BY <2>1
  <2> QED
    BY <2>2, <2>3, <2>4
<1>9. DeserializeScalar(written) = StringOf(content, rest)
  <2>1. ReadLengthValue(Tail(written)).ok /\ ReadLengthValue(Tail(written)).value = content
        /\ ReadLengthValue(Tail(written)).rest = rest
    <3>1. ReadLengthValue(Tail(written)) = Reads(content, rest)
      BY <1>4, <1>7, Zenon
    <3>2. Reads(content, rest).ok /\ Reads(content, rest).value = content /\ Reads(content, rest).rest = rest
      BY DEF Reads
    <3> QED
      BY <3>1, <3>2, Zenon
  <2>2. CodeOf(Head(written)) # Nil /\ CodeOf(Head(written)) \notin Known8
    BY <1>7 DEF Nil, Known8, Int64
  <2> QED
    BY <1>7, <2>1, <2>2, Zenon DEF DeserializeScalar
<1> QED
  BY <1>8, <1>9 DEF written

\* An integer is read again, whatever follows.
LEMMA IntegersArrive ==
  ASSUME NEW m, NEW T, NEW rest \in Seq(T)
  PROVE  DeserializeScalar((<<Byte(Int64)>> \o BytesOf(Num(m), 8)) \o rest) = Reads(Num(m), rest)
<1> DEFINE v == Num(m)
           content == BytesOf(v, 8)
           behind == content \o rest
           written == (<<Byte(Int64)>> \o content) \o rest
<1>1. ~ IsString(v)
  BY KindsOfValues DEF IsString
<1> HIDE DEF v
<1>2. PICK S : content \in Seq(S) /\ Len(content) = 8 /\ Whole(content, v)
               /\ "of" \in DOMAIN content[1] /\ content[1].of = v
  <2>1. 8 \in Nat /\ 8 > 0
    OBVIOUS
  <2> QED
    BY <2>1, BytesAreOf, Zenon
<1> HIDE DEF content
<1>3. behind \in Seq(S \cup T) /\ Joined(content, rest, behind)
  BY <1>2, AfterFirst, Zenon
<1>4. Tagged(Byte(Int64), behind, written)
  <2>1. written = <<Byte(Int64)>> \o behind
    <3>1. Before(Byte(Int64), content, rest)
      BY <1>2, TagOfBoth, Zenon
    <3> QED
      BY <3>1, Zenon DEF Before
  <2> HIDE DEF behind, written
  <2> QED
    BY <1>3, <2>1, TagFirst, Zenon
<1> HIDE DEF behind, written
<1>5. CodeOf(Head(written)) = 2 /\ Tail(written) = behind /\ written # << >>
  BY <1>4, CodeOfByte DEF Tagged, Int64
<1>6. Take(behind, 8) = Reads(content, rest)
  <2>1. ~ (Len(behind) < 8) /\ SubSeq(behind, 1, 8) = content /\ From(behind, 8 + 1) = rest
    BY <1>2, <1>3 DEF Joined
  <2> QED
    BY <2>1, Zenon DEF Take
<1>7. NumberOf(content, rest) = Reads(v, rest)
  BY <1>1, <1>2, Zenon DEF NumberOf
<1>8. DeserializeScalar(written) = NumberOf(content, rest)
  <2>1. /\ Take(Tail(written), 8).ok /\ Take(Tail(written), 8).value = content
        /\ Take(Tail(written), 8).rest = rest
    <3>1. Take(Tail(written), 8) = Reads(content, rest)
      BY <1>5, <1>6, Zenon
    <3>2. Reads(content, rest).ok /\ Reads(content, rest).value = content /\ Reads(content, rest).rest = rest
      BY DEF Reads
    <3> QED
      BY <3>1, <3>2, Zenon
  <2>2. CodeOf(Head(written)) # Nil /\ CodeOf(Head(written)) \in Known8
    BY <1>5 DEF Nil, Known8, Int64
  <2> QED
    BY <1>5, <2>1, <2>2, Zenon DEF DeserializeScalar
<1> QED
  BY <1>7, <1>8 DEF written, content, v

\* Null is read again, whatever follows.
LEMMA NullArrives ==
  ASSUME NEW T, NEW rest \in Seq(T)
  PROVE  DeserializeScalar(<<Byte(Nil)>> \o rest) = Reads(Null, rest)
<1> DEFINE written == <<Byte(Nil)>> \o rest
<1>1. Tagged(Byte(Nil), rest, written)
  BY TagFirst, Zenon
<1> HIDE DEF written
<1>2. CodeOf(Head(written)) = Nil /\ Nil \notin Known8 /\ Tail(written) = rest /\ written # << >>
  BY <1>1, CodeOfByte DEF Tagged, Nil, Known8, Int64
<1>3. DeserializeScalar(written) = Reads(Null, rest)
  BY <1>2, Zenon DEF DeserializeScalar
<1> QED
  BY <1>3 DEF written

\* The values that are no array: what goes as a string has a text that fits.
Scalar(v) ==
  \/ v = Null
  \/ \E m : v = Num(m)
  \/ Fits(v)
  \/ \E b : v \in {Bool(b), Obj(b)} /\ Fits(Text(v))

\* What is written of a value that is no array is read again as what ScalarArrives says of it,
\* and what follows is left: serialize and deserialize agree on where each value ends.
THEOREM ScalarsArrive ==
  ASSUME NEW v, Scalar(v), NEW T, NEW rest \in Seq(T)
  PROVE  DeserializeScalar(SerializeScalar(v) \o rest) = Reads(ScalarArrives(v), rest)
<1>1. CASE v = Null
  <2>1. SerializeScalar(v) = <<Byte(Nil)>> /\ ScalarArrives(v) = v
    BY <1>1, KindsOfValues DEF SerializeScalar, ScalarArrives, IsString
  <2> QED
    BY <1>1, <2>1, NullArrives
<1>2. CASE \E m : v = Num(m)
  <2>1. PICK m : v = Num(m)
    BY <1>2
  <2>2. SerializeScalar(v) = <<Byte(Int64)>> \o BytesOf(v, 8) /\ ScalarArrives(v) = v
    BY <2>1, KindsOfValues DEF SerializeScalar, ScalarArrives, IsString
  <2> QED
    BY <2>1, <2>2, IntegersArrive
<1>3. CASE Fits(v)
  <2>1. KindOf(v) \in {"string", "text"}
    BY <1>3 DEF Fits, IsString
  <2>2. SerializeScalar(v) = StringToBytes(v) /\ ScalarArrives(v) = v
    BY <2>1 DEF SerializeScalar, ScalarArrives, IsString
  <2> QED
    BY <1>3, <2>2, StringsArrive
<1>4. CASE \E b : v \in {Bool(b), Obj(b)} /\ Fits(Text(v))
  <2>1. KindOf(v) \in {"bool", "object"} /\ Fits(Text(v))
    BY <1>4, KindsOfValues
  <2>2. SerializeScalar(v) = StringToBytes(Text(v)) /\ ScalarArrives(v) = Text(v)
    BY <2>1 DEF SerializeScalar, ScalarArrives, IsString
  <2> QED
    BY <2>1, <2>2, StringsArrive
<1> QED
  BY <1>1, <1>2, <1>3, <1>4 DEF Scalar
=============================================================================
