-------------------------- MODULE PollServer_proof --------------------------
(***************************************************************************)
(* Theorems about PollServer: the types of its state, that neither of a    *)
(* host's two times moves past a message that has not arrived, for any     *)
(* number of overlapping calls, any messages and any number of failures,   *)
(* and which messages a call that is alone and does not fail can repeat.   *)
(***************************************************************************)
EXTENDS PollServer, FiniteSetTheorems, TLAPS

-----------------------------------------------------------------------------
\* There is always a PeerInfo that neither the table nor a call refers to.
LEMMA FreshIsFree == Fresh \in PeerInfos /\ Fresh \notin InUse
<1> DEFINE peerOf == [p \in Polls |-> call[p].peer]
           held   == {call[p].peer : p \in Polls}
<1>1. IsFiniteSet(held) /\ Cardinality(held) <= Cardinality(Polls)
  <2>1. peerOf \in Surjection(Polls, held)
    BY DEF Surjection
  <2>2. QED
    BY <2>1, FS_Surjection, PollServerAssumption
<1>2. /\ IsFiniteSet(held \cup {table})
      /\ Cardinality(held \cup {table}) <= Cardinality(held) + 1
  BY <1>1, FS_AddElement, FS_CardinalityType
<1>3. InUse = held \cup {table}
  BY DEF InUse
<1>4. Cardinality(InUse) < Cardinality(PeerInfos)
  <2> DEFINE a == Cardinality(InUse)
             b == Cardinality(held)
             c == Cardinality(Polls)
             d == Cardinality(PeerInfos)
  <2>1. a \in Nat /\ b \in Nat /\ c \in Nat /\ d \in Nat
    BY <1>1, <1>2, <1>3, FS_CardinalityType, PollServerAssumption
  <2>2. a <= b + 1 /\ b <= c /\ d >= c + 2
    BY <1>1, <1>2, <1>3, PollServerAssumption
  <2> HIDE DEF a, b, c, d
  <2>3. a < d
    BY <2>1, <2>2
  <2>4. QED
    BY <2>3 DEF a, d
<1>5. \E o \in PeerInfos : o \notin InUse
  <2> SUFFICES ASSUME PeerInfos \subseteq InUse PROVE FALSE
    OBVIOUS
  <2>1. Cardinality(PeerInfos) <= Cardinality(InUse)
    BY <1>2, <1>3, FS_Subset
  <2>2. Cardinality(PeerInfos) \in Nat /\ Cardinality(InUse) \in Nat
    BY <1>2, <1>3, FS_CardinalityType, PollServerAssumption
  <2>3. QED
    BY <1>4, <2>1, <2>2
<1>6. QED
  BY <1>5 DEF Fresh

\* A PeerInfo made or swept away is a new one, and the others stay.
LEMMA SweptInfos ==
  ASSUME NEW objects \in [PeerInfos -> Infos], NEW t, NEW cs
  PROVE  /\ Swept(objects, t, cs) \in [PeerInfos -> Infos]
         /\ \A o \in PeerInfos : \/ Swept(objects, t, cs)[o] = objects[o]
                                 \/ Swept(objects, t, cs)[o] = NewInfo
<1>1. NewInfo \in Infos
  BY DEF NewInfo, Infos
<1>2. QED
  BY <1>1 DEF Swept

\* The bundle a node answers with.
LEMMA BundleTyped ==
  ASSUME TypeOK, NEW msgs, msgs \subseteq Up \cup Down, NEW since
  PROVE  Bundle(msgs, since) \in Bundles(msgs) /\ Bundle(msgs, since) # None
<1>1. now \in Nat
  BY PollServerAssumption DEF TypeOK
<1>2. Bundle(msgs, since) \in Bundles(msgs)
  BY <1>1 DEF Bundle, Bundles
<1>3. QED
  BY <1>2, PollServerAssumption DEF Bundles

\* What a call's record holds, field by field.
LEMMA CallFields ==
  ASSUME TypeOK, NEW p \in Polls
  PROVE  /\ call[p] \in Calls
         /\ call[p].pc \in Labels
         /\ call[p].peer \in PeerInfos \cup {None}
         /\ call[p].since \in Nat \cup {None}
         /\ call[p].toRemote \in Bundles(Up) \cup {None}
         /\ call[p].toLocal \in Bundles(Down) \cup {None}
         /\ Equipped(call[p])
<1>1. call[p] \in Calls /\ Equipped(call[p])
  BY DEF TypeOK
<1>2. QED
  BY <1>1 DEF Calls

\* What it holds at another label.
LEMMA MovedFields ==
  ASSUME NEW c \in Calls, NEW label \in Labels
  PROVE  LET d == [c EXCEPT !.pc = label]
         IN  /\ d \in Calls
             /\ d.pc = label /\ d.peer = c.peer /\ d.since = c.since
             /\ d.toRemote = c.toRemote /\ d.toLocal = c.toLocal
BY DEF Calls

\* A call that goes to a label where it needs what it has.
LEMMA CallGoes ==
  ASSUME TypeOK, NEW p \in Polls, NEW label \in Labels, Goto(p, label),
         Equipped([call[p] EXCEPT !.pc = label])
  PROVE  call' \in [Polls -> Calls] /\ \A q \in Polls : Equipped(call'[q])
<1>1. call' = [call EXCEPT ![p] = [call[p] EXCEPT !.pc = label]]
  BY DEF Goto
<1>2. [call[p] EXCEPT !.pc = label] \in Calls
  BY CallFields, MovedFields
<1>3. QED
  BY <1>1, <1>2 DEF TypeOK

\* A call that ends.
LEMMA CallEnds ==
  ASSUME TypeOK, NEW p \in Polls, call' = [call EXCEPT ![p] = Idle]
  PROVE  call' \in [Polls -> Calls] /\ \A q \in Polls : Equipped(call'[q])
<1>1. Idle \in Calls /\ Equipped(Idle)
  BY DEF Idle, Calls, Equipped, Labels
<1>2. QED
  BY <1>1 DEF TypeOK

\* The types at the end of a call, with or without an error.
LEMMA EndTyped ==
  ASSUME TypeOK, NEW p \in Polls, NEW objects \in [PeerInfos -> Infos], End(p, objects)
  PROVE  /\ table' = table
         /\ info' \in [PeerInfos -> Infos]
         /\ call' \in [Polls -> Calls] /\ \A q \in Polls : Equipped(call'[q])
BY CallEnds, SweptInfos DEF End

\* A panic ends its task, or all tasks and the table with them.
LEMMA PanicEnds ==
  ASSUME NEW p \in Polls, Panic(p)
  PROVE  UNCHANGED nodes /\ ((End(p, info) /\ UNCHANGED world) \/ Abort)
BY DEF Panic, Unwind

\* The types when the program is over.
LEMMA AbortTyped ==
  ASSUME Abort
  PROVE  /\ table' = None /\ process' = "over" /\ UNCHANGED <<faults, overlap>>
         /\ info' \in [PeerInfos -> Infos]
         /\ call' \in [Polls -> Calls] /\ \A q \in Polls : Equipped(call'[q])
<1>1. NewInfo \in Infos
  BY DEF NewInfo, Infos
<1>2. Idle \in Calls /\ Equipped(Idle)
  BY DEF Idle, Calls, Equipped, Labels
<1>3. QED
  BY <1>1, <1>2 DEF Abort

\* The initial state has the types.
LEMMA InitTypes == Init => TypeOK
<1> SUFFICES ASSUME Init PROVE TypeOK
  OBVIOUS
<1>1. Idle \in Calls /\ Equipped(Idle)
  BY DEF Idle, Calls, Equipped, Labels
<1>2. NewInfo \in Infos
  BY DEF NewInfo, Infos
<1>3. /\ call \in [Polls -> Calls] /\ \A p \in Polls : Equipped(call[p])
      /\ info \in [PeerInfos -> Infos]
  BY <1>1, <1>2 DEF Init
<1>4. 0 \in 0 .. MaxNow /\ 0 \in 0 .. MaxFaults
  BY PollServerAssumption
<1>5. QED
  BY <1>3, <1>4 DEF Init, TypeOK

\* The rest of the type invariant, for a step that does what the assumptions say.
LEMMA TypesKept ==
  ASSUME TypeOK,
         now' \in 0 .. MaxNow,
         stamp' \in [Up \cup Down -> Nat \cup {None}],
         table' \in PeerInfos \cup {None},
         info' \in [PeerInfos -> Infos],
         call' \in [Polls -> Calls] /\ \A q \in Polls : Equipped(call'[q]),
         atRemote' \subseteq Up, atLocal' \subseteq Down,
         faults' \in 0 .. MaxFaults, overlap' \in BOOLEAN,
         process' \in {"unwinds", "aborts", "over"}
  PROVE  TypeOK'
BY DEF TypeOK

\* Every step keeps the types.
LEMMA StepTypes ==
  ASSUME TypeOK, [Next]_vars
  PROVE  TypeOK'
<1> USE PollServerAssumption
<1>0. /\ now \in 0 .. MaxNow /\ now \in Nat /\ MaxNow \in Nat
      /\ stamp \in [Up \cup Down -> Nat \cup {None}]
      /\ table \in PeerInfos \cup {None}
      /\ info \in [PeerInfos -> Infos]
      /\ call \in [Polls -> Calls] /\ \A q \in Polls : Equipped(call[q])
      /\ atRemote \subseteq Up /\ atLocal \subseteq Down
      /\ faults \in 0 .. MaxFaults /\ overlap \in BOOLEAN
      /\ process \in {"unwinds", "aborts", "over"}
  BY DEF TypeOK
<1>1. CASE Tick
  BY <1>0, <1>1, TypesKept DEF Tick, peers, world
<1>2. ASSUME NEW m \in Up \cup Down, SendMsg(m)
      PROVE  TypeOK'
  BY <1>0, <1>2, TypesKept DEF SendMsg, peers, world
<1>3. ASSUME NEW p \in Polls, Begin(p)
      PROVE  TypeOK'
  <2> DEFINE label == IF table = None THEN "create" ELSE "load"
  <2>1. label \in Labels /\ Goto(p, label)
    BY <1>3 DEF Begin, Labels
  <2>2. Equipped([call[p] EXCEPT !.pc = label])
    BY <1>3, <2>1, CallFields, MovedFields DEF Begin, Equipped
  <2>3. call' \in [Polls -> Calls] /\ \A q \in Polls : Equipped(call'[q])
    BY <2>1, <2>2, CallGoes
  <2>4. QED
    BY <1>0, <1>3, <2>3, TypesKept DEF Begin, nodes, peers
<1>4. ASSUME NEW p \in Polls, Create(p)
      PROVE  TypeOK'
  <2>1. "load" \in Labels /\ Goto(p, "load")
    BY <1>4 DEF Create, Labels
  <2>2. Equipped([call[p] EXCEPT !.pc = "load"])
    BY <1>4, <2>1, CallFields, MovedFields DEF Create, Equipped
  <2>3. call' \in [Polls -> Calls] /\ \A q \in Polls : Equipped(call'[q])
    BY <2>1, <2>2, CallGoes
  <2>4. info' \in [PeerInfos -> Infos] /\ table' \in PeerInfos
    BY <1>0, <1>4, SweptInfos, FreshIsFree DEF Create
  <2>5. QED
    BY <1>0, <1>4, <2>3, <2>4, TypesKept DEF Create, nodes, world
<1>5. ASSUME NEW p \in Polls, Load(p)
      PROVE  TypeOK'
  <2> DEFINE c == [call[p] EXCEPT !.peer = table,
                                  !.pc = IF info[table].key THEN "pickup" ELSE "key"]
  <2>1. call' = [call EXCEPT ![p] = c]
    BY <1>5 DEF Load
  <2>2. c \in Calls /\ Equipped(c)
    BY <1>0, <1>5, CallFields DEF Load, Calls, Labels, Equipped
  <2>3. QED
    BY <1>0, <1>5, <2>1, <2>2, TypesKept DEF Load, nodes, peers, world
<1>6. ASSUME NEW p \in Polls, GetKey(p)
      PROVE  TypeOK'
  <2>1. "pickup" \in Labels /\ Goto(p, "pickup")
    BY <1>6 DEF GetKey, Labels
  <2>2. Equipped([call[p] EXCEPT !.pc = "pickup"])
    BY <1>6, <2>1, CallFields, MovedFields DEF GetKey, Equipped, HasData
  <2>3. call' \in [Polls -> Calls] /\ \A q \in Polls : Equipped(call'[q])
    BY <2>1, <2>2, CallGoes
  <2>4. [info EXCEPT ![Fresh] = [info[call[p].peer] EXCEPT !.key = TRUE]]
          \in [PeerInfos -> Infos]
    <3>1. call[p].peer \in PeerInfos
      BY <1>6, CallFields DEF GetKey, Equipped
    <3>2. [info[call[p].peer] EXCEPT !.key = TRUE] \in Infos
      BY <1>0, <3>1 DEF Infos
    <3>3. QED
      BY <1>0, <3>2
  <2>5. info' \in [PeerInfos -> Infos] /\ table' \in PeerInfos
    BY <1>6, <2>4, SweptInfos, FreshIsFree DEF GetKey
  <2>6. QED
    BY <1>0, <1>6, <2>3, <2>5, TypesKept DEF GetKey, nodes, world
<1>7. ASSUME NEW p \in Polls, Panic(p)
      PROVE  TypeOK'
  <2>1. CASE End(p, info) /\ UNCHANGED world
    BY <1>0, <1>7, <2>1, EndTyped, PanicEnds, TypesKept DEF nodes, world
  <2>2. CASE Abort
    BY <1>0, <1>7, <2>2, AbortTyped, PanicEnds, TypesKept DEF nodes
  <2>3. QED
    BY <1>7, <2>1, <2>2, PanicEnds
<1>8. ASSUME NEW p \in Polls, PickupLocal(p)
      PROVE  TypeOK'
  <2> DEFINE c == [call[p] EXCEPT !.pc = "ask", !.since = info[call[p].peer].remote,
                                  !.toRemote = Bundle(Up, info[call[p].peer].local)]
  <2>1. call' = [call EXCEPT ![p] = c]
    BY <1>8 DEF PickupLocal
  <2>0. /\ Bundle(Up, info[call[p].peer].local) \in Bundles(Up)
        /\ Bundle(Up, info[call[p].peer].local) # None
        /\ info[call[p].peer].remote \in Nat
    <3>1. call[p].peer \in PeerInfos
      BY <1>8, CallFields DEF PickupLocal, Equipped
    <3>2. QED
      BY <1>0, <3>1, BundleTyped DEF Infos
  <2>2. c \in Calls /\ Equipped(c)
    BY <1>8, <2>0, CallFields DEF PickupLocal, Calls, Labels, Equipped
  <2>3. call' \in [Polls -> Calls] /\ \A q \in Polls : Equipped(call'[q])
    BY <1>0, <2>1, <2>2
  <2>4. QED
    BY <1>0, <1>8, <2>3, TypesKept DEF PickupLocal, nodes, peers, world
<1>9. ASSUME NEW p \in Polls, PickupRemote(p)
      PROVE  TypeOK'
  <2> DEFINE c == [call[p] EXCEPT !.pc = "hand", !.since = None,
                                  !.toLocal = Bundle(Down, call[p].since)]
  <2>1. call' = [call EXCEPT ![p] = c]
    BY <1>9 DEF PickupRemote
  <2>0. Bundle(Down, call[p].since) \in Bundles(Down) /\ Bundle(Down, call[p].since) # None
    BY BundleTyped
  <2>2. c \in Calls /\ Equipped(c)
    BY <1>9, <2>0, CallFields DEF PickupRemote, Calls, Labels, Equipped
  <2>3. call' \in [Polls -> Calls] /\ \A q \in Polls : Equipped(call'[q])
    BY <1>0, <2>1, <2>2
  <2>4. QED
    BY <1>0, <1>9, <2>3, TypesKept DEF PickupRemote, nodes, peers, world
<1>10. ASSUME NEW p \in Polls, NoBundle(p)
      PROVE  TypeOK'
  <2> DEFINE c == [call[p] EXCEPT !.pc = "hand", !.since = None]
  <2>1. call' = [call EXCEPT ![p] = c]
    BY <1>10 DEF NoBundle
  <2>2. c \in Calls /\ Equipped(c)
    BY <1>10, CallFields DEF NoBundle, Calls, Labels, Equipped
  <2>3. call' \in [Polls -> Calls] /\ \A q \in Polls : Equipped(call'[q])
    BY <1>0, <2>1, <2>2
  <2>4. QED
    BY <1>0, <1>10, <2>3, TypesKept DEF NoBundle, nodes, peers, world, Fault
<1>11. ASSUME NEW p \in Polls, DropoffRemote(p)
      PROVE  TypeOK'
  <2>1. "count" \in Labels /\ Goto(p, "count")
    BY <1>11 DEF DropoffRemote, Labels
  <2>2. Equipped([call[p] EXCEPT !.pc = "count"])
    BY <1>11, <2>1, CallFields, MovedFields DEF DropoffRemote, Equipped, HasData
  <2>3. call' \in [Polls -> Calls] /\ \A q \in Polls : Equipped(call'[q])
    BY <2>1, <2>2, CallGoes
  <2>4. atRemote' \subseteq Up
    BY <1>0, <1>11, CallFields DEF DropoffRemote, HasData, Bundles
  <2>5. QED
    BY <1>0, <1>11, <2>3, <2>4, TypesKept DEF DropoffRemote, peers, world
<1>12. ASSUME NEW p \in Polls, SkipDropoff(p)
      PROVE  TypeOK'
  <2> DEFINE c == [call[p] EXCEPT !.pc = "take", !.toRemote = None]
  <2>1. call' = [call EXCEPT ![p] = c]
    BY <1>12 DEF SkipDropoff
  <2>2. c \in Calls /\ Equipped(c)
    BY <1>12, CallFields DEF SkipDropoff, Calls, Labels, Equipped
  <2>3. call' \in [Polls -> Calls] /\ \A q \in Polls : Equipped(call'[q])
    BY <1>0, <2>1, <2>2
  <2>4. QED
    BY <1>0, <1>12, <2>3, TypesKept DEF SkipDropoff, nodes, peers, world
<1>13. ASSUME NEW p \in Polls, AnswerLost(p)
      PROVE  TypeOK'
  <2>1. End(p, info)
    BY <1>13 DEF AnswerLost
  <2>2. atRemote' \subseteq Up
    BY <1>0, <1>13, CallFields DEF AnswerLost, HasData, Bundles
  <2>3. QED
    BY <1>0, <1>13, <2>1, <2>2, EndTyped, TypesKept DEF AnswerLost, Fault
<1>14. ASSUME NEW p \in Polls, CountSent(p)
      PROVE  TypeOK'
  <2> DEFINE c == [call[p] EXCEPT !.pc = "take", !.toRemote = None]
  <2>1. call' = [call EXCEPT ![p] = c]
    BY <1>14 DEF CountSent
  <2>2. c \in Calls /\ Equipped(c)
    BY <1>14, CallFields DEF CountSent, Calls, Labels, Equipped
  <2>3. call' \in [Polls -> Calls] /\ \A q \in Polls : Equipped(call'[q])
    BY <1>0, <2>1, <2>2
  <2>4. info' \in [PeerInfos -> Infos]
    <3>1. call[p].peer \in PeerInfos /\ call[p].toRemote \in Bundles(Up)
      BY <1>14, CallFields DEF CountSent, Equipped
    <3>2. /\ info[call[p].peer] \in Infos /\ call[p].toRemote.time \in Nat
          /\ Counted(info[call[p].peer].tx) \in 0 .. 2
      BY <1>0, <3>1 DEF Infos, Bundles, Counted
    <3> DEFINE mine  == info[call[p].peer]
               moved == IF mine.tx > 0 THEN call[p].toRemote.time ELSE mine.local
               after == [mine EXCEPT !.local = moved, !.tx = Counted(mine.tx)]
    <3>3. moved \in Nat /\ Counted(mine.tx) \in 0 .. 2
      BY <3>2 DEF Infos
    <3>4. after \in Infos
      BY <3>2, <3>3 DEF Infos
    <3>5. info' = [info EXCEPT ![call[p].peer] = after]
      BY <1>14 DEF CountSent
    <3>6. QED
      BY <1>0, <3>4, <3>5
  <2>5. QED
    BY <1>0, <1>14, <2>3, <2>4, TypesKept DEF CountSent, nodes, world
<1>15. ASSUME NEW p \in Polls, DropoffLocal(p)
      PROVE  TypeOK'
  <2>1. "record" \in Labels /\ Goto(p, "record")
    BY <1>15 DEF DropoffLocal, Labels
  <2>2. Equipped([call[p] EXCEPT !.pc = "record"])
    BY <1>15, <2>1, CallFields, MovedFields DEF DropoffLocal, Equipped, HasData
  <2>3. call' \in [Polls -> Calls] /\ \A q \in Polls : Equipped(call'[q])
    BY <2>1, <2>2, CallGoes
  <2>4. atLocal' \subseteq Down
    BY <1>0, <1>15, CallFields DEF DropoffLocal, HasData, Bundles
  <2>5. QED
    BY <1>0, <1>15, <2>3, <2>4, TypesKept DEF DropoffLocal, peers, world
<1>16. ASSUME NEW p \in Polls, EndWithout(p)
      PROVE  TypeOK'
  <2>1. End(p, info)
    BY <1>16 DEF EndWithout
  <2>2. QED
    BY <1>0, <1>16, <2>1, EndTyped, TypesKept DEF EndWithout, nodes, world
<1>17. ASSUME NEW p \in Polls, RecordReceived(p)
      PROVE  TypeOK'
  <2> DEFINE objects == [info EXCEPT ![call[p].peer].remote = call[p].toLocal.time]
  <2>1. End(p, objects)
    BY <1>17 DEF RecordReceived
  <2>2. objects \in [PeerInfos -> Infos]
    <3>1. call[p].peer \in PeerInfos /\ call[p].toLocal \in Bundles(Down)
      BY <1>17, CallFields DEF RecordReceived, Equipped
    <3>2. QED
      BY <1>0, <3>1 DEF Infos, Bundles
  <2>3. QED
    BY <1>0, <1>17, <2>1, <2>2, EndTyped, TypesKept DEF RecordReceived, nodes, world
<1>18. ASSUME NEW p \in Polls, Fail(p)
      PROVE  TypeOK'
  <2>1. End(p, info)
    BY <1>18 DEF Fail
  <2>2. QED
    BY <1>0, <1>18, <2>1, EndTyped, TypesKept DEF Fail, Fault, nodes
<1>19. CASE AddPeer
  <2>1. info' \in [PeerInfos -> Infos] /\ table' \in PeerInfos
    BY <1>0, <1>19, SweptInfos, FreshIsFree DEF AddPeer
  <2>2. QED
    BY <1>0, <1>19, <2>1, TypesKept DEF AddPeer, Fault, nodes
<1>20. CASE RemovePeer
  <2>1. info' \in [PeerInfos -> Infos] /\ table' = None
    BY <1>0, <1>20, SweptInfos DEF RemovePeer
  <2>2. QED
    BY <1>0, <1>20, <2>1, TypesKept DEF RemovePeer, Fault, nodes
<1>21. CASE UNCHANGED vars
  BY <1>0, <1>21, TypesKept DEF vars, nodes, peers, world
<1>22. QED
  BY <1>1, <1>2, <1>3, <1>4, <1>5, <1>6, <1>7, <1>8, <1>9, <1>10, <1>11, <1>12, <1>13, <1>14,
     <1>15, <1>16, <1>17, <1>18, <1>19, <1>20, <1>21 DEF Next, Step

\* The types of the state, whatever overlaps and fails.
THEOREM TypeCorrect == Spec => []TypeOK
BY InitTypes, StepTypes, PTL DEF Spec
-----------------------------------------------------------------------------
\* The messages that a time has moved past are there.
Passed(msgs, time, there) ==
  \A m \in msgs : stamp[m] # None /\ stamp[m] < time => m \in there

\* No time is later than the clock, and what a PeerInfo's times have moved past has
\* arrived.
InfoGood(o) ==
  /\ info[o].local <= now /\ Passed(Up, info[o].local, atRemote)
  /\ info[o].remote <= now /\ Passed(Down, info[o].remote, atLocal)

\* What the times that a call is going to set have moved past has arrived or is in the
\* call's bundle, and in the end it has arrived.
CallGood(p) ==
  /\ call[p].since # None =>
       call[p].since <= now /\ Passed(Down, call[p].since, atLocal)
  /\ call[p].toRemote # None =>
       /\ call[p].toRemote.time <= now
       /\ Passed(Up, call[p].toRemote.time, atRemote \cup call[p].toRemote.data)
       /\ call[p].pc = "count" => call[p].toRemote.data \subseteq atRemote
  /\ call[p].toLocal # None =>
       /\ call[p].toLocal.time <= now
       /\ Passed(Down, call[p].toLocal.time, atLocal \cup call[p].toLocal.data)
       /\ call[p].pc = "record" => call[p].toLocal.data \subseteq atLocal

Good == (\A o \in PeerInfos : InfoGood(o)) /\ (\A p \in Polls : CallGood(p))

\* What every step does: time passes, messages are stamped with the time of now, and
\* what has arrived stays.
Onward ==
  /\ now \in Nat /\ now' \in Nat /\ now <= now'
  /\ \A m \in Up \cup Down : stamp'[m] = stamp[m] \/ stamp'[m] = now
  /\ atRemote \subseteq atRemote' /\ atLocal \subseteq atLocal'

\* Every step goes on: the clock, the stamps and what has arrived only grow.
LEMMA StepsOnward ==
  ASSUME TypeOK, [Next]_vars
  PROVE  Onward
<1>1. now \in Nat
  BY PollServerAssumption DEF TypeOK
<1>2. CASE Tick
  BY <1>1, <1>2 DEF Tick, Onward
<1>3. ASSUME NEW m \in Up \cup Down, SendMsg(m)
      PROVE  Onward
  BY <1>1, <1>3 DEF SendMsg, Onward, TypeOK
<1>4. ASSUME NEW p \in Polls,
             \/ Begin(p) \/ Create(p) \/ Load(p) \/ GetKey(p) \/ Panic(p)
             \/ PickupLocal(p) \/ PickupRemote(p) \/ SkipDropoff(p) \/ CountSent(p)
             \/ EndWithout(p) \/ RecordReceived(p) \/ NoBundle(p) \/ Fail(p)
      PROVE  Onward
  <2>1. UNCHANGED nodes
    BY <1>4 DEF Begin, Create, Load, GetKey, Panic, PickupLocal, PickupRemote, SkipDropoff,
                CountSent, EndWithout, RecordReceived, NoBundle, Fail
  <2>2. QED
    BY <1>1, <2>1 DEF nodes, Onward
<1>5. ASSUME NEW p \in Polls, DropoffRemote(p) \/ AnswerLost(p)
      PROVE  Onward
  BY <1>1, <1>5 DEF DropoffRemote, AnswerLost, Onward
<1>6. ASSUME NEW p \in Polls, DropoffLocal(p)
      PROVE  Onward
  BY <1>1, <1>6 DEF DropoffLocal, Onward
<1>7. CASE AddPeer \/ RemovePeer \/ UNCHANGED vars
  <2>1. UNCHANGED nodes
    BY <1>7 DEF AddPeer, RemovePeer, vars
  <2>2. QED
    BY <1>1, <2>1 DEF nodes, Onward
<1>8. QED
  BY <1>2, <1>3, <1>4, <1>5, <1>6, <1>7 DEF Next, Step

\* What a time has moved past, it has moved past for good.
LEMMA PassedStays ==
  ASSUME TypeOK, Onward, NEW msgs \in SUBSET (Up \cup Down), NEW time \in Nat, time <= now,
         NEW there, NEW later, there \subseteq later, Passed(msgs, time, there)
  PROVE  time <= now' /\ \A m \in msgs : stamp'[m] # None /\ stamp'[m] < time => m \in later
BY DEF Passed, Onward, TypeOK

\* A PeerInfo whose times are those of a good one, or 0, is good.
LEMMA InfoStaysGood ==
  ASSUME TypeOK, TypeOK', Onward, NEW o \in PeerInfos, NEW x \in PeerInfos, InfoGood(x),
         info'[o].local \in {0, info[x].local}, info'[o].remote \in {0, info[x].remote}
  PROVE  InfoGood(o)'
<1>1. /\ info[x].local \in Nat /\ info[x].remote \in Nat /\ 0 \in Nat
      /\ stamp' \in [Up \cup Down -> Nat \cup {None}]
      /\ Up \in SUBSET (Up \cup Down) /\ Down \in SUBSET (Up \cup Down)
      /\ now' \in Nat
  BY PollServerAssumption DEF TypeOK, Infos
<1>2. info'[o].local <= now' /\ Passed(Up, info[o].local, atRemote)'
  <2>1. CASE info'[o].local = 0
    BY <1>1, <2>1 DEF Passed
  <2>2. CASE info'[o].local = info[x].local
    BY <1>1, <2>2, PassedStays DEF InfoGood, Onward, Passed
  <2>3. QED
    BY <2>1, <2>2
<1>3. info'[o].remote <= now' /\ Passed(Down, info[o].remote, atLocal)'
  <2>1. CASE info'[o].remote = 0
    BY <1>1, <2>1 DEF Passed
  <2>2. CASE info'[o].remote = info[x].remote
    BY <1>1, <2>2, PassedStays DEF InfoGood, Onward, Passed
  <2>3. QED
    BY <2>1, <2>2
<1>4. QED
  BY <1>2, <1>3 DEF InfoGood

\* A call that has only what it had, and has dropped off what it says, stays good.
Carries(p) ==
  /\ call'[p].since \in {None, call[p].since}
  /\ call'[p].toRemote \in {None, call[p].toRemote}
  /\ call'[p].toLocal \in {None, call[p].toLocal}
  /\ call'[p].pc = "count" => call[p].pc = "count" \/ call[p].toRemote.data \subseteq atRemote'
  /\ call'[p].pc = "record" => call[p].pc = "record" \/ call[p].toLocal.data \subseteq atLocal'

\* A call that a step takes no further than its bundles reach stays good.
LEMMA CallStaysGood ==
  ASSUME TypeOK, Onward, NEW p \in Polls, CallGood(p), Carries(p)
  PROVE  CallGood(p)'
<1>1. /\ call[p].since \in Nat \cup {None}
      /\ call[p].toRemote \in Bundles(Up) \cup {None}
      /\ call[p].toLocal \in Bundles(Down) \cup {None}
      /\ Up \in SUBSET (Up \cup Down) /\ Down \in SUBSET (Up \cup Down)
      /\ atRemote \subseteq atRemote' /\ atLocal \subseteq atLocal'
  BY CallFields DEF Onward
<1>2. ASSUME call'[p].since # None
      PROVE  call'[p].since <= now' /\ Passed(Down, call[p].since, atLocal)'
  <2>1. call'[p].since = call[p].since /\ call[p].since \in Nat
    BY <1>1, <1>2 DEF Carries
  <2>2. call[p].since <= now /\ Passed(Down, call[p].since, atLocal)
    BY <1>2, <2>1 DEF CallGood
  <2>3. QED
    BY <1>1, <2>1, <2>2, PassedStays DEF Passed
<1>3. ASSUME call'[p].toRemote # None
      PROVE  /\ call'[p].toRemote.time <= now'
             /\ Passed(Up, call[p].toRemote.time, atRemote \cup call[p].toRemote.data)'
             /\ call'[p].pc = "count" => call'[p].toRemote.data \subseteq atRemote'
  <2> DEFINE b == call[p].toRemote
  <2>1. call'[p].toRemote = b /\ b # None /\ b.time \in Nat
    BY <1>1, <1>3 DEF Carries, Bundles
  <2>2. /\ b.time <= now /\ Passed(Up, b.time, atRemote \cup b.data)
        /\ call[p].pc = "count" => b.data \subseteq atRemote
    BY <2>1 DEF CallGood
  <2>3. atRemote \cup b.data \subseteq atRemote' \cup b.data
    BY <1>1
  <2>4. /\ b.time <= now'
        /\ \A m \in Up : stamp'[m] # None /\ stamp'[m] < b.time => m \in atRemote' \cup b.data
    BY <1>1, <2>1, <2>2, <2>3, PassedStays
  <2>5. call'[p].pc = "count" => b.data \subseteq atRemote'
    BY <1>1, <2>2 DEF Carries
  <2>6. QED
    BY <2>1, <2>4, <2>5 DEF Passed
<1>4. ASSUME call'[p].toLocal # None
      PROVE  /\ call'[p].toLocal.time <= now'
             /\ Passed(Down, call[p].toLocal.time, atLocal \cup call[p].toLocal.data)'
             /\ call'[p].pc = "record" => call'[p].toLocal.data \subseteq atLocal'
  <2> DEFINE b == call[p].toLocal
  <2>1. call'[p].toLocal = b /\ b # None /\ b.time \in Nat
    BY <1>1, <1>4 DEF Carries, Bundles
  <2>2. /\ b.time <= now /\ Passed(Down, b.time, atLocal \cup b.data)
        /\ call[p].pc = "record" => b.data \subseteq atLocal
    BY <2>1 DEF CallGood
  <2>3. atLocal \cup b.data \subseteq atLocal' \cup b.data
    BY <1>1
  <2>4. /\ b.time <= now'
        /\ \A m \in Down : stamp'[m] # None /\ stamp'[m] < b.time => m \in atLocal' \cup b.data
    BY <1>1, <2>1, <2>2, <2>3, PassedStays
  <2>5. call'[p].pc = "record" => b.data \subseteq atLocal'
    BY <1>1, <2>2 DEF Carries
  <2>6. QED
    BY <2>1, <2>4, <2>5 DEF Passed
<1>5. QED
  BY <1>2, <1>3, <1>4 DEF CallGood

\* A call that ends carries nothing, and its PeerInfos are as it leaves them.
LEMMA EndCarries ==
  ASSUME TypeOK, NEW p \in Polls, NEW objects, End(p, objects)
  PROVE  \A q \in Polls : Carries(q)
<1>1. call' = [call EXCEPT ![p] = Idle]
  BY DEF End
<1>2. Idle.since = None /\ Idle.toRemote = None /\ Idle.toLocal = None /\ Idle.pc = "idle"
  BY DEF Idle
<1>3. call \in [Polls -> Calls]
  BY DEF TypeOK
<1>4. QED
  BY <1>1, <1>2, <1>3 DEF Carries

\* Every PeerInfo that is swept out of good ones is good.
LEMMA SweptGood ==
  ASSUME TypeOK, TypeOK', Onward, \A o \in PeerInfos : InfoGood(o),
         NEW t, NEW cs, info' = Swept(info, t, cs)
  PROVE  \A o \in PeerInfos : InfoGood(o)'
<1> SUFFICES ASSUME NEW o \in PeerInfos PROVE InfoGood(o)'
  OBVIOUS
<1>1. info'[o] = info[o] \/ info'[o] = NewInfo
  BY SweptInfos DEF TypeOK
<1>2. info'[o].local \in {0, info[o].local} /\ info'[o].remote \in {0, info[o].remote}
  BY <1>1 DEF NewInfo
<1>3. QED
  BY <1>2, InfoStaysGood

\* When the program is over, no call carries anything, and every PeerInfo is a new one.
LEMMA AbortCarries ==
  ASSUME TypeOK, TypeOK', Onward, \A o \in PeerInfos : InfoGood(o), Abort
  PROVE  (\A q \in Polls : Carries(q)) /\ \A o \in PeerInfos : InfoGood(o)'
<1>1. \A q \in Polls : Carries(q)
  BY DEF Abort, Idle, Carries
<1>2. \A o \in PeerInfos : info'[o].local = 0 /\ info'[o].remote = 0
  BY DEF Abort, NewInfo
<1>3. QED
  BY <1>1, <1>2, InfoStaysGood

\* A bundle holds what its node was given by then, but for what is older than asked for.
LEMMA BundlePassed ==
  ASSUME TypeOK, NEW msgs \in SUBSET (Up \cup Down), NEW since \in Nat, NEW there,
         Passed(msgs, since, there)
  PROVE  /\ Bundle(msgs, since).time = now
         /\ Passed(msgs, now, there \cup Bundle(msgs, since).data)
BY PollServerAssumption DEF TypeOK, Passed, Bundle

\* The first state is good: every time is 0, and no call is under way.
LEMMA InitGood == Init => Good
<1> SUFFICES ASSUME Init PROVE Good
  OBVIOUS
<1>1. ASSUME NEW o \in PeerInfos PROVE InfoGood(o)
  BY DEF Init, NewInfo, InfoGood, Passed
<1>2. ASSUME NEW p \in Polls PROVE CallGood(p)
  BY DEF Init, Idle, CallGood
<1>3. QED
  BY <1>1, <1>2 DEF Good

\* Every step leaves every PeerInfo and every call good.
LEMMA StepGood ==
  ASSUME TypeOK, TypeOK', Good, [Next]_vars
  PROVE  Good'
<1>1. /\ Onward
      /\ \A o \in PeerInfos : InfoGood(o)
      /\ \A p \in Polls : CallGood(p)
      /\ call \in [Polls -> Calls]
      /\ info \in [PeerInfos -> Infos]
  BY StepsOnward DEF Good, TypeOK
<1>2. ASSUME \A q \in Polls : Carries(q)
      PROVE  \A q \in Polls : CallGood(q)'
  BY <1>1, <1>2, CallStaysGood
<1>3. ASSUME info' = info
      PROVE  \A o \in PeerInfos : InfoGood(o)'
  BY <1>1, <1>3, InfoStaysGood
<1>4. ASSUME call' = call
      PROVE  \A q \in Polls : Carries(q)
  BY <1>4 DEF Carries
<1>5. CASE Tick \/ UNCHANGED vars \/ \E m \in Up \cup Down : SendMsg(m)
  <2>1. call' = call /\ info' = info
    BY <1>5 DEF Tick, SendMsg, vars, peers
  <2>2. QED
    BY <2>1, <1>2, <1>3, <1>4 DEF Good
<1>6. ASSUME NEW p \in Polls, Begin(p) \/ Load(p) \/ SkipDropoff(p) \/ NoBundle(p)
      PROVE  Good'
  <2>1. info' = info
    BY <1>6 DEF Begin, Load, SkipDropoff, NoBundle, peers
  <2>2. \A q \in Polls : Carries(q)
    <3>1. CASE Begin(p)
      BY <1>1, <3>1 DEF Begin, Goto, Carries, Calls
    <3>2. CASE Load(p)
      BY <1>1, <3>2 DEF Load, Carries, Calls
    <3>3. CASE SkipDropoff(p)
      BY <1>1, <3>3 DEF SkipDropoff, Carries, Calls
    <3>4. CASE NoBundle(p)
      BY <1>1, <3>4 DEF NoBundle, Carries, Calls
    <3>5. QED
      BY <1>6, <3>1, <3>2, <3>3, <3>4
  <2>3. QED
    BY <2>1, <2>2, <1>2, <1>3 DEF Good
<1>7. ASSUME NEW p \in Polls, Create(p)
      PROVE  Good'
  <2>1. \A q \in Polls : Carries(q)
    BY <1>1, <1>7 DEF Create, Goto, Carries, Calls
  <2>2. \A o \in PeerInfos : InfoGood(o)'
    BY <1>1, <1>7, SweptGood DEF Create
  <2>3. QED
    BY <2>1, <2>2, <1>2 DEF Good
<1>8. ASSUME NEW p \in Polls, GetKey(p)
      PROVE  Good'
  <2>1. \A q \in Polls : Carries(q)
    BY <1>1, <1>8 DEF GetKey, Goto, Carries, Calls
  <2> DEFINE old     == info[call[p].peer]
             copied  == [info EXCEPT ![Fresh] = [old EXCEPT !.key = TRUE]]
  <2>2. call[p].peer \in PeerInfos /\ old \in Infos
    BY <1>1, <1>8, CallFields DEF GetKey, Equipped
  <2>3. [old EXCEPT !.key = TRUE] \in Infos
    BY <2>2 DEF Infos
  <2>4. copied \in [PeerInfos -> Infos] /\ info' = Swept(copied, Fresh, call)
    BY <1>1, <1>8, <2>3 DEF GetKey
  <2>5. ASSUME NEW o \in PeerInfos
        PROVE  InfoGood(o)'
    <3>1. info'[o] = copied[o] \/ info'[o] = NewInfo
      <4> HIDE DEF copied
      <4>1. QED
        BY <2>4, SweptInfos
    <3>2. CASE info'[o] = copied[o] /\ o = Fresh
      <4>1. info'[o].local = old.local /\ info'[o].remote = old.remote
        BY <1>1, <2>2, <3>2 DEF Infos
      <4>2. QED
        BY <1>1, <2>2, <4>1, InfoStaysGood
    <3>3. CASE info'[o] = copied[o] /\ o # Fresh
      BY <1>1, <3>3, InfoStaysGood
    <3>4. CASE info'[o] = NewInfo
      BY <1>1, <3>4, InfoStaysGood DEF NewInfo
    <3>5. QED
      BY <3>1, <3>2, <3>3, <3>4
  <2>6. QED
    BY <2>1, <2>5, <1>2 DEF Good
<1>9. ASSUME NEW p \in Polls, Panic(p) \/ AnswerLost(p) \/ EndWithout(p) \/ Fail(p)
      PROVE  Good'
  <2>1. End(p, info) \/ Abort
    BY <1>9, PanicEnds DEF AnswerLost, EndWithout, Fail
  <2>2. CASE End(p, info)
    <3>1. \A o \in PeerInfos : InfoGood(o)'
      BY <1>1, <2>2, SweptGood DEF End
    <3>2. QED
      BY <2>2, <3>1, <1>2, EndCarries DEF Good
  <2>3. CASE Abort
    BY <1>1, <1>2, <2>3, AbortCarries DEF Good
  <2>4. QED
    BY <2>1, <2>2, <2>3
<1>10. ASSUME NEW p \in Polls, PickupLocal(p)
       PROVE  Good'
  <2> DEFINE mine == info[call[p].peer]
             b    == Bundle(Up, mine.local)
  <2>1. /\ call[p].peer \in PeerInfos /\ mine.local \in Nat /\ mine.remote \in Nat
        /\ InfoGood(call[p].peer)
        /\ call[p].toLocal = None
    BY <1>1, <1>10, CallFields DEF PickupLocal, Equipped, Infos
  <2>2. /\ call'[p].pc = "ask" /\ call'[p].since = mine.remote
        /\ call'[p].toRemote = b /\ call'[p].toLocal = None
        /\ \A q \in Polls : q # p => call'[q] = call[q]
        /\ UNCHANGED <<now, stamp, atRemote, atLocal, info>>
    BY <1>1, <1>10, <2>1 DEF PickupLocal, Calls, nodes, peers
  <2>3. Passed(Up, mine.local, atRemote) /\ mine.remote <= now /\ Passed(Down, mine.remote, atLocal)
    BY <2>1 DEF InfoGood
  <2>4. b.time = now /\ Passed(Up, now, atRemote \cup b.data)
    BY <2>1, <2>3, BundlePassed
  <2>5. CallGood(p)'
    <3>1. now \in Nat
      BY <1>1 DEF Onward
    <3> HIDE DEF mine, b
    <3>2. QED
      BY <2>2, <2>3, <2>4, <3>1 DEF CallGood, Passed
  <2>6. ASSUME NEW q \in Polls, q # p
        PROVE  CallGood(q)'
    BY <1>1, <2>2, <2>6, CallStaysGood DEF Carries
  <2>7. QED
    BY <2>2, <2>5, <2>6, <1>3 DEF Good
<1>11. ASSUME NEW p \in Polls, PickupRemote(p)
       PROVE  Good'
  <2> DEFINE since == call[p].since
             b     == Bundle(Down, since)
  <2>1. since \in Nat /\ since # None
    BY <1>11, CallFields DEF PickupRemote, Equipped
  <2>2. /\ call'[p].pc = "hand" /\ call'[p].since = None
        /\ call'[p].toRemote = call[p].toRemote /\ call'[p].toLocal = b
        /\ \A q \in Polls : q # p => call'[q] = call[q]
        /\ UNCHANGED <<now, stamp, atRemote, atLocal, info>>
    BY <1>1, <1>11 DEF PickupRemote, Calls, nodes, peers
  <2>3. Passed(Down, since, atLocal)
    BY <1>1, <2>1 DEF CallGood
  <2>4. b.time = now /\ Passed(Down, now, atLocal \cup b.data)
    BY <2>1, <2>3, BundlePassed
  <2>5. CallGood(p)'
    <3>1. now \in Nat
      BY <1>1 DEF Onward
    <3>2. /\ call[p].toRemote # None =>
                call[p].toRemote.time <= now /\
                Passed(Up, call[p].toRemote.time, atRemote \cup call[p].toRemote.data)
      BY <1>1 DEF CallGood
    <3> HIDE DEF since, b
    <3>3. QED
      BY <2>2, <2>4, <3>1, <3>2 DEF CallGood, Passed
  <2>6. ASSUME NEW q \in Polls, q # p
        PROVE  CallGood(q)'
    BY <1>1, <2>2, <2>6, CallStaysGood DEF Carries
  <2>7. QED
    BY <2>2, <2>5, <2>6, <1>3 DEF Good
<1>12. ASSUME NEW p \in Polls, DropoffRemote(p) \/ DropoffLocal(p)
       PROVE  Good'
  <2>1. \A q \in Polls : Carries(q)
    <3>1. CASE DropoffRemote(p)
      BY <1>1, <3>1 DEF DropoffRemote, Goto, Carries, Calls
    <3>2. CASE DropoffLocal(p)
      BY <1>1, <3>2 DEF DropoffLocal, Goto, Carries, Calls
    <3>3. QED
      BY <1>12, <3>1, <3>2
  <2>2. info' = info
    BY <1>12 DEF DropoffRemote, DropoffLocal, peers
  <2>3. QED
    BY <2>1, <2>2, <1>2, <1>3 DEF Good
<1>13. ASSUME NEW p \in Polls, CountSent(p)
       PROVE  Good'
  <2>1. \A q \in Polls : Carries(q)
    BY <1>1, <1>13 DEF CountSent, Carries, Calls
  <2> DEFINE mine == info[call[p].peer]
             b    == call[p].toRemote
  <2>2. /\ call[p].peer \in PeerInfos /\ mine \in Infos
        /\ b \in Bundles(Up) /\ b # None
    BY <1>1, <1>13, CallFields DEF CountSent, Equipped
  <2>3. /\ \A o \in PeerInfos : o # call[p].peer => info'[o] = info[o]
        /\ info'[call[p].peer].local \in {mine.local, b.time}
        /\ info'[call[p].peer].remote = mine.remote
        /\ UNCHANGED <<now, stamp, atRemote, atLocal>>
    BY <1>1, <1>13, <2>2 DEF CountSent, Infos, nodes
  <2>4. b.time <= now /\ Passed(Up, b.time, atRemote)
    <3>1. b.time <= now /\ Passed(Up, b.time, atRemote \cup b.data) /\ b.data \subseteq atRemote
      BY <1>1, <1>13, <2>2 DEF CountSent, CallGood
    <3>2. QED
      BY <3>1 DEF Passed
  <2>5. ASSUME NEW o \in PeerInfos
        PROVE  InfoGood(o)'
    <3>1. CASE o # call[p].peer
      BY <1>1, <2>3, <3>1, InfoStaysGood
    <3>2. CASE o = call[p].peer
      <4>1. InfoGood(o)
        BY <1>1
      <4> HIDE DEF b
      <4>2. QED
        BY <2>3, <2>4, <3>2, <4>1 DEF InfoGood, Passed
    <3>3. QED
      BY <3>1, <3>2
  <2>6. QED
    BY <2>1, <2>5, <1>2 DEF Good
<1>14. ASSUME NEW p \in Polls, RecordReceived(p)
       PROVE  Good'
  <2> DEFINE b       == call[p].toLocal
             objects == [info EXCEPT ![call[p].peer].remote = b.time]
  <2>1. End(p, objects) /\ UNCHANGED <<now, stamp, atRemote, atLocal>>
    BY <1>14 DEF RecordReceived, nodes
  <2>2. call[p].peer \in PeerInfos /\ b \in Bundles(Down) /\ b # None /\ b.time \in Nat
    BY <1>14, CallFields DEF RecordReceived, Equipped, Bundles
  <2>3. objects \in [PeerInfos -> Infos]
    BY <1>1, <2>2 DEF Infos
  <2>4. b.time <= now /\ Passed(Down, b.time, atLocal)
    <3>1. b.time <= now /\ Passed(Down, b.time, atLocal \cup b.data) /\ b.data \subseteq atLocal
      BY <1>1, <1>14, <2>2 DEF RecordReceived, CallGood
    <3>2. QED
      BY <3>1 DEF Passed
  <2>5. ASSUME NEW o \in PeerInfos
        PROVE  InfoGood(o)'
    <3>1. info'[o] = objects[o] \/ info'[o] = NewInfo
      <4> HIDE DEF objects
      <4>1. QED
        BY <2>1, <2>3, SweptInfos DEF End
    <3>2. CASE info'[o] = NewInfo
      BY <1>1, <3>2, InfoStaysGood DEF NewInfo
    <3>3. CASE info'[o] = objects[o] /\ o # call[p].peer
      BY <1>1, <3>3, InfoStaysGood
    <3>4. CASE info'[o] = objects[o] /\ o = call[p].peer
      <4>1. info'[o].local = info[o].local /\ info'[o].remote = b.time
        BY <1>1, <3>4 DEF Infos
      <4>2. InfoGood(o)
        BY <1>1
      <4> HIDE DEF b
      <4>3. QED
        BY <2>1, <2>4, <4>1, <4>2 DEF InfoGood, Passed
    <3>5. QED
      BY <3>1, <3>2, <3>3, <3>4
  <2>6. QED
    BY <2>1, <2>5, <1>2, EndCarries DEF Good
<1>15. CASE AddPeer \/ RemovePeer
  <2>1. call' = call
    BY <1>15 DEF AddPeer, RemovePeer
  <2>2. \A o \in PeerInfos : InfoGood(o)'
    BY <1>1, <1>15, SweptGood DEF AddPeer, RemovePeer
  <2>3. QED
    BY <2>1, <2>2, <1>2, <1>4 DEF Good
<1>16. QED
  BY <1>5, <1>6, <1>7, <1>8, <1>9, <1>10, <1>11, <1>12, <1>13, <1>14, <1>15 DEF Next, Step

\* The inductive invariant.
LEMMA Invariant == Spec => [](TypeOK /\ Good)
<1>1. Init => TypeOK /\ Good
  BY InitTypes, InitGood
<1>2. TypeOK /\ Good /\ [Next]_vars => (TypeOK /\ Good)'
  BY StepTypes, StepGood
<1>3. QED
  BY <1>1, <1>2, PTL DEF Spec

\* What last_poll_local has moved past has reached the remote node, whatever overlaps,
\* fails, or is replaced in the table.
THEOREM LocalTimeCovered == Spec => []UpCovered
<1>1. Good => UpCovered
  BY DEF Good, InfoGood, Passed, UpCovered
<1>2. QED
  BY <1>1, Invariant, PTL

\* And what last_poll_remote has moved past has reached the local node.
THEOREM RemoteTimeCovered == Spec => []DownCovered
<1>1. Good => DownCovered
  BY DEF Good, InfoGood, Passed, DownCovered
<1>2. QED
  BY <1>1, Invariant, PTL
-----------------------------------------------------------------------------
\* What has arrived, or is on its way in a bundle, has been sent.
CallCarried(p) ==
  /\ call[p].toRemote # None => call[p].toRemote.data \subseteq Sent(Up)
  /\ call[p].toLocal # None => call[p].toLocal.data \subseteq Sent(Down)
Carried ==
  /\ atRemote \subseteq Sent(Up) /\ atLocal \subseteq Sent(Down)
  /\ \A p \in Polls : CallCarried(p)

LEMMA InitCarried == Init => Carried
BY DEF Init, Carried, CallCarried, Idle

LEMMA SentStays ==
  ASSUME TypeOK, [Next]_vars
  PROVE  Sent(Up) \subseteq Sent(Up)' /\ Sent(Down) \subseteq Sent(Down)'
<1>1. Onward
  BY StepsOnward
<1>2. \A m \in Up \cup Down : stamp[m] # None => stamp'[m] # None
  BY <1>1, PollServerAssumption DEF Onward
<1>3. QED
  BY <1>2 DEF Sent

\* A call goes on with the bundles it has, or without, or is given one of what has been sent.
KeepsBundles(c, d) ==
  /\ \/ d.toRemote \in {c.toRemote, None}
     \/ d.toRemote.data \subseteq Sent(Up)
  /\ \/ d.toLocal \in {c.toLocal, None}
     \/ d.toLocal.data \subseteq Sent(Down)

LEMMA StepsKeepBundles ==
  ASSUME TypeOK, [Next]_vars, NEW q \in Polls
  PROVE  KeepsBundles(call[q], call'[q])
<1>1. ASSUME NEW p \in Polls, NEW label, Goto(p, label)
      PROVE  KeepsBundles(call[q], call'[q])
  <2>1. call' = [call EXCEPT ![p] = [call[p] EXCEPT !.pc = label]]
    BY <1>1 DEF Goto
  <2>2. call[p] \in Calls
    BY CallFields
  <2>3. call'[q] = IF q = p THEN [call[p] EXCEPT !.pc = label] ELSE call[q]
    BY <2>1 DEF TypeOK
  <2>4. QED
    BY <2>2, <2>3 DEF KeepsBundles, Calls
<1>2. ASSUME NEW p \in Polls, NEW objects, End(p, objects)
      PROVE  KeepsBundles(call[q], call'[q])
  <2>1. call'[q] = IF q = p THEN Idle ELSE call[q]
    BY <1>2 DEF End, TypeOK
  <2>2. QED
    BY <2>1 DEF KeepsBundles, Idle
<1>3. ASSUME NEW p \in Polls, Begin(p) \/ Create(p) \/ GetKey(p) \/ DropoffRemote(p) \/ DropoffLocal(p)
      PROVE  KeepsBundles(call[q], call'[q])
  BY <1>1, <1>3 DEF Begin, Create, GetKey, DropoffRemote, DropoffLocal
<1>4. ASSUME NEW p \in Polls,
             Panic(p) \/ EndWithout(p) \/ RecordReceived(p) \/ AnswerLost(p) \/ Fail(p)
      PROVE  KeepsBundles(call[q], call'[q])
  <2>1. CASE Abort
    BY <2>1 DEF Abort, Idle, KeepsBundles
  <2>2. QED
    BY <1>2, <1>4, <2>1, PanicEnds DEF EndWithout, RecordReceived, AnswerLost, Fail
<1>5. ASSUME NEW p \in Polls, Load(p) \/ SkipDropoff(p) \/ CountSent(p) \/ NoBundle(p)
      PROVE  KeepsBundles(call[q], call'[q])
  <2>1. call[p] \in Calls /\ call[q] \in Calls
    BY CallFields
  <2>2. CASE q = p
    BY <1>5, <2>1, <2>2
    DEF Load, SkipDropoff, CountSent, NoBundle, TypeOK, Calls, KeepsBundles
  <2>3. CASE q # p
    BY <1>5, <2>1, <2>3
    DEF Load, SkipDropoff, CountSent, NoBundle, TypeOK, Calls, KeepsBundles
  <2>4. QED
    BY <2>2, <2>3
<1>6. ASSUME NEW p \in Polls, PickupLocal(p)
      PROVE  KeepsBundles(call[q], call'[q])
  <2> DEFINE b == Bundle(Up, info[call[p].peer].local)
  <2>1. b.data \subseteq Sent(Up)
    BY DEF Bundle, Sent
  <2> HIDE DEF b
  <2>2. call[p] \in Calls /\ call[q] \in Calls
    BY CallFields
  <2>3. call' = [call EXCEPT ![p].pc = "ask", ![p].since = info[call[p].peer].remote,
                            ![p].toRemote = b]
    BY <1>6 DEF PickupLocal, b
  <2>4. CASE q = p
    BY <2>1, <2>2, <2>3, <2>4 DEF TypeOK, Calls, KeepsBundles
  <2>5. CASE q # p
    BY <2>3, <2>5 DEF TypeOK, KeepsBundles
  <2>6. QED
    BY <2>4, <2>5
<1>7. ASSUME NEW p \in Polls, PickupRemote(p)
      PROVE  KeepsBundles(call[q], call'[q])
  <2> DEFINE b == Bundle(Down, call[p].since)
  <2>1. b.data \subseteq Sent(Down)
    BY DEF Bundle, Sent
  <2> HIDE DEF b
  <2>2. call[p] \in Calls /\ call[q] \in Calls
    BY CallFields
  <2>3. call' = [call EXCEPT ![p].pc = "hand", ![p].since = None, ![p].toLocal = b]
    BY <1>7 DEF PickupRemote, b
  <2>4. CASE q = p
    BY <2>1, <2>2, <2>3, <2>4 DEF TypeOK, Calls, KeepsBundles
  <2>5. CASE q # p
    BY <2>3, <2>5 DEF TypeOK, KeepsBundles
  <2>6. QED
    BY <2>4, <2>5
<1>8. CASE UNCHANGED call
  BY <1>8 DEF KeepsBundles
<1>9. QED
  BY <1>3, <1>4, <1>5, <1>6, <1>7, <1>8
  DEF Next, Step, Tick, SendMsg, AddPeer, RemovePeer, vars

LEMMA StepCarried ==
  ASSUME TypeOK, Carried, [Next]_vars
  PROVE  Carried'
<1>1. Sent(Up) \subseteq Sent(Up)' /\ Sent(Down) \subseteq Sent(Down)'
  BY SentStays
<1>2. ASSUME NEW p \in Polls
      PROVE  CallCarried(p)'
  <2>1. KeepsBundles(call[p], call'[p]) /\ CallCarried(p)
    BY StepsKeepBundles DEF Carried
  <2>2. QED
    BY <1>1, <2>1 DEF KeepsBundles, CallCarried
<1>3. atRemote' \subseteq Sent(Up)' /\ atLocal' \subseteq Sent(Down)'
  <2>1. CASE UNCHANGED <<atRemote, atLocal>>
    BY <1>1, <2>1 DEF Carried
  <2>2. ASSUME NEW p \in Polls, DropoffRemote(p) \/ AnswerLost(p)
        PROVE  atRemote' \subseteq Sent(Up)' /\ atLocal' \subseteq Sent(Down)'
    <3>1. call[p].toRemote # None /\ CallCarried(p)
      BY <2>2 DEF DropoffRemote, AnswerLost, HasData, Carried
    <3>2. atRemote' = atRemote \cup call[p].toRemote.data /\ atLocal' = atLocal
      BY <2>2 DEF DropoffRemote, AnswerLost
    <3>3. QED
      BY <1>1, <3>1, <3>2 DEF CallCarried, Carried
  <2>3. ASSUME NEW p \in Polls, DropoffLocal(p)
        PROVE  atRemote' \subseteq Sent(Up)' /\ atLocal' \subseteq Sent(Down)'
    <3>1. call[p].toLocal # None /\ CallCarried(p)
      BY <2>3 DEF DropoffLocal, HasData, Carried
    <3>2. atLocal' = atLocal \cup call[p].toLocal.data /\ atRemote' = atRemote
      BY <2>3 DEF DropoffLocal
    <3>3. QED
      BY <1>1, <3>1, <3>2 DEF CallCarried, Carried
  <2>4. QED
    BY <2>1, <2>2, <2>3
    DEF Next, Step, Tick, SendMsg, AddPeer, RemovePeer, vars, nodes, Begin, Create, Load, GetKey,
        Panic, PickupLocal, PickupRemote, SkipDropoff, CountSent, EndWithout, RecordReceived,
        NoBundle, Fail
<1>4. QED
  BY <1>2, <1>3 DEF Carried

LEMMA CarriedInvariant == Spec => [](TypeOK /\ Good /\ Carried)
<1>1. Init => Carried
  BY InitCarried
<1>2. TypeOK /\ Carried /\ [Next]_vars => Carried'
  BY StepCarried
<1>3. QED
  BY <1>1, <1>2, Invariant, PTL DEF Spec

\* A step is a message sent, or it leaves the timestamps alone.
LEMMA SendsOrNot ==
  ASSUME [Next]_vars
  PROVE  (\E m \in Up \cup Down : SendMsg(m)) \/ UNCHANGED stamp
BY DEF Next, Step, Tick, AddPeer, RemovePeer, vars, nodes, Begin, Create, Load, GetKey, Panic,
       PickupLocal, PickupRemote, DropoffRemote, DropoffLocal, SkipDropoff, CountSent, EndWithout,
       RecordReceived, NoBundle, AnswerLost, Fail

\* A message is sent in this second, which no time of a PeerInfo has passed.
LEMMA SendIsNew ==
  ASSUME TypeOK, Good, NEW m \in Up \cup Down, SendMsg(m)
  PROVE  /\ UNCHANGED <<info, atRemote, atLocal>>
         /\ \A x \in Up \cup Down : x # m => stamp'[x] = stamp[x]
         /\ stamp[m] = None /\ stamp'[m] = now /\ now # None
         /\ \A o \in PeerInfos : ~ (now < info[o].local) /\ ~ (now < info[o].remote)
<1>1. now \in Nat
  BY PollServerAssumption DEF TypeOK
<1>2. ASSUME NEW o \in PeerInfos
      PROVE  ~ (now < info[o].local) /\ ~ (now < info[o].remote)
  <2>1. info[o].local \in Nat /\ info[o].remote \in Nat
    BY DEF TypeOK, Infos
  <2>2. info[o].local <= now /\ info[o].remote <= now
    BY DEF Good, InfoGood
  <2>3. QED
    BY <1>1, <2>1, <2>2
<1>3. QED
  BY <1>1, <1>2, PollServerAssumption DEF SendMsg, TypeOK, peers

\* However polls overlap and whatever fails, the pushes to the remote node keep the promise of
\* a store and forward: every step sends, delivers, or does nothing of that.
THEOREM PushesKeepPromise == Spec => PushForwards
<1>1. Init => Pushed!Init
  BY DEF Init, Pushed!Init, Sent, PassedLocal
<1>2. ASSUME TypeOK, Good, (Good /\ Carried)', [Next]_vars
      PROVE  [Pushed!Next]_(Pushed!vars)
  <2>1. ASSUME NEW m \in Up, SendMsg(m)
        PROVE  Pushed!Send(m)
    <3>1. Sent(Up)' = Sent(Up) \cup {m} /\ m \notin Sent(Up)
      BY <1>2, <2>1, SendIsNew DEF Sent
    <3>2. PassedLocal' = PassedLocal /\ m \notin PassedLocal
      BY <1>2, <2>1, SendIsNew DEF PassedLocal, Sent
    <3>3. QED
      BY <1>2, <2>1, <3>1, <3>2, SendIsNew DEF Pushed!Send
  <2>2. ASSUME NEW m \in Down, SendMsg(m)
        PROVE  UNCHANGED Pushed!vars
    <3>1. \A x \in Up : x # m
      BY PollServerAssumption
    <3>2. Sent(Up)' = Sent(Up)
      BY <1>2, <2>2, <3>1, SendIsNew DEF Sent
    <3>3. PassedLocal' = PassedLocal
      BY <1>2, <2>2, <3>1, SendIsNew DEF PassedLocal, Sent
    <3>4. QED
      BY <1>2, <2>2, <3>2, <3>3, SendIsNew DEF Pushed!vars
  <2>3. ASSUME UNCHANGED stamp
        PROVE  Pushed!Deliver
    <3>1. Sent(Up)' = Sent(Up)
      BY <2>3 DEF Sent
    <3>2. atRemote \subseteq atRemote' /\ atRemote' \subseteq Sent(Up)
      BY <1>2, <3>1, StepsOnward DEF Onward, Carried
    <3>3. PassedLocal' \subseteq Sent(Up) \cap atRemote'
      BY <1>2, <3>1 DEF PassedLocal, Sent, Good, InfoGood, Passed
    <3>4. QED
      BY <3>1, <3>2, <3>3 DEF Pushed!Deliver
  <2>4. QED
    BY <1>2, <2>1, <2>2, <2>3, SendsOrNot DEF Pushed!Next
<1>3. QED
  BY <1>1, <1>2, CarriedInvariant, PTL DEF Spec, PushForwards, Pushed!Spec

\* And so do the pulls from it.
THEOREM PullsKeepPromise == Spec => PullForwards
<1>1. Init => Pulled!Init
  BY DEF Init, Pulled!Init, Sent, PassedRemote
<1>2. ASSUME TypeOK, Good, (Good /\ Carried)', [Next]_vars
      PROVE  [Pulled!Next]_(Pulled!vars)
  <2>1. ASSUME NEW m \in Down, SendMsg(m)
        PROVE  Pulled!Send(m)
    <3>1. Sent(Down)' = Sent(Down) \cup {m} /\ m \notin Sent(Down)
      BY <1>2, <2>1, SendIsNew DEF Sent
    <3>2. PassedRemote' = PassedRemote /\ m \notin PassedRemote
      BY <1>2, <2>1, SendIsNew DEF PassedRemote, Sent
    <3>3. QED
      BY <1>2, <2>1, <3>1, <3>2, SendIsNew DEF Pulled!Send
  <2>2. ASSUME NEW m \in Up, SendMsg(m)
        PROVE  UNCHANGED Pulled!vars
    <3>1. \A x \in Down : x # m
      BY PollServerAssumption
    <3>2. Sent(Down)' = Sent(Down)
      BY <1>2, <2>2, <3>1, SendIsNew DEF Sent
    <3>3. PassedRemote' = PassedRemote
      BY <1>2, <2>2, <3>1, SendIsNew DEF PassedRemote, Sent
    <3>4. QED
      BY <1>2, <2>2, <3>2, <3>3, SendIsNew DEF Pulled!vars
  <2>3. ASSUME UNCHANGED stamp
        PROVE  Pulled!Deliver
    <3>1. Sent(Down)' = Sent(Down)
      BY <2>3 DEF Sent
    <3>2. atLocal \subseteq atLocal' /\ atLocal' \subseteq Sent(Down)
      BY <1>2, <3>1, StepsOnward DEF Onward, Carried
    <3>3. PassedRemote' \subseteq Sent(Down) \cap atLocal'
      BY <1>2, <3>1 DEF PassedRemote, Sent, Good, InfoGood, Passed
    <3>4. QED
      BY <3>1, <3>2, <3>3 DEF Pulled!Deliver
  <2>4. QED
    BY <1>2, <2>1, <2>2, <2>3, SendsOrNot DEF Pulled!Next
<1>3. QED
  BY <1>1, <1>2, CarriedInvariant, PTL DEF Spec, PullForwards, Pulled!Spec
-----------------------------------------------------------------------------
\* At most one call is under way.
OneCall == \A p, q \in Polls : call[p].pc # "idle" /\ call[q].pc # "idle" => p = q

\* Dropoffs are counted in the table's PeerInfo only, once it has the key.
CountedInTable ==
  \A o \in PeerInfos : info[o].tx > 0 => info[o].key /\ o = table

\* Where a call works on the table's PeerInfo.
Placed(p) ==
  /\ call[p].pc = "create" => table = None
  /\ call[p].pc = "key" => call[p].peer = table /\ ~ info[table].key
  /\ call[p].pc = "pickup" /\ info[call[p].peer].key => call[p].peer = table
  /\ call[p].pc \in {"ask", "hand", "count", "take", "record"} =>
       call[p].peer = table /\ info[table].key

\* Nothing is sent later than now, and what has been dropped off was sent.
SentByNow ==
  /\ \A m \in Up : stamp[m] # None => stamp[m] <= now
  /\ \A m \in atRemote : stamp[m] # None

\* A call's bundle holds what was sent from last_poll_local to its time, and what was
\* dropped off before is no younger.
BundleDated(p) ==
  call[p].toRemote # None =>
    /\ \A m \in call[p].toRemote.data :
         /\ stamp[m] # None /\ stamp[m] <= call[p].toRemote.time
         /\ call[p].pc \in {"ask", "hand"} => stamp[m] >= info[call[p].peer].local
    /\ \A m \in atRemote : stamp[m] <= call[p].toRemote.time

\* From the second dropoff counted on, last_poll_local has come as far as what was
\* dropped off, but for what is not counted yet.
DroppedOffBefore(o) ==
  info[o].tx = 2 =>
    \A m \in atRemote : \/ stamp[m] <= info[o].local
                        \/ \E p \in Polls : call[p].pc = "count" /\ m \in call[p].toRemote.data

Explained ==
  /\ OneCall /\ CountedInTable /\ SentByNow
  /\ \A p \in Polls : Placed(p) /\ BundleDated(p)
  /\ \A o \in PeerInfos : DroppedOffBefore(o)

Alone == ~ overlap /\ faults = 0 => Explained

\* While a call is under way alone, the others hold nothing and stay where they are.
LEMMA OthersIdle ==
  ASSUME TypeOK, OneCall, NEW p \in Polls, call[p].pc # "idle",
         NEW c, call' = [call EXCEPT ![p] = c]
  PROVE  /\ call'[p] = c
         /\ \A q \in Polls \ {p} : call'[q] = call[q] /\ call[q].pc = "idle"
         /\ OneCall'
         /\ \A q \in Polls \ {p} : Placed(q)' /\ BundleDated(q)'
<1>1. call'[p] = c /\ \A q \in Polls \ {p} : call'[q] = call[q] /\ call[q].pc = "idle"
  BY DEF TypeOK, OneCall
<1>2. \A q \in Polls \ {p} : call[q].toRemote = None
  BY <1>1, CallFields DEF Equipped
<1>3. QED
  BY <1>1, <1>2 DEF OneCall, Placed, BundleDated

\* A step that leaves alone what is counted, or forgets it, and drops nothing off.
LEMMA CountsStay ==
  ASSUME TypeOK, CountedInTable, \A o \in PeerInfos : DroppedOffBefore(o),
         NEW p \in Polls, OneCall, call[p].pc \notin {"idle", "count"},
         UNCHANGED <<stamp, atRemote>>,
         \A o \in PeerInfos :
           \/ info'[o].tx = 0
           \/ info'[o].tx = info[o].tx /\ info'[o].key = info[o].key
                /\ info'[o].local = info[o].local /\ o = table'
  PROVE  CountedInTable' /\ \A o \in PeerInfos : DroppedOffBefore(o)'
<1>1. CountedInTable'
  BY DEF CountedInTable
<1>2. \A q \in Polls : call[q].pc # "count"
  BY DEF OneCall
<1>3. ASSUME NEW o \in PeerInfos PROVE DroppedOffBefore(o)'
  BY <1>2 DEF DroppedOffBefore
<1>4. QED
  BY <1>1, <1>3

\* A call that ends leaves what is counted as it was.
LEMMA EndExplained ==
  ASSUME TypeOK, Explained, NEW p \in Polls, call[p].pc \notin {"idle", "count"},
         NEW objects \in [PeerInfos -> Infos], End(p, objects),
         \A o \in PeerInfos : objects[o].tx = info[o].tx /\ objects[o].key = info[o].key
                                /\ objects[o].local = info[o].local,
         UNCHANGED <<now, stamp, atRemote>>
  PROVE  Explained'
<1>1. /\ call' = [call EXCEPT ![p] = Idle] /\ table' = table
      /\ Idle.pc = "idle" /\ Idle.toRemote = None
  BY DEF End, Idle
<1>2. OneCall' /\ \A q \in Polls : Placed(q)' /\ BundleDated(q)'
  <2>1. /\ call'[p] = Idle /\ OneCall'
        /\ \A q \in Polls \ {p} : Placed(q)' /\ BundleDated(q)'
    BY <1>1, OthersIdle DEF Explained
  <2>2. QED
    BY <1>1, <2>1 DEF Placed, BundleDated
<1>3. \A o \in PeerInfos : info'[o] = objects[o] \/ info'[o].tx = 0
  BY SweptInfos DEF End, NewInfo
<1>4. CountedInTable' /\ \A o \in PeerInfos : DroppedOffBefore(o)'
  <2>1. \A o \in PeerInfos :
           \/ info'[o].tx = 0
           \/ info'[o].tx = info[o].tx /\ info'[o].key = info[o].key
                /\ info'[o].local = info[o].local /\ o = table'
    <3>1. \A o \in PeerInfos : info[o].tx \in 0 .. 2
      BY DEF TypeOK, Infos
    <3>2. QED
      BY <1>1, <1>3, <3>1 DEF Explained, CountedInTable
  <2>2. QED
    BY <2>1, CountsStay DEF Explained
<1>5. QED
  BY <1>2, <1>4 DEF Explained, SentByNow

\* The first state.
LEMMA InitAlone == Init => Alone
<1> SUFFICES ASSUME Init PROVE Explained
  BY DEF Alone
<1>1. /\ \A p \in Polls : call[p].pc = "idle" /\ call[p].toRemote = None
      /\ \A o \in PeerInfos : info[o].tx = 0
      /\ atRemote = {}
  BY DEF Init, Idle, NewInfo
<1>2. OneCall /\ \A p \in Polls : Placed(p) /\ BundleDated(p)
  BY <1>1 DEF OneCall, Placed, BundleDated
<1>3. CountedInTable /\ \A o \in PeerInfos : DroppedOffBefore(o)
  BY <1>1 DEF CountedInTable, DroppedOffBefore
<1>4. SentByNow
  BY DEF Init, SentByNow
<1>5. QED
  BY <1>2, <1>3, <1>4 DEF Explained

\* A step of the only call under way, as long as nothing fails.
LEMMA StepExplained ==
  ASSUME TypeOK, Explained, NEW p \in Polls, Step(p)
  PROVE  Explained'
<1>0. /\ OneCall /\ CountedInTable /\ SentByNow
      /\ Placed(p) /\ BundleDated(p)
      /\ \A o \in PeerInfos : DroppedOffBefore(o)
      /\ call \in [Polls -> Calls] /\ info \in [PeerInfos -> Infos]
      /\ stamp \in [Up \cup Down -> Nat \cup {None}] /\ now \in Nat
      /\ call[p] \in Calls
  BY PollServerAssumption DEF Explained, TypeOK
<1>1. CASE Create(p)
  <2>1. /\ call[p].pc = "create" /\ call' = [call EXCEPT ![p] = [call[p] EXCEPT !.pc = "load"]]
        /\ UNCHANGED <<now, stamp, atRemote>>
    BY <1>1 DEF Create, Goto, nodes
  <2>2. /\ call'[p].pc = "load" /\ call'[p].toRemote = None
        /\ OneCall' /\ \A q \in Polls \ {p} : Placed(q)' /\ BundleDated(q)'
    BY <1>0, <2>1, OthersIdle, CallFields DEF Calls, Equipped
  <2>3. \A o \in PeerInfos : info'[o].tx = 0
    <3>1. \A o \in PeerInfos : info[o].tx = 0
      <4>1. table = None /\ None \notin PeerInfos
        BY <1>0, <2>1, PollServerAssumption DEF Placed
      <4>2. \A o \in PeerInfos : info[o].tx \in 0 .. 2 /\ ~ (info[o].tx > 0)
        BY <1>0, <4>1 DEF CountedInTable, Infos
      <4>3. QED
        BY <4>2
    <3>2. QED
      BY <1>0, <1>1, <3>1, SweptInfos DEF Create, NewInfo
  <2>4. CountedInTable' /\ \A o \in PeerInfos : DroppedOffBefore(o)'
    BY <1>0, <2>1, <2>3, CountsStay
  <2>5. Placed(p)' /\ BundleDated(p)'
    BY <2>2 DEF Placed, BundleDated
  <2>6. QED
    BY <1>0, <2>1, <2>2, <2>4, <2>5 DEF Explained, SentByNow
<1>2. CASE Load(p)
  <2>1. /\ call[p].pc = "load" /\ table # None /\ UNCHANGED <<now, stamp, atRemote, info, table>>
        /\ call' = [call EXCEPT ![p] = [call[p] EXCEPT !.peer = table,
                      !.pc = IF info[table].key THEN "pickup" ELSE "key"]]
    BY <1>2 DEF Load, nodes, peers
  <2>2. /\ call'[p].pc = IF info[table].key THEN "pickup" ELSE "key"
        /\ call'[p].peer = table /\ call'[p].toRemote = None
        /\ OneCall' /\ \A q \in Polls \ {p} : Placed(q)' /\ BundleDated(q)'
    <3>1. call[p].toRemote = None
      BY <2>1, CallFields DEF Equipped
    <3>2. call[p].pc # "idle"
      BY <2>1
    <3> DEFINE c == [call[p] EXCEPT !.peer = table,
                                    !.pc = IF info[table].key THEN "pickup" ELSE "key"]
    <3>3. /\ c.pc = IF info[table].key THEN "pickup" ELSE "key"
          /\ c.peer = table /\ c.toRemote = None
      BY <1>0, <3>1 DEF Calls
    <3>4. call' = [call EXCEPT ![p] = c]
      BY <2>1
    <3> HIDE DEF c
    <3>5. QED
      BY <1>0, <3>2, <3>3, <3>4, OthersIdle
  <2>3. CountedInTable' /\ \A o \in PeerInfos : DroppedOffBefore(o)'
    <3>1. \A o \in PeerInfos : info'[o] = info[o] /\ (info[o].tx = 0 \/ o = table')
      BY <1>0, <2>1 DEF CountedInTable, Infos
    <3>2. call[p].pc \notin {"idle", "count"} /\ UNCHANGED <<stamp, atRemote>>
      BY <2>1
    <3>3. QED
      BY <1>0, <3>1, <3>2, CountsStay
  <2>4. Placed(p)' /\ BundleDated(p)'
    BY <2>1, <2>2 DEF Placed, BundleDated
  <2>5. QED
    BY <1>0, <2>1, <2>2, <2>3, <2>4 DEF Explained, SentByNow
<1>3. CASE GetKey(p)
  <2> DEFINE old    == info[call[p].peer]
             copied == [info EXCEPT ![Fresh] = [old EXCEPT !.key = TRUE]]
  <2>1. /\ call[p].pc = "key" /\ call' = [call EXCEPT ![p] = [call[p] EXCEPT !.pc = "pickup"]]
        /\ UNCHANGED <<now, stamp, atRemote>>
        /\ info' = Swept(copied, Fresh, call) /\ table' = Fresh
    BY <1>3 DEF GetKey, Goto, nodes
  <2>2. /\ call'[p].pc = "pickup" /\ call'[p].toRemote = None /\ call'[p].peer = call[p].peer
        /\ OneCall' /\ \A q \in Polls \ {p} : Placed(q)' /\ BundleDated(q)'
    BY <1>0, <2>1, OthersIdle, CallFields DEF Calls, Equipped
  <2>3. /\ call[p].peer \in PeerInfos /\ call[p].peer = table /\ ~ old.key
        /\ Fresh \in PeerInfos /\ Fresh # call[p].peer
    BY <1>0, <2>1, CallFields, FreshIsFree DEF Equipped, Placed, InUse
  <2>4. \A o \in PeerInfos : info[o].tx = 0
    BY <1>0, <2>3 DEF CountedInTable, Infos
  <2>5. copied \in [PeerInfos -> Infos]
    <3>1. [old EXCEPT !.key = TRUE] \in Infos
      BY <1>0, <2>3 DEF Infos
    <3>2. QED
      BY <1>0, <3>1
  <2>6. \A o \in PeerInfos : copied[o].tx = 0
    <3>1. old \in Infos /\ old.tx = 0
      BY <1>0, <2>3, <2>4
    <3>2. [old EXCEPT !.key = TRUE].tx = 0
      BY <3>1 DEF Infos
    <3>3. QED
      BY <1>0, <2>3, <2>4, <3>2
  <2>7. \A o \in PeerInfos : info'[o].tx = 0
    <3> HIDE DEF copied
    <3>1. QED
      BY <2>1, <2>5, <2>6, SweptInfos DEF NewInfo
  <2>8. CountedInTable' /\ \A o \in PeerInfos : DroppedOffBefore(o)'
    BY <1>0, <2>1, <2>7, CountsStay
  <2>9. Placed(p)' /\ BundleDated(p)'
    <3>1. info'[call[p].peer] \in {info[call[p].peer], NewInfo}
      <4>1. copied[call[p].peer] = info[call[p].peer]
        BY <1>0, <2>3
      <4> HIDE DEF copied
      <4>2. QED
        BY <2>1, <2>3, <2>5, <4>1, SweptInfos
    <3>2. ~ info'[call[p].peer].key
      BY <2>3, <3>1 DEF NewInfo
    <3>3. QED
      BY <2>2, <3>2 DEF Placed, BundleDated
  <2>10. QED
    BY <1>0, <2>1, <2>2, <2>8, <2>9 DEF Explained, SentByNow
<1>4. CASE Panic(p)
  <2>1. call[p].pc \notin {"idle", "count"} /\ UNCHANGED <<now, stamp, atRemote>>
    BY <1>4 DEF Panic, UnwrapsNone, nodes
  <2>2. CASE End(p, info)
    BY <1>0, <2>1, <2>2, EndExplained
  <2>3. CASE Abort
    <3>1. \A q \in Polls : call'[q].pc = "idle" /\ call'[q].toRemote = None
      BY <2>3 DEF Abort, Idle
    <3>2. \A o \in PeerInfos : info'[o].tx = 0
      BY <2>3 DEF Abort, NewInfo
    <3>3. OneCall' /\ CountedInTable' /\ \A q \in Polls : Placed(q)' /\ BundleDated(q)'
      BY <3>1, <3>2 DEF OneCall, CountedInTable, Placed, BundleDated
    <3>4. SentByNow' /\ \A o \in PeerInfos : DroppedOffBefore(o)'
      BY <1>0, <2>1, <3>2 DEF SentByNow, DroppedOffBefore
    <3>5. QED
      BY <3>3, <3>4 DEF Explained
  <2>4. QED
    BY <1>4, <2>2, <2>3, PanicEnds
<1>5. CASE PickupLocal(p)
  <2> DEFINE mine == info[call[p].peer]
             b    == Bundle(Up, mine.local)
  <2>1. /\ call[p].pc = "pickup" /\ mine.key /\ UNCHANGED <<now, stamp, atRemote, info, table>>
        /\ call' = [call EXCEPT ![p] = [call[p] EXCEPT !.pc = "ask", !.since = mine.remote,
                                                       !.toRemote = b]]
    BY <1>5 DEF PickupLocal, nodes, peers
  <2>2. /\ call'[p].pc = "ask" /\ call'[p].toRemote = b /\ call'[p].peer = call[p].peer
        /\ OneCall' /\ \A q \in Polls \ {p} : Placed(q)' /\ BundleDated(q)'
    <3> HIDE DEF mine, b
    <3>1. QED
      BY <1>0, <2>1, OthersIdle DEF Calls
  <2>3. CountedInTable' /\ \A o \in PeerInfos : DroppedOffBefore(o)'
    <3>1. \A o \in PeerInfos : info'[o] = info[o] /\ (info[o].tx = 0 \/ o = table')
      BY <1>0, <2>1 DEF CountedInTable, Infos
    <3>2. call[p].pc \notin {"idle", "count"} /\ UNCHANGED <<stamp, atRemote>>
      BY <2>1
    <3>3. QED
      BY <1>0, <3>1, <3>2, CountsStay
  <2>4. Placed(p)'
    BY <1>0, <2>1, <2>2 DEF Placed
  <2>5. BundleDated(p)'
    <3>1. call[p].peer \in PeerInfos /\ mine.local \in Nat
      BY <1>0, <2>1, CallFields DEF Equipped, Infos
    <3>2. /\ b.time = now
          /\ \A m \in b.data : m \in Up /\ stamp[m] # None /\ stamp[m] >= mine.local
      BY DEF Bundle
    <3>3. \A m \in Up : stamp[m] # None => stamp[m] <= now
      BY <1>0 DEF SentByNow
    <3> HIDE DEF b
    <3>4. QED
      BY <1>0, <2>1, <2>2, <3>2, <3>3 DEF BundleDated, SentByNow, TypeOK
  <2>6. QED
    BY <1>0, <2>1, <2>2, <2>3, <2>4, <2>5 DEF Explained, SentByNow
<1>6. CASE PickupRemote(p)
  <2> DEFINE b == Bundle(Down, call[p].since)
  <2>1. /\ call[p].pc = "ask" /\ UNCHANGED <<now, stamp, atRemote, info, table>>
        /\ call' = [call EXCEPT ![p] = [call[p] EXCEPT !.pc = "hand", !.since = None,
                                                       !.toLocal = b]]
    BY <1>6 DEF PickupRemote, nodes, peers
  <2>2. /\ call'[p].pc = "hand" /\ call'[p].toRemote = call[p].toRemote
        /\ call'[p].peer = call[p].peer
        /\ OneCall' /\ \A q \in Polls \ {p} : Placed(q)' /\ BundleDated(q)'
    <3> HIDE DEF b
    <3>1. QED
      BY <1>0, <2>1, OthersIdle DEF Calls
  <2>3. CountedInTable' /\ \A o \in PeerInfos : DroppedOffBefore(o)'
    <3>1. \A o \in PeerInfos : info'[o] = info[o] /\ (info[o].tx = 0 \/ o = table')
      BY <1>0, <2>1 DEF CountedInTable, Infos
    <3>2. call[p].pc \notin {"idle", "count"} /\ UNCHANGED <<stamp, atRemote>>
      BY <2>1
    <3>3. QED
      BY <1>0, <3>1, <3>2, CountsStay
  <2>4. Placed(p)' /\ BundleDated(p)'
    BY <1>0, <2>1, <2>2 DEF Placed, BundleDated
  <2>5. QED
    BY <1>0, <2>1, <2>2, <2>3, <2>4 DEF Explained, SentByNow
<1>7. CASE DropoffRemote(p)
  <2> DEFINE b == call[p].toRemote
  <2>1. /\ call[p].pc = "hand" /\ UNCHANGED <<now, stamp, info, table>>
        /\ b # None /\ atRemote' = atRemote \cup b.data
        /\ call' = [call EXCEPT ![p] = [call[p] EXCEPT !.pc = "count"]]
    BY <1>7 DEF DropoffRemote, HasData, Goto, peers
  <2>2. /\ call'[p].pc = "count" /\ call'[p].toRemote = b /\ call'[p].peer = call[p].peer
        /\ OneCall' /\ \A q \in Polls \ {p} : Placed(q)' /\ BundleDated(q)'
    <3> HIDE DEF b
    <3>1. QED
      BY <1>0, <2>1, OthersIdle DEF Calls, b
  <2>3. /\ \A m \in b.data : stamp[m] # None /\ stamp[m] <= b.time
        /\ \A m \in atRemote : stamp[m] <= b.time
    BY <1>0, <2>1 DEF BundleDated
  <2>4. Placed(p)' /\ BundleDated(p)'
    <3> HIDE DEF b
    <3>1. QED
      BY <1>0, <2>1, <2>2, <2>3 DEF Placed, BundleDated
  <2>5. SentByNow' /\ CountedInTable'
    BY <1>0, <2>1, <2>3 DEF SentByNow, CountedInTable
  <2>6. ASSUME NEW o \in PeerInfos PROVE DroppedOffBefore(o)'
    <3>1. \A q \in Polls : call[q].pc # "count"
      BY <1>0, <2>1 DEF OneCall
    <3>2. \A m \in atRemote : info[o].tx = 2 => stamp[m] <= info[o].local
      BY <1>0, <3>1 DEF DroppedOffBefore
    <3> HIDE DEF b
    <3>3. QED
      BY <2>1, <2>2, <3>2 DEF DroppedOffBefore
  <2>7. QED
    BY <2>2, <2>4, <2>5, <2>6 DEF Explained
<1>8. CASE SkipDropoff(p)
  <2>1. /\ call[p].pc = "hand" /\ UNCHANGED <<now, stamp, atRemote, info, table>>
        /\ call' = [call EXCEPT ![p] = [call[p] EXCEPT !.pc = "take", !.toRemote = None]]
    BY <1>8 DEF SkipDropoff, nodes, peers
  <2>2. /\ call'[p].pc = "take" /\ call'[p].toRemote = None /\ call'[p].peer = call[p].peer
        /\ OneCall' /\ \A q \in Polls \ {p} : Placed(q)' /\ BundleDated(q)'
    BY <1>0, <2>1, OthersIdle DEF Calls
  <2>3. CountedInTable' /\ \A o \in PeerInfos : DroppedOffBefore(o)'
    <3>1. \A o \in PeerInfos : info'[o] = info[o] /\ (info[o].tx = 0 \/ o = table')
      BY <1>0, <2>1 DEF CountedInTable, Infos
    <3>2. call[p].pc \notin {"idle", "count"} /\ UNCHANGED <<stamp, atRemote>>
      BY <2>1
    <3>3. QED
      BY <1>0, <3>1, <3>2, CountsStay
  <2>4. Placed(p)' /\ BundleDated(p)'
    BY <1>0, <2>1, <2>2 DEF Placed, BundleDated
  <2>5. QED
    BY <1>0, <2>1, <2>2, <2>3, <2>4 DEF Explained, SentByNow
<1>9. CASE CountSent(p)
  <2> DEFINE mine  == info[call[p].peer]
             b     == call[p].toRemote
             moved == IF mine.tx > 0 THEN b.time ELSE mine.local
             after == [mine EXCEPT !.local = moved, !.tx = Counted(mine.tx)]
  <2>1. /\ call[p].pc = "count" /\ UNCHANGED <<now, stamp, atRemote, table>>
        /\ info' = [info EXCEPT ![call[p].peer] = after]
        /\ call' = [call EXCEPT ![p] = [call[p] EXCEPT !.pc = "take", !.toRemote = None]]
    BY <1>9 DEF CountSent, nodes
  <2>2. /\ call'[p].pc = "take" /\ call'[p].toRemote = None /\ call'[p].peer = call[p].peer
        /\ OneCall' /\ \A q \in Polls \ {p} : Placed(q)' /\ BundleDated(q)'
    BY <1>0, <2>1, OthersIdle DEF Calls
  <2>3. /\ call[p].peer \in PeerInfos /\ call[p].peer = table /\ mine \in Infos
        /\ b # None /\ b \in Bundles(Up) /\ b.time \in Nat
    BY <1>0, <2>1, CallFields DEF Equipped, Placed, Bundles
  <2>4. /\ info'[table].tx = Counted(mine.tx) /\ info'[table].local = moved
        /\ info'[table].key = mine.key
        /\ \A o \in PeerInfos : o # table => info'[o] = info[o]
    BY <1>0, <2>1, <2>3 DEF Infos
  <2>5. \A o \in PeerInfos : o # table => info[o].tx = 0
    BY <1>0 DEF CountedInTable, Infos
  <2>6. mine.key
    BY <1>0, <2>1, <2>3 DEF Placed
  <2>7. CountedInTable'
    BY <2>1, <2>3, <2>4, <2>5, <2>6 DEF CountedInTable
  <2>8. \A o \in PeerInfos : DroppedOffBefore(o)'
    <3>1. mine.tx > 0 => \A m \in atRemote : stamp[m] <= info'[table].local
      BY <1>0, <2>3, <2>4 DEF BundleDated
    <3>2. info'[table].tx = 2 => mine.tx > 0
      BY <2>3, <2>4 DEF Counted, Infos
    <3> HIDE DEF mine, b, moved, after
    <3>3. QED
      BY <2>1, <2>3, <2>4, <2>5, <3>1, <3>2 DEF DroppedOffBefore
  <2>9. Placed(p)' /\ BundleDated(p)'
    BY <1>0, <2>1, <2>2, <2>3 DEF Placed, BundleDated
  <2>10. QED
    BY <1>0, <2>1, <2>2, <2>7, <2>8, <2>9 DEF Explained, SentByNow
<1>10. CASE DropoffLocal(p)
  <2>1. /\ call[p].pc = "take" /\ UNCHANGED <<now, stamp, atRemote, info, table>>
        /\ call' = [call EXCEPT ![p] = [call[p] EXCEPT !.pc = "record"]]
    BY <1>10 DEF DropoffLocal, Goto, peers
  <2>2. /\ call'[p].pc = "record" /\ call'[p].toRemote = None /\ call'[p].peer = call[p].peer
        /\ OneCall' /\ \A q \in Polls \ {p} : Placed(q)' /\ BundleDated(q)'
    BY <1>0, <2>1, OthersIdle, CallFields DEF Calls, Equipped
  <2>3. CountedInTable' /\ \A o \in PeerInfos : DroppedOffBefore(o)'
    <3>1. \A o \in PeerInfos : info'[o] = info[o] /\ (info[o].tx = 0 \/ o = table')
      BY <1>0, <2>1 DEF CountedInTable, Infos
    <3>2. call[p].pc \notin {"idle", "count"} /\ UNCHANGED <<stamp, atRemote>>
      BY <2>1
    <3>3. QED
      BY <1>0, <3>1, <3>2, CountsStay
  <2>4. Placed(p)' /\ BundleDated(p)'
    BY <1>0, <2>1, <2>2 DEF Placed, BundleDated
  <2>5. QED
    BY <1>0, <2>1, <2>2, <2>3, <2>4 DEF Explained, SentByNow
<1>11. CASE EndWithout(p)
  <2>1. End(p, info) /\ call[p].pc \notin {"idle", "count"} /\ UNCHANGED <<now, stamp, atRemote>>
    BY <1>11 DEF EndWithout, nodes
  <2>2. QED
    BY <1>0, <2>1, EndExplained
<1>12. CASE RecordReceived(p)
  <2> DEFINE objects == [info EXCEPT ![call[p].peer].remote = call[p].toLocal.time]
  <2>1. /\ End(p, objects) /\ call[p].pc \notin {"idle", "count"}
        /\ UNCHANGED <<now, stamp, atRemote>>
    BY <1>12 DEF RecordReceived, nodes
  <2>2. call[p].peer \in PeerInfos /\ call[p].toLocal.time \in Nat
    BY <1>12, CallFields DEF RecordReceived, Equipped, Bundles
  <2>3. /\ objects \in [PeerInfos -> Infos]
        /\ \A o \in PeerInfos : objects[o].tx = info[o].tx /\ objects[o].key = info[o].key
                                  /\ objects[o].local = info[o].local
    BY <1>0, <2>2 DEF Infos
  <2> HIDE DEF objects
  <2>4. QED
    BY <1>0, <2>1, <2>3, EndExplained
<1>13. QED
  BY <1>1, <1>2, <1>3, <1>4, <1>5, <1>6, <1>7, <1>8, <1>9, <1>10, <1>11, <1>12 DEF Step

\* Alone or not, and whether or not something fails, a step of the others keeps it.
LEMMA StepAlone ==
  ASSUME TypeOK, Alone, [Next]_vars
  PROVE  Alone'
<1> SUFFICES ASSUME ~ overlap', faults' = 0 PROVE Explained'
  BY DEF Alone
<1> USE PollServerAssumption
<1>1. ASSUME NEW p \in Polls, Step(p)
      PROVE  Explained'
  <2>1. UNCHANGED <<faults, overlap>>
    BY <1>1, PanicEnds DEF Abort, world, Step, Create, Load, GetKey, PickupLocal, PickupRemote,
         DropoffRemote, SkipDropoff, CountSent, DropoffLocal, EndWithout, RecordReceived
  <2>2. QED
    BY <1>1, <2>1, StepExplained DEF Alone
<1>2. ASSUME NEW p \in Polls, Begin(p)
      PROVE  Explained'
  <2> DEFINE label == IF table = None THEN "create" ELSE "load"
  <2>1. /\ \A q \in Polls : call[q].pc = "idle" /\ call[q].toRemote = None
        /\ call' = [call EXCEPT ![p] = [call[p] EXCEPT !.pc = label]]
        /\ UNCHANGED <<now, stamp, atRemote, info, table>> /\ Explained
    BY <1>2, CallFields DEF Begin, Goto, nodes, peers, Equipped, Alone
  <2>2. /\ call'[p].pc = label /\ call'[p].toRemote = None
        /\ \A q \in Polls : q # p => call'[q] = call[q]
    BY <2>1 DEF TypeOK, Calls
  <2>3. OneCall' /\ \A q \in Polls : Placed(q)' /\ BundleDated(q)'
    BY <2>1, <2>2 DEF OneCall, Placed, BundleDated
  <2>4. CountedInTable' /\ SentByNow' /\ \A o \in PeerInfos : DroppedOffBefore(o)'
    BY <2>1 DEF Explained, CountedInTable, SentByNow, DroppedOffBefore
  <2>5. QED
    BY <2>3, <2>4 DEF Explained
<1>3. ASSUME NEW p \in Polls, NoBundle(p) \/ AnswerLost(p) \/ Fail(p)
      PROVE  Explained'
  BY <1>3 DEF NoBundle, AnswerLost, Fail, Fault, TypeOK
<1>4. CASE AddPeer \/ RemovePeer
  BY <1>4 DEF AddPeer, RemovePeer, Fault, TypeOK
<1>5. CASE Tick \/ UNCHANGED vars
  <2>1. /\ UNCHANGED <<stamp, atRemote, info, table, call>> /\ Explained
        /\ now \in Nat /\ now' \in Nat /\ now <= now'
        /\ stamp \in [Up \cup Down -> Nat \cup {None}] /\ atRemote \subseteq Up
    BY <1>5 DEF Tick, vars, nodes, peers, world, TypeOK, Alone
  <2>2. SentByNow'
    BY <2>1 DEF Explained, SentByNow
  <2>3. OneCall' /\ CountedInTable' /\ \A q \in Polls : Placed(q)'
    BY <2>1 DEF Explained, OneCall, CountedInTable, Placed
  <2>4. (\A q \in Polls : BundleDated(q)') /\ (\A o \in PeerInfos : DroppedOffBefore(o)')
    BY <2>1 DEF Explained, BundleDated, DroppedOffBefore
  <2>5. QED
    BY <2>2, <2>3, <2>4 DEF Explained
<1>6. ASSUME NEW m \in Up \cup Down, SendMsg(m)
      PROVE  Explained'
  <2>1. /\ UNCHANGED <<now, atRemote, info, table, call>> /\ Explained
        /\ stamp[m] = None /\ stamp' = [stamp EXCEPT ![m] = now]
        /\ now \in Nat
        /\ stamp \in [Up \cup Down -> Nat \cup {None}] /\ atRemote \subseteq Up
    BY <1>6 DEF SendMsg, peers, world, TypeOK, Alone
  <2>2. SentByNow'
    BY <2>1 DEF Explained, SentByNow
  <2>3. OneCall' /\ CountedInTable' /\ \A q \in Polls : Placed(q)'
    BY <2>1 DEF Explained, OneCall, CountedInTable, Placed
  <2>4. \A x \in atRemote : stamp'[x] = stamp[x]
    BY <2>1 DEF Explained, SentByNow
  <2>5. ASSUME NEW q \in Polls PROVE BundleDated(q)'
    <3> DEFINE b == call[q].toRemote
    <3>1. b # None => \A x \in b.data : stamp[x] # None /\ x \in Up
      BY <2>1, CallFields DEF Explained, BundleDated, Bundles
    <3>2. b # None => \A x \in b.data : stamp'[x] = stamp[x]
      BY <2>1, <3>1
    <3>3. BundleDated(q)
      BY <2>1 DEF Explained
    <3>4. QED
      BY <2>1, <2>4, <3>2, <3>3 DEF BundleDated
  <2>6. \A o \in PeerInfos : DroppedOffBefore(o)'
    BY <2>1, <2>4 DEF Explained, DroppedOffBefore
  <2>7. QED
    BY <2>2, <2>3, <2>5, <2>6 DEF Explained
<1>7. QED
  BY <1>1, <1>2, <1>3, <1>4, <1>5, <1>6 DEF Next

\* What is dropped off again is explained, for one call at a time and without failures.
LEMMA ExplainsRepeats == TypeOK /\ Alone => RepeatsExplained
<1> SUFFICES ASSUME TypeOK, Explained,
                    NEW p \in Polls, call[p].pc = "hand",
                    NEW m \in call[p].toRemote.data \cap atRemote,
                    ~ (info[call[p].peer].tx <= 1)
             PROVE  stamp[m] = info[call[p].peer].local
  BY DEF Alone, RepeatsExplained
<1> DEFINE o == call[p].peer
<1>1. o \in PeerInfos /\ info[o] \in Infos /\ call[p].toRemote # None /\ m \in Up
  BY CallFields DEF TypeOK, Equipped
<1>2. info[o].tx = 2 /\ info[o].local \in Nat
  BY <1>1 DEF Infos
<1>3. stamp[m] # None /\ stamp[m] >= info[o].local
  BY <1>1 DEF Explained, BundleDated
<1>4. stamp[m] \in Nat
  BY <1>1, <1>3 DEF TypeOK
<1>5. \A q \in Polls : call[q].pc # "count"
  BY DEF Explained, OneCall
<1>6. stamp[m] <= info[o].local
  BY <1>1, <1>2, <1>5 DEF Explained, DroppedOffBefore
<1>7. QED
  BY <1>2, <1>3, <1>4, <1>6

\* As long as no two calls overlap and nothing fails, a message is dropped off again
\* only by the second dropoff, or because it was sent in the second of last_poll_local.
THEOREM OnlyExplainedRepeats == Spec => []RepeatsExplained
<1>1. TypeOK /\ Alone /\ [Next]_vars => (TypeOK /\ Alone)'
  BY StepTypes, StepAlone
<1>2. Init => TypeOK /\ Alone
  BY InitTypes, InitAlone
<1>3. QED
  BY <1>1, <1>2, ExplainsRepeats, PTL DEF Spec
=============================================================================
