-------------------------- MODULE Lifecycle_proof ---------------------------
(***************************************************************************)
(* Theorems about Lifecycle: the types of its state, that a policy and its *)
(* transport agree when no call is under way, and that the node and its    *)
(* policies do when starts and stops came one after the other, for any     *)
(* policies, any callers and any number of calls.                          *)
(***************************************************************************)
EXTENDS Lifecycle, FiniteSetTheorems, SequenceTheorems, TLAPS

-----------------------------------------------------------------------------
\* What is left of a list of policies when the first is done.
LEMMA TailOfList ==
  ASSUME NEW s \in Seq(Policies), s # << >>
  PROVE  /\ Head(s) \in Policies /\ Tail(s) \in Seq(Policies)
         /\ Head(s) \in ToSet(s) /\ ToSet(Tail(s)) \subseteq ToSet(s)
         /\ ToSet(s) = ToSet(Tail(s)) \cup {Head(s)}
         /\ Len(s) = 1 <=> Tail(s) = << >>
<1>1. /\ Head(s) \in Policies /\ Tail(s) \in Seq(Policies)
      /\ Len(s) \in Nat /\ Len(s) > 0 /\ Head(s) = s[1]
      /\ Len(Tail(s)) = Len(s) - 1
      /\ \A i \in 1..Len(Tail(s)) : Tail(s)[i] = s[i + 1]
  BY HeadTailProperties, LenProperties, EmptySeq
<1>2. DOMAIN s = 1..Len(s) /\ DOMAIN Tail(s) = 1..Len(Tail(s))
  BY <1>1, LenProperties
<1>3. ToSet(s) \subseteq ToSet(Tail(s)) \cup {Head(s)}
  <2> SUFFICES ASSUME NEW i \in 1..Len(s)
               PROVE  s[i] \in ToSet(Tail(s)) \cup {Head(s)}
    BY <1>2 DEF ToSet
  <2>1. CASE i = 1
    BY <1>1, <2>1
  <2>2. CASE i # 1
    <3>1. i - 1 \in 1..Len(Tail(s)) /\ Tail(s)[i - 1] = s[i]
      BY <1>1, <2>2
    <3> QED
      BY <1>2, <3>1 DEF ToSet
  <2> QED
    BY <2>1, <2>2
<1>4. ToSet(Tail(s)) \subseteq ToSet(s)
  <2> SUFFICES ASSUME NEW i \in 1..Len(Tail(s))
               PROVE  Tail(s)[i] \in ToSet(s)
    BY <1>2 DEF ToSet
  <2>1. i + 1 \in 1..Len(s) /\ Tail(s)[i] = s[i + 1]
    BY <1>1
  <2> QED
    BY <1>2, <2>1 DEF ToSet
<1>5. Head(s) \in ToSet(s)
  BY <1>1, <1>2 DEF ToSet
<1>6. Len(s) = 1 <=> Tail(s) = << >>
  BY <1>1, EmptySeq
<1> QED
  BY <1>1, <1>3, <1>4, <1>5, <1>6

\* The first is not there again in what is left, and nothing else is there twice.
LEMMA TailInjective ==
  ASSUME NEW s \in Seq(Policies), s # << >>, IsInjective(s)
  PROVE  IsInjective(Tail(s)) /\ Head(s) \notin ToSet(Tail(s))
<1>1. /\ Len(s) \in Nat /\ Len(s) > 0 /\ Head(s) = s[1]
      /\ Len(Tail(s)) = Len(s) - 1
      /\ \A i \in 1..Len(Tail(s)) : Tail(s)[i] = s[i + 1]
      /\ Tail(s) \in Seq(Policies)
  BY HeadTailProperties, LenProperties, EmptySeq
<1>2. DOMAIN s = 1..Len(s) /\ DOMAIN Tail(s) = 1..Len(Tail(s))
  BY <1>1, LenProperties
<1>3. \A i, j \in 1..Len(s) : s[i] = s[j] => i = j
  BY <1>2 DEF IsInjective
<1>4. ASSUME NEW i \in 1..Len(Tail(s))
      PROVE  i + 1 \in 1..Len(s) /\ Tail(s)[i] = s[i + 1]
  BY <1>1
<1>5. ASSUME NEW i \in 1..Len(Tail(s)), NEW j \in 1..Len(Tail(s)), Tail(s)[i] = Tail(s)[j]
      PROVE  i = j
  BY <1>3, <1>4, <1>5
<1>6. ASSUME NEW i \in 1..Len(Tail(s)), Tail(s)[i] = Head(s)
      PROVE  FALSE
  BY <1>1, <1>3, <1>4, <1>6
<1> QED
  BY <1>2, <1>5, <1>6 DEF IsInjective, ToSet

\* What is left of the end of a list is an end of it.
LEMMA TailIsSuffix ==
  ASSUME NEW s \in Seq(Policies), s # << >>, NEW l \in Seq(Policies), IsSuffix(s, l)
  PROVE  IsSuffix(Tail(s), l)
<1> DEFINE m == Len(s)
           n == Len(l)
<1>1. /\ m \in Nat /\ m > 0 /\ n \in Nat
      /\ Tail(s) \in Seq(Policies) /\ Len(Tail(s)) = m - 1
      /\ \A i \in 1..(m - 1) : Tail(s)[i] = s[i + 1]
  BY HeadTailProperties, LenProperties, EmptySeq
<1>2. /\ Reverse(s) = [i \in 1..m |-> s[(m - i) + 1]]
      /\ Reverse(l) = [i \in 1..n |-> l[(n - i) + 1]]
      /\ Reverse(Tail(s)) = [i \in 1..(m - 1) |-> Tail(s)[((m - 1) - i) + 1]]
  BY <1>1 DEF Reverse
<1>3. /\ Reverse(s) \in Seq(Policies) /\ Len(Reverse(s)) = m
      /\ Reverse(l) \in Seq(Policies) /\ Len(Reverse(l)) = n
      /\ Reverse(Tail(s)) \in Seq(Policies) /\ Len(Reverse(Tail(s))) = m - 1
  BY <1>1 DEF Reverse
<1>4. m <= n /\ SubSeq(Reverse(s), 1, m) = SubSeq(Reverse(l), 1, m)
  BY <1>3 DEF IsSuffix, IsPrefix
<1>5. ASSUME NEW i \in 1..(m - 1)
      PROVE  Reverse(Tail(s))[i] = Reverse(l)[i]
  <2>1. Reverse(Tail(s))[i] = Reverse(s)[i]
    <3>1. ((m - 1) - i) + 1 = m - i /\ m - i \in 1..(m - 1) /\ i \in 1..m
      BY <1>1
    <3>2. Reverse(Tail(s))[i] = Tail(s)[m - i]
      BY <1>2, <3>1
    <3>3. Tail(s)[m - i] = s[(m - i) + 1]
      BY <1>1, <3>1
    <3>4. Reverse(s)[i] = s[(m - i) + 1]
      BY <1>2, <3>1
    <3> QED
      BY <3>2, <3>3, <3>4
  <2>2. Reverse(s)[i] = SubSeq(Reverse(s), 1, m)[i]
    BY <1>1, <1>3, SubSeqProperties
  <2>3. Reverse(l)[i] = SubSeq(Reverse(l), 1, m)[i]
    BY <1>1, <1>3, <1>4, SubSeqProperties
  <2> QED
    BY <1>4, <2>1, <2>2, <2>3
<1> DEFINE a == SubSeq(Reverse(Tail(s)), 1, m - 1)
           b == SubSeq(Reverse(l), 1, m - 1)
<1>6. /\ a \in Seq(Policies) /\ Len(a) = m - 1
      /\ \A i \in 1..(m - 1) : a[i] = Reverse(Tail(s))[i]
  BY <1>1, <1>3, SubSeqProperties
<1>7. /\ b \in Seq(Policies) /\ Len(b) = m - 1
      /\ \A i \in 1..(m - 1) : b[i] = Reverse(l)[i]
  BY <1>1, <1>3, <1>4, SubSeqProperties
<1>8. a = b
  BY <1>5, <1>6, <1>7, SeqEqual
<1> QED
  BY <1>1, <1>3, <1>4, <1>8 DEF IsSuffix, IsPrefix

\* A list is an end of itself.
LEMMA SuffixOfItself ==
  ASSUME NEW s
  PROVE  IsSuffix(s, s)
BY DEF IsSuffix, IsPrefix

-----------------------------------------------------------------------------
\* Where a call can be in its code, by what it does and by the policy it is at.
Placed(c) ==
  /\ c.todo = << >> \/ \E s \in Settings : IsSuffix(c.todo, s)
  /\ c.at \in {"over", "read"} <=> c.todo = << >>
  /\ IsInjective(c.todo)
  /\ c.at # "over" => c.op \in {"start", "stop"}
  /\ c.at \in {"bind", "listen", "loops", "panicked"} =>
       c.op = "start" /\ Type[Head(c.todo)] = "p2p"
  /\ c.at \in {"transport", "drain"} => c.op = "stop" /\ Type[Head(c.todo)] # "poll"
  /\ c.at \in {"lower", "close"} => c.op = "stop" /\ Type[Head(c.todo)] = "p2p"

CallRecords == [op : {None, "start", "stop"}, todo : Seq(Policies), at : Labels]
Places ==
  /\ call \in [Callers -> CallRecords]
  /\ \A t \in Callers : Placed(call[t])

\* A policy that is still to come is one, and its type is known.
LEMMA AtAPolicy ==
  ASSUME Places, NEW t \in Callers, call[t].at \notin {"over", "read"}
  PROVE  /\ call[t].todo \in Seq(Policies) /\ call[t].todo # << >>
         /\ Head(call[t].todo) \in Policies /\ call[t].op \in {"start", "stop"}
         /\ Type[Head(call[t].todo)] # "poll" => Head(call[t].todo) \in Listeners
<1>1. call[t].todo \in Seq(Policies) /\ Placed(call[t])
  BY DEF Places, CallRecords
<1>2. call[t].todo # << >> /\ call[t].op \in {"start", "stop"}
  BY <1>1 DEF Placed
<1>3. Head(call[t].todo) \in Policies
  BY <1>1, <1>2, TailOfList
<1> QED
  BY <1>1, <1>2, <1>3 DEF Listeners

\* What Goto makes of a call, ...
LEMMA AfterGoto ==
  ASSUME Places, NEW t \in Callers, NEW label, Goto(t, label)
  PROVE  /\ call' = [call EXCEPT ![t] = call'[t]]
         /\ call'[t] = [op |-> call[t].op, todo |-> call[t].todo, at |-> label]
         /\ \A u \in Callers : u # t => call'[u] = call[u]
BY DEF Places, CallRecords, Goto

\* ... and Done.
LEMMA AfterDone ==
  ASSUME Places, NEW t \in Callers, Done(t)
  PROVE  /\ call' = [call EXCEPT ![t] = call'[t]]
         /\ call'[t] = [op |-> call[t].op, todo |-> Tail(call[t].todo),
                        at |-> IF Len(call[t].todo) = 1 THEN "over" ELSE "next"]
         /\ \A u \in Callers : u # t => call'[u] = call[u]
BY DEF Places, CallRecords, Done

\* A call that goes on to the next label of its code is at a place of it.
LEMMA GotoPlaced ==
  ASSUME Places, NEW t \in Callers, call[t].at \notin {"over", "read"},
         NEW label \in Labels \ {"over", "read"}, Goto(t, label),
         label \in {"bind", "listen", "loops", "panicked"} =>
           call[t].op = "start" /\ Type[Head(call[t].todo)] = "p2p",
         label \in {"transport", "drain"} =>
           call[t].op = "stop" /\ Type[Head(call[t].todo)] # "poll",
         label \in {"lower", "close"} =>
           call[t].op = "stop" /\ Type[Head(call[t].todo)] = "p2p"
  PROVE  Places'
<1>1. Placed(call[t]) /\ call[t] \in CallRecords
  BY DEF Places
<1>2. /\ call' = [call EXCEPT ![t] = call'[t]]
      /\ call'[t] = [op |-> call[t].op, todo |-> call[t].todo, at |-> label]
      /\ \A u \in Callers : u # t => call'[u] = call[u]
  BY AfterGoto
<1>3. call'[t] \in CallRecords
  BY <1>1, <1>2 DEF CallRecords
<1>4. /\ call'[t].op = call[t].op /\ call'[t].todo = call[t].todo /\ call'[t].at = label
  BY <1>2
<1>5. Placed(call'[t])
  BY <1>1, <1>4 DEF Placed
<1>6. \A u \in Callers : Placed(call'[u])
  BY <1>2, <1>5 DEF Places
<1> QED
  BY <1>2, <1>3, <1>6 DEF Places

\* A call that is done with a policy is at the next, or over.
LEMMA DonePlaced ==
  ASSUME Places, NEW t \in Callers, call[t].at \notin {"over", "read"}, Done(t)
  PROVE  Places'
<1> DEFINE s == call[t].todo
<1>1. Placed(call[t]) /\ call[t] \in CallRecords
  BY DEF Places
<1>2. s \in Seq(Policies) /\ s # << >> /\ call[t].op \in {"start", "stop"}
  BY AtAPolicy
<1>3. /\ call' = [call EXCEPT ![t] = call'[t]]
      /\ call'[t] = [op |-> call[t].op, todo |-> Tail(s),
                     at |-> IF Len(s) = 1 THEN "over" ELSE "next"]
      /\ \A u \in Callers : u # t => call'[u] = call[u]
  BY AfterDone
<1>4. /\ Tail(s) \in Seq(Policies) /\ IsInjective(Tail(s))
      /\ Len(s) = 1 <=> Tail(s) = << >>
  BY <1>1, <1>2, TailOfList, TailInjective DEF Placed
<1>5. \E l \in Settings : IsSuffix(Tail(s), l)
  <2>1. PICK l \in Settings : IsSuffix(s, l)
    BY <1>1, <1>2 DEF Placed
  <2>2. l \in Seq(Policies)
    BY LifecycleAssumption
  <2> QED
    BY <1>2, <2>1, <2>2, TailIsSuffix
<1>6. call'[t] \in CallRecords
  BY <1>1, <1>3, <1>4 DEF CallRecords, Labels
<1>7. /\ call'[t].op = call[t].op /\ call'[t].todo = Tail(s)
      /\ call'[t].at = IF Len(s) = 1 THEN "over" ELSE "next"
  BY <1>3
<1>8. Placed(call'[t])
  BY <1>2, <1>4, <1>5, <1>7 DEF Placed
<1>9. \A u \in Callers : Placed(call'[u])
  BY <1>3, <1>8 DEF Places
<1> QED
  BY <1>3, <1>6, <1>9 DEF Places

-----------------------------------------------------------------------------
\* The types, but for how many loops and listens there can be.
NodeKinds ==
  /\ policies \in Settings \cup {<< >>} /\ setting \in Settings \cup {None}
  /\ running \in BOOLEAN /\ orderly \in BOOLEAN /\ calls \in 0..MaxCalls
  /\ missed \subseteq Policies
PolicyKinds ==
  /\ flag \in [Policies -> BOOLEAN]
  /\ loops \in [Policies -> [look : Nat, tick : Nat]]
  /\ mdns \subseteq {"field", "loop"}
TransportKinds ==
  /\ via \in [Listeners -> Vias]
  /\ listens \in [Listeners -> [begin : Nat, bind : Nat]]
  /\ up \in [Listeners -> BOOLEAN]
  /\ served \in [Listeners -> BOOLEAN]
  /\ overtaken \subseteq Listeners /\ refused \subseteq Listeners
Kinds == NodeKinds /\ Places /\ PolicyKinds /\ TransportKinds

\* What is assumed of the bound.
LEMMA BoundIsNatural == MaxCalls \in Nat
BY LifecycleAssumption DEF LifecycleAssumption

\* The lists are lists of policies, each there once.
LEMMA ListsOfPolicies ==
  \A l \in Settings \cup {<< >>} : l \in Seq(Policies) /\ IsInjective(l)
<1>1. << >> \in Seq(Policies) /\ IsInjective(<< >>)
  BY EmptySeq DEF IsInjective
<1>2. \A l \in Settings : l \in Seq(Policies) /\ IsInjective(l)
  BY LifecycleAssumption DEF LifecycleAssumption
<1> QED
  BY <1>1, <1>2

\* The policies of a list are policies.
LEMMA ElementsArePolicies ==
  ASSUME NEW l \in Settings \cup {<< >>}
  PROVE  ToSet(l) \subseteq Policies
<1>1. l \in Seq(Policies)
  BY ListsOfPolicies
<1>2. \A i \in DOMAIN l : l[i] \in Policies
  BY <1>1, LenProperties, ElementOfSeq
<1> QED
  BY <1>2 DEF ToSet

\* The first state has them.
LEMMA InitKinds == Init => Kinds
<1> SUFFICES ASSUME Init PROVE Kinds
  OBVIOUS
<1>1. NodeKinds
  <2>1. 0 \in 0..MaxCalls
    BY BoundIsNatural
  <2> QED
    BY <2>1 DEF Init, NodeKinds
<1>2. Places
  <2>1. IsInjective(<< >>)
    BY DEF IsInjective
  <2>2. Idle \in CallRecords
    BY DEF Idle, CallRecords, Labels
  <2>3. Placed(Idle)
    BY <2>1 DEF Idle, Placed
  <2> QED
    BY <2>2, <2>3 DEF Init, Places
<1>3. PolicyKinds
  BY DEF Init, PolicyKinds
<1>4. TransportKinds
  BY DEF Init, TransportKinds
<1> QED
  BY <1>1, <1>2, <1>3, <1>4 DEF Kinds

\* A loop more.
LEMMA NewLoopsKinds ==
  ASSUME PolicyKinds, NEW p \in Policies, NEW n \in Nat, NewLoops(p, n)
  PROVE  /\ loops' \in [Policies -> [look : Nat, tick : Nat]]
         /\ loops'[p].look + loops'[p].tick = loops[p].look + loops[p].tick + n
         /\ \A q \in Policies : q # p => loops'[q] = loops[q]
BY SMTT(20) DEF PolicyKinds, NewLoops

\* A listen more.
LEMMA SpawnListenKinds ==
  ASSUME TransportKinds, NEW p \in Listeners, SpawnListen(p)
  PROVE  /\ listens' \in [Listeners -> [begin : Nat, bind : Nat]]
         /\ listens'[p].begin + listens'[p].bind = listens[p].begin + listens[p].bind + 1
         /\ \A q \in Listeners : q # p => listens'[q] = listens[q]
BY SMTT(20) DEF TransportKinds, SpawnListen

\* The next steps of a start keep the types ...
LEMMA StartKinds ==
  ASSUME Kinds, NEW t \in Callers,
         \/ ReadPolicies(t) \/ RunPoll(t) \/ RunServer(t) \/ RunP2P(t)
         \/ BindSockets(t) \/ ListenP2P(t) \/ RunLoops(t)
  PROVE  Kinds'
<1> DEFINE p == Head(call[t].todo)
<1> USE DEF Kinds
<1>1. CASE ReadPolicies(t)
  <2> DEFINE r == [op |-> call[t].op, todo |-> policies,
                   at |-> IF policies = << >> THEN "over" ELSE "next"]
  <2>1. call' = [call EXCEPT ![t] = r]
    BY <1>1 DEF ReadPolicies, Places, CallRecords
  <2>2. policies \in Seq(Policies) /\ IsInjective(policies)
    BY ListsOfPolicies DEF NodeKinds
  <2>3. call[t].op \in {"start", "stop"}
    BY <1>1 DEF ReadPolicies, Places, Placed
  <2>4. policies = << >> \/ \E s \in Settings : IsSuffix(policies, s)
    BY SuffixOfItself DEF NodeKinds
  <2>5. r \in CallRecords
    BY <2>2, <2>3 DEF CallRecords, Labels
  <2>6. Placed(r)
    BY <2>2, <2>3, <2>4 DEF Placed
  <2>7. Places'
    BY <2>1, <2>5, <2>6 DEF Places
  <2> QED
    BY <1>1, <2>7 DEF ReadPolicies, nodeVars, policyVars, transportVars, NodeKinds, PolicyKinds,
                      TransportKinds
<1>2. CASE RunPoll(t)
  <2>1. p \in Policies /\ call[t].at \notin {"over", "read"}
    BY <1>2, AtAPolicy DEF RunPoll, At
  <2>2. Places'
    BY <1>2, <2>1, DonePlaced DEF RunPoll
  <2>3. loops' \in [Policies -> [look : Nat, tick : Nat]]
    BY <1>2, <2>1, NewLoopsKinds DEF RunPoll, PolicyKinds
  <2> QED
    BY <1>2, <2>2, <2>3 DEF RunPoll, nodeVars, transportVars, NodeKinds, PolicyKinds,
                            TransportKinds
<1>3. CASE RunServer(t)
  <2>1. p \in Listeners /\ call[t].at \notin {"over", "read"}
    BY <1>3, AtAPolicy DEF RunServer, At
  <2>2. Places'
    BY <1>3, <2>1, DonePlaced DEF RunServer
  <2>3. listens' \in [Listeners -> [begin : Nat, bind : Nat]]
    BY <1>3, <2>1, SpawnListenKinds DEF RunServer, TransportKinds
  <2> QED
    BY <1>3, <2>2, <2>3 DEF RunServer, nodeVars, NodeKinds, PolicyKinds, TransportKinds
<1>4. CASE RunP2P(t)
  <2>1. call[t].at \notin {"over", "read"} /\ Type[p] = "p2p" /\ call[t].op = "start"
    BY <1>4 DEF RunP2P, At
  <2>2. Done(t) => Places'
    BY <2>1, DonePlaced
  <2>3. Goto(t, "bind") => Places'
    BY <2>1, GotoPlaced DEF Labels
  <2>4. Places'
    BY <1>4, <2>2, <2>3 DEF RunP2P
  <2> QED
    BY <1>4, <2>4 DEF RunP2P, nodeVars, policyVars, transportVars, NodeKinds, PolicyKinds,
                      TransportKinds
<1>5. CASE BindSockets(t)
  <2>1. /\ call[t].at \notin {"over", "read"} /\ Type[p] = "p2p" /\ call[t].op = "start"
        /\ p \in Listeners
    BY <1>5, AtAPolicy DEF BindSockets, Places, Placed
  <2>2. Done(t) => Places'
    BY <2>1, DonePlaced
  <2>3. Goto(t, "listen") => Places'
    BY <2>1, GotoPlaced DEF Labels
  <2>4. Places'
    BY <1>5, <2>2, <2>3 DEF BindSockets
  <2> QED
    BY <1>5, <2>1, <2>4 DEF BindSockets, nodeVars, transportVars, NodeKinds, PolicyKinds,
                            TransportKinds
<1>6. CASE ListenP2P(t)
  <2>1. /\ call[t].at \notin {"over", "read"} /\ Type[p] = "p2p" /\ call[t].op = "start"
        /\ p \in Listeners
    BY <1>6, AtAPolicy DEF ListenP2P, Places, Placed
  <2>2. Places'
    BY <1>6, <2>1, GotoPlaced DEF ListenP2P, Labels
  <2>3. listens' \in [Listeners -> [begin : Nat, bind : Nat]]
    BY <1>6, <2>1, SpawnListenKinds DEF ListenP2P
  <2> QED
    BY <1>6, <2>2, <2>3 DEF ListenP2P, nodeVars, NodeKinds, PolicyKinds, TransportKinds
<1>7. CASE RunLoops(t)
  <2>1. /\ call[t].at \notin {"over", "read"} /\ Type[p] = "p2p" /\ call[t].op = "start"
        /\ p \in Policies
    BY <1>7, AtAPolicy DEF RunLoops, Places, Placed
  <2>2. Done(t) => Places'
    BY <2>1, DonePlaced
  <2>3. Goto(t, "panicked") => Places'
    BY <2>1, GotoPlaced DEF Labels
  <2>4. Places'
    BY <1>7, <2>2, <2>3 DEF RunLoops
  <2>5. loops' \in [Policies -> [look : Nat, tick : Nat]]
    BY <1>7, <2>1, NewLoopsKinds DEF RunLoops, PolicyKinds
  <2> QED
    BY <1>7, <2>4, <2>5 DEF RunLoops, nodeVars, transportVars, NodeKinds, PolicyKinds,
                            TransportKinds
<1> QED
  BY <1>1, <1>2, <1>3, <1>4, <1>5, <1>6, <1>7

\* What follows the stop of a transport is at a place of the code, too.
LEMMA StopGoesOnPlaces ==
  ASSUME Places, NEW t \in Callers, call[t].at \in {"transport", "drain"}, StopGoesOn(t)
  PROVE  Places'
<1> DEFINE p == Head(call[t].todo)
<1>1. call[t].op = "stop" /\ call[t].at \notin {"over", "read"}
  BY DEF Places, Placed
<1>2. CASE Type[p] = "p2p"
  <2>1. Goto(t, "close")
    BY <1>2 DEF StopGoesOn
  <2> QED
    BY <1>1, <1>2, <2>1, GotoPlaced DEF Labels
<1>3. CASE Type[p] # "p2p"
  <2>1. Done(t)
    BY <1>3 DEF StopGoesOn
  <2> QED
    BY <1>1, <2>1, DonePlaced
<1> QED
  BY <1>2, <1>3

\* ... and so do those of a stop, ...
LEMMA StopKinds ==
  ASSUME Kinds, NEW t \in Callers,
         \/ StopPoll(t) \/ StopServer(t) \/ StopTransport(t) \/ Drained(t)
         \/ StopP2P(t) \/ LowerFlag(t) \/ CloseSockets(t)
  PROVE  Kinds'
<1> DEFINE p == Head(call[t].todo)
<1> USE DEF Kinds
<1>1. CASE StopPoll(t)
  <2>1. call[t].at \notin {"over", "read"}
    BY <1>1 DEF StopPoll, At
  <2>2. Places'
    BY <1>1, <2>1, DonePlaced DEF StopPoll
  <2> QED
    BY <1>1, <2>2 DEF StopPoll, nodeVars, transportVars, NodeKinds, PolicyKinds, TransportKinds
<1>2. CASE StopServer(t)
  <2>1. /\ call[t].at \notin {"over", "read"} /\ Type[p] = "server" /\ call[t].op = "stop"
        /\ p \in Listeners
    BY <1>2, AtAPolicy DEF StopServer, At
  <2>2. Done(t) => Places'
    BY <2>1, DonePlaced
  <2>3. Goto(t, "transport") => Places'
    BY <2>1, GotoPlaced DEF Labels
  <2>4. Places'
    BY <1>2, <2>2, <2>3 DEF StopServer
  <2> QED
    BY <1>2, <2>1, <2>4 DEF StopServer, Overtakes, nodeVars, transportVars, NodeKinds, PolicyKinds,
                            TransportKinds
<1>3. CASE StopTransport(t)
  <2>1. /\ call[t].at = "transport" /\ Type[p] # "poll" /\ call[t].op = "stop"
        /\ p \in Listeners
    BY <1>3, AtAPolicy DEF StopTransport, Places, Placed
  <2>2. StopGoesOn(t) => Places'
    BY <2>1, StopGoesOnPlaces
  <2>3. Goto(t, "drain") => Places'
    BY <2>1, GotoPlaced DEF Labels
  <2>4. Places'
    BY <1>3, <2>2, <2>3 DEF StopTransport
  <2> QED
    BY <1>3, <2>1, <2>4 DEF StopTransport, nodeVars, policyVars, NodeKinds, PolicyKinds,
                            TransportKinds
<1>4. CASE Drained(t)
  <2>1. Places'
    BY <1>4, StopGoesOnPlaces DEF Drained
  <2> QED
    BY <1>4, <2>1 DEF Drained, nodeVars, policyVars, transportVars, NodeKinds, PolicyKinds,
                      TransportKinds
<1>5. CASE StopP2P(t)
  <2>1. call[t].at \notin {"over", "read"} /\ Type[p] = "p2p" /\ call[t].op = "stop"
    BY <1>5 DEF StopP2P, At
  <2>2. Done(t) => Places'
    BY <2>1, DonePlaced
  <2>3. Goto(t, "lower") => Places'
    BY <2>1, GotoPlaced DEF Labels
  <2>4. Places'
    BY <1>5, <2>2, <2>3 DEF StopP2P
  <2> QED
    BY <1>5, <2>4 DEF StopP2P, nodeVars, policyVars, transportVars, NodeKinds, PolicyKinds,
                      TransportKinds
<1>6. CASE LowerFlag(t)
  <2>1. /\ call[t].at = "lower" /\ Type[p] = "p2p" /\ call[t].op = "stop"
        /\ p \in Listeners
    BY <1>6, AtAPolicy DEF LowerFlag, Places, Placed
  <2>2. Places'
    BY <1>6, <2>1, GotoPlaced DEF LowerFlag, Labels
  <2> QED
    BY <1>6, <2>1, <2>2 DEF LowerFlag, Overtakes, nodeVars, transportVars, NodeKinds, PolicyKinds,
                            TransportKinds
<1>7. CASE CloseSockets(t)
  <2>1. Places'
    BY <1>7, DonePlaced DEF CloseSockets
  <2> QED
    BY <1>7, <2>1 DEF CloseSockets, nodeVars, transportVars, NodeKinds, PolicyKinds,
                      TransportKinds
<1> QED
  BY <1>1, <1>2, <1>3, <1>4, <1>5, <1>6, <1>7

\* ... the beginnings of calls, ...
LEMMA BeginKinds ==
  ASSUME Kinds,
         \/ SetPolicy \/ PoliciesSet
         \/ \E t \in Callers, op \in {"start", "stop"} : Begin(t, op)
  PROVE  Kinds'
<1> USE DEF Kinds
<1>1. CASE SetPolicy
  <2>1. calls' \in 0..MaxCalls
    BY <1>1, BoundIsNatural DEF SetPolicy, NodeKinds
  <2>2. orderly' \in BOOLEAN /\ setting' \in Settings
    BY <1>1 DEF SetPolicy, NodeKinds
  <2>3. Places'
    BY <1>1 DEF SetPolicy, Places
  <2> QED
    BY <1>1, <2>1, <2>2, <2>3 DEF SetPolicy, policyVars, transportVars, NodeKinds, PolicyKinds,
                                  TransportKinds
<1>2. CASE PoliciesSet
  <2>1. Places'
    BY <1>2 DEF PoliciesSet, callVars, Places
  <2>2. ToSet(policies) \subseteq Policies /\ ToSet(setting) \subseteq Policies
    BY <1>2, ElementsArePolicies DEF PoliciesSet, NodeKinds
  <2>3. missed' \subseteq Policies
    BY <1>2, <2>2 DEF PoliciesSet, NodeKinds
  <2> QED
    BY <1>2, <2>1, <2>3 DEF PoliciesSet, callVars, policyVars, transportVars, NodeKinds, PolicyKinds,
                      TransportKinds
<1>3. CASE \E t \in Callers, op \in {"start", "stop"} : Begin(t, op)
  <2> PICK t \in Callers, op \in {"start", "stop"} : Begin(t, op)
    BY <1>3
  <2> DEFINE r == [op |-> op, todo |-> << >>, at |-> "read"]
  <2>1. call' = [call EXCEPT ![t] = r]
    BY DEF Begin
  <2>2. r \in CallRecords
    BY EmptySeq DEF CallRecords, Labels
  <2>3. Placed(r)
    BY ListsOfPolicies DEF Placed
  <2>4. Places'
    BY <2>1, <2>2, <2>3 DEF Places
  <2>5. calls' \in 0..MaxCalls
    BY BoundIsNatural DEF Begin, NodeKinds
  <2>6. orderly' \in BOOLEAN /\ running' \in BOOLEAN
    BY DEF Begin, NodeKinds
  <2> QED
    BY <2>4, <2>5, <2>6 DEF Begin, policyVars, transportVars, NodeKinds, PolicyKinds,
                            TransportKinds
<1> QED
  BY <1>1, <1>2, <1>3

\* ... the listens and the servers, ...
LEMMA ListenKinds ==
  ASSUME Kinds, NEW p \in Listeners, ListenSteps(p) \/ TlsServerEnds(p)
  PROVE  Kinds'
<1> USE DEF Kinds, nodeVars, callVars, policyVars
<1>1. NodeKinds' /\ Places' /\ PolicyKinds'
  BY DEF ListenSteps, ListenBegin, ListenBind, ListenAtOnce, HttpsServerEnds, TlsServerEnds,
         ServerEnds, NodeKinds, Places, PolicyKinds
<1>2. /\ listens[p].begin \in Nat /\ listens[p].bind \in Nat
      /\ listens[p].begin > 0 => listens[p].begin - 1 \in Nat
      /\ listens[p].bind > 0 => listens[p].bind - 1 \in Nat
  BY DEF TransportKinds
<1>3. CASE ListenBegin(p)
  <2>1. listens' \in [Listeners -> [begin : Nat, bind : Nat]]
    <3>1. CASE up[p]
      BY <1>2, <1>3, <3>1 DEF ListenBegin, TransportKinds
    <3>2. CASE ~up[p]
      <4>1. listens' = [listens EXCEPT ![p] = [begin |-> listens[p].begin - 1,
                                               bind |-> listens[p].bind + 1]]
        BY <1>3, <3>2 DEF ListenBegin
      <4>2. [begin |-> listens[p].begin - 1, bind |-> listens[p].bind + 1]
              \in [begin : Nat, bind : Nat]
        BY <1>2, <1>3 DEF ListenBegin
      <4> QED
        BY <4>1, <4>2 DEF TransportKinds
    <3> QED
      BY <3>1, <3>2
  <2>2. Refuse(p) \/ UNCHANGED <<up, served, refused>>
    BY <1>3 DEF ListenBegin
  <2> QED
    BY <1>1, <1>3, <2>1, <2>2 DEF ListenBegin, Refuse, TransportKinds
<1>4. CASE ListenBind(p)
  <2>1. listens' \in [Listeners -> [begin : Nat, bind : Nat]]
    BY <1>2, <1>4 DEF ListenBind, TransportKinds
  <2> QED
    BY <1>1, <1>4, <2>1 DEF ListenBind, TakeAddress, Refuse, TransportKinds
<1>5. CASE ListenAtOnce(p)
  <2>1. \/ Refuse(p) \/ TakeAddress(p)
        \/ up' = [up EXCEPT ![p] = TRUE] /\ UNCHANGED <<served, refused>>
    BY <1>5 DEF ListenAtOnce
  <2>2. listens' \in [Listeners -> [begin : Nat, bind : Nat]]
    BY <1>2, <1>5 DEF ListenAtOnce, TransportKinds
  <2>3. up' \in [Listeners -> BOOLEAN] /\ served' \in [Listeners -> BOOLEAN] /\ refused' \subseteq Listeners
    BY <2>1 DEF TakeAddress, Refuse, TransportKinds
  <2>4. via' = via /\ overtaken' = overtaken
    BY <1>5 DEF ListenAtOnce
  <2> QED
    BY <1>1, <2>2, <2>3, <2>4 DEF TransportKinds
<1>6. CASE HttpsServerEnds(p) \/ TlsServerEnds(p)
  BY <1>1, <1>6 DEF HttpsServerEnds, TlsServerEnds, ServerEnds, TransportKinds
<1> QED
  BY <1>3, <1>4, <1>5, <1>6 DEF ListenSteps

\* ... and the loops.
LEMMA LoopKinds ==
  ASSUME Kinds, MdnsPacket \/ \E p \in Policies : LoopLooks(p) \/ Tick(p)
  PROVE  Kinds'
<1> USE DEF Kinds, nodeVars, callVars, transportVars
<1>1. NodeKinds' /\ Places' /\ TransportKinds'
  BY DEF MdnsPacket, LoopLooks, Tick, NodeKinds, Places, TransportKinds
<1>2. CASE MdnsPacket
  BY <1>1, <1>2 DEF MdnsPacket, PolicyKinds
<1>3. CASE \E p \in Policies : LoopLooks(p) \/ Tick(p)
  <2> PICK p \in Policies : LoopLooks(p) \/ Tick(p)
    BY <1>3
  <2>1. /\ loops[p].look \in Nat /\ loops[p].tick \in Nat
        /\ loops[p].look > 0 => loops[p].look - 1 \in Nat
        /\ loops[p].tick > 0 => loops[p].tick - 1 \in Nat
    BY DEF PolicyKinds
  <2>2. loops' \in [Policies -> [look : Nat, tick : Nat]]
    <3>1. CASE LoopLooks(p)
      BY <2>1, <3>1 DEF LoopLooks, PolicyKinds
    <3>2. CASE Tick(p)
      BY <2>1, <3>2 DEF Tick, PolicyKinds
    <3> QED
      BY <3>1, <3>2
  <2> QED
    BY <1>1, <2>2 DEF LoopLooks, Tick, PolicyKinds
<1> QED
  BY <1>2, <1>3

\* Every step keeps the types.
LEMMA StepKinds == Kinds /\ [Next]_vars => Kinds'
<1> SUFFICES ASSUME Kinds, [Next]_vars
             PROVE  Kinds'
  OBVIOUS
<1>1. CASE UNCHANGED vars
  BY <1>1 DEF vars, nodeVars, callVars, policyVars, transportVars, Kinds, NodeKinds, Places,
              PolicyKinds, TransportKinds
<1>2. CASE Next
  BY <1>2, StartKinds, StopKinds, BeginKinds, ListenKinds, LoopKinds DEF Next, CallSteps
<1> QED
  BY <1>1, <1>2

-----------------------------------------------------------------------------
\* The policies that a start has yet to run, or is running: it can still spawn loops for them, ...
Spawners(p) ==
  {t \in Callers : call[t].op = "start" /\ (call[t].at = "read" \/ p \in ToSet(call[t].todo))}

\* ... and, unless it is past it, a listen.
ListenSpawners(p) ==
  {t \in Spawners(p) : ~(call[t].at \in {"loops", "panicked"} /\ p = Head(call[t].todo))}

\* There are as many loops and listens as starts were made, less those that are to come.
LoopsCounted ==
  \A p \in Policies :
    /\ IsFiniteSet(Spawners(p))
    /\ loops[p].look + loops[p].tick + 2 * Cardinality(Spawners(p)) <= 2 * calls
ListensCounted ==
  \A p \in Listeners :
    /\ IsFiniteSet(ListenSpawners(p))
    /\ listens[p].begin + listens[p].bind + Cardinality(ListenSpawners(p)) <= calls

\* A set that shrinks.
LEMMA Shrinks ==
  ASSUME NEW S, IsFiniteSet(S), NEW T, T \subseteq S
  PROVE  IsFiniteSet(T) /\ Cardinality(T) \in Nat /\ Cardinality(S) \in Nat
         /\ Cardinality(T) <= Cardinality(S)
BY FS_Subset, FS_CardinalityType

\* A set that loses an element.
LEMMA Loses ==
  ASSUME NEW S, IsFiniteSet(S), NEW T, NEW x \in S, T \subseteq S, x \notin T
  PROVE  IsFiniteSet(T) /\ Cardinality(T) \in Nat /\ Cardinality(S) \in Nat
         /\ Cardinality(T) + 1 <= Cardinality(S)
<1>1. IsFiniteSet(S \ {x}) /\ Cardinality(S \ {x}) = Cardinality(S) - 1
  BY FS_RemoveElement
<1>2. T \subseteq S \ {x}
  OBVIOUS
<1>3. /\ IsFiniteSet(T) /\ Cardinality(T) \in Nat /\ Cardinality(S \ {x}) \in Nat
      /\ Cardinality(T) <= Cardinality(S \ {x})
  BY <1>1, <1>2, Shrinks
<1>4. Cardinality(S) \in Nat
  BY FS_CardinalityType
<1> QED
  BY <1>1, <1>3, <1>4

\* A set that gains one.
LEMMA Gains ==
  ASSUME NEW S, IsFiniteSet(S), NEW T, NEW x, T \subseteq S \cup {x}
  PROVE  IsFiniteSet(T) /\ Cardinality(T) \in Nat /\ Cardinality(S) \in Nat
         /\ Cardinality(T) <= Cardinality(S) + 1
<1>1. IsFiniteSet(S \cup {x}) /\ Cardinality(S \cup {x}) <= Cardinality(S) + 1
  <2>1. Cardinality(S) \in Nat
    BY FS_CardinalityType
  <2> QED
    BY <2>1, FS_AddElement
<1>2. /\ IsFiniteSet(T) /\ Cardinality(T) \in Nat /\ Cardinality(S \cup {x}) \in Nat
      /\ Cardinality(T) <= Cardinality(S \cup {x})
  BY <1>1, Shrinks
<1>3. Cardinality(S) \in Nat
  BY FS_CardinalityType
<1> QED
  BY <1>1, <1>2, <1>3

\* A step of a call reads the policies, is done with one, or goes to the next label.
LEMMA CallForms ==
  ASSUME NEW t \in Callers, CallSteps(t)
  PROVE  \/ ReadPolicies(t)
         \/ /\ call[t].at \notin {"over", "read", "panicked"}
            /\ \/ Done(t)
               \/ \E label \in Labels \ {"over", "read"} :
                    Goto(t, label) /\ (call[t].at = "loops" => label = "panicked")
BY DEF CallSteps, RunPoll, RunServer, RunP2P, BindSockets, ListenP2P, RunLoops, StopPoll,
       StopServer, StopTransport, StopGoesOn, Drained, StopP2P, LowerFlag, CloseSockets, At,
       Labels

\* When a call is done with a policy, it spawns no more for it.
LEMMA DoneSpawners ==
  ASSUME Places, NEW t \in Callers, call[t].at \notin {"over", "read"}, Done(t),
         NEW p
  PROVE  /\ Spawners(p)' \subseteq Spawners(p) /\ ListenSpawners(p)' \subseteq ListenSpawners(p)
         /\ p = Head(call[t].todo) => t \notin Spawners(p)'
<1> DEFINE s == call[t].todo
<1>1. s \in Seq(Policies) /\ s # << >> /\ IsInjective(s)
  BY AtAPolicy DEF Places, Placed
<1>2. /\ call'[t].op = call[t].op /\ call'[t].todo = Tail(s)
      /\ call'[t].at \in {"over", "next"}
      /\ \A u \in Callers : u # t => call'[u] = call[u]
  <2>1. /\ call'[t] = [op |-> call[t].op, todo |-> Tail(s),
                       at |-> IF Len(s) = 1 THEN "over" ELSE "next"]
        /\ \A u \in Callers : u # t => call'[u] = call[u]
    BY AfterDone
  <2> QED
    BY <2>1
<1>3. ToSet(Tail(s)) \subseteq ToSet(s) /\ Head(s) \notin ToSet(Tail(s))
  BY <1>1, TailOfList, TailInjective
<1>4. Spawners(p)' \subseteq Spawners(p)
  BY <1>2, <1>3 DEF Spawners
<1>5. p = Head(s) => t \notin Spawners(p)'
  BY <1>2, <1>3 DEF Spawners
<1>6. ASSUME NEW u \in ListenSpawners(p)'
      PROVE  u \in ListenSpawners(p)
  <2>1. u \in Spawners(p)' /\ u \in Spawners(p) /\ u \in Callers
    BY <1>4, <1>6 DEF ListenSpawners, Spawners
  <2>2. CASE u = t
    <3>1. p # Head(s)
      BY <1>5, <2>1, <2>2
    <3> QED
      BY <2>1, <2>2, <3>1 DEF ListenSpawners
  <2>3. CASE u # t
    BY <1>2, <1>6, <2>1, <2>3 DEF ListenSpawners
  <2> QED
    BY <2>2, <2>3
<1> QED
  BY <1>4, <1>5, <1>6

\* When it goes to the next label, it can spawn no more than before; past the listen, none.
LEMMA GotoSpawners ==
  ASSUME Places, NEW t \in Callers, call[t].at \notin {"over", "read"},
         call[t].at # "panicked",
         NEW label \in Labels \ {"over", "read"}, Goto(t, label),
         call[t].at = "loops" => label = "panicked", NEW p
  PROVE  /\ Spawners(p)' \subseteq Spawners(p) /\ ListenSpawners(p)' \subseteq ListenSpawners(p)
         /\ p = Head(call[t].todo) /\ label = "loops" => t \notin ListenSpawners(p)'
<1>1. /\ call'[t].op = call[t].op /\ call'[t].todo = call[t].todo /\ call'[t].at = label
      /\ \A u \in Callers : u # t => call'[u] = call[u]
  <2>1. /\ call'[t] = [op |-> call[t].op, todo |-> call[t].todo, at |-> label]
        /\ \A u \in Callers : u # t => call'[u] = call[u]
    BY AfterGoto
  <2> QED
    BY <2>1
<1>2. Spawners(p)' \subseteq Spawners(p)
  BY <1>1 DEF Spawners
<1>3. ListenSpawners(p)' \subseteq ListenSpawners(p)
  BY <1>1, <1>2 DEF ListenSpawners, Spawners
<1>4. p = Head(call[t].todo) /\ label = "loops" => t \notin ListenSpawners(p)'
  BY <1>1 DEF ListenSpawners
<1> QED
  BY <1>2, <1>3, <1>4

\* No step of a call is to spawn more than was to be spawned before it.
LEMMA FewerSpawners ==
  ASSUME Places, NEW t \in Callers, CallSteps(t), NEW p
  PROVE  Spawners(p)' \subseteq Spawners(p) /\ ListenSpawners(p)' \subseteq ListenSpawners(p)
<1>1. CASE ReadPolicies(t)
  <2>1. /\ call[t].at = "read" /\ call'[t].op = call[t].op /\ call'[t].at \in {"over", "next"}
        /\ \A u \in Callers : u # t => call'[u] = call[u]
    BY <1>1 DEF ReadPolicies, Places, CallRecords
  <2> QED
    BY <2>1 DEF Spawners, ListenSpawners
<1> QED
  BY <1>1, CallForms, DoneSpawners, GotoSpawners

\* A step of a call that spawns loops was to spawn them, and is to no more.
LEMMA LoopsOfCall ==
  ASSUME Kinds, NEW t \in Callers, CallSteps(t), NEW p \in Policies
  PROVE  \/ loops'[p] = loops[p]
         \/ /\ t \in Spawners(p) /\ t \notin Spawners(p)'
            /\ loops'[p].look + loops'[p].tick <= loops[p].look + loops[p].tick + 2
<1> DEFINE h == Head(call[t].todo)
<1>1. loops[p].look \in Nat /\ loops[p].tick \in Nat
  BY DEF Kinds, PolicyKinds
<1>2. ASSUME call[t].at \notin {"over", "read"}, call[t].op = "start", Done(t),
             NEW n \in 1..2, NewLoops(h, n), loops'[p] # loops[p]
      PROVE  /\ t \in Spawners(p) /\ t \notin Spawners(p)'
             /\ loops'[p].look + loops'[p].tick <= loops[p].look + loops[p].tick + 2
  <2>1. call[t].todo \in Seq(Policies) /\ call[t].todo # << >> /\ h \in Policies
    BY <1>2, AtAPolicy DEF Kinds
  <2>2. p = h /\ loops'[p].look + loops'[p].tick = loops[p].look + loops[p].tick + n
    BY <1>2, <2>1, NewLoopsKinds DEF Kinds
  <2>3. h \in ToSet(call[t].todo)
    BY <2>1, TailOfList
  <2>4. t \in Spawners(p)
    BY <1>2, <2>2, <2>3 DEF Spawners
  <2>5. t \notin Spawners(p)'
    BY <1>2, <2>2, DoneSpawners DEF Kinds
  <2> QED
    BY <1>1, <2>2, <2>4, <2>5
<1>3. CASE RunPoll(t)
  <2>1. call[t].at \notin {"over", "read"} /\ call[t].op = "start" /\ Done(t)
    BY <1>3 DEF RunPoll, At
  <2>2. UNCHANGED loops \/ NewLoops(h, 1)
    BY <1>3 DEF RunPoll
  <2> QED
    BY <1>2, <2>1, <2>2
<1>4. CASE RunLoops(t)
  <2>1. call[t].at \notin {"over", "read"} /\ call[t].op = "start"
    BY <1>4 DEF RunLoops, Kinds, Places, Placed
  <2>2. UNCHANGED loops \/ (NewLoops(h, 2) /\ Done(t))
    BY <1>4 DEF RunLoops
  <2> QED
    BY <1>2, <2>1, <2>2
<1>5. CASE ~RunPoll(t) /\ ~RunLoops(t)
  BY <1>5 DEF CallSteps, ReadPolicies, RunServer, RunP2P, BindSockets, ListenP2P,
              StopPoll, StopServer, StopTransport, Drained, StopP2P, LowerFlag, CloseSockets,
              policyVars
<1> QED
  BY <1>3, <1>4, <1>5

\* And one that spawns a listen.
LEMMA ListensOfCall ==
  ASSUME Kinds, NEW t \in Callers, CallSteps(t), NEW p \in Listeners
  PROVE  \/ listens'[p] = listens[p]
         \/ /\ t \in ListenSpawners(p) /\ t \notin ListenSpawners(p)'
            /\ listens'[p].begin + listens'[p].bind = listens[p].begin + listens[p].bind + 1
<1> DEFINE h == Head(call[t].todo)
<1>1. ASSUME call[t].at \in {"next", "listen"}, call[t].op = "start", SpawnListen(h),
             h \in Listeners, listens'[p] # listens[p]
      PROVE  /\ p = h /\ t \in ListenSpawners(p)
             /\ listens'[p].begin + listens'[p].bind = listens[p].begin + listens[p].bind + 1
  <2>1. call[t].todo \in Seq(Policies) /\ call[t].todo # << >>
    BY <1>1, AtAPolicy DEF Kinds
  <2>2. p = h /\ listens'[p].begin + listens'[p].bind = listens[p].begin + listens[p].bind + 1
    BY <1>1, SpawnListenKinds DEF Kinds
  <2>3. h \in ToSet(call[t].todo)
    BY <2>1, TailOfList
  <2>4. t \in ListenSpawners(p)
    BY <1>1, <2>2, <2>3 DEF Spawners, ListenSpawners
  <2> QED
    BY <2>2, <2>4
<1>2. CASE RunServer(t)
  <2>1. /\ call[t].at = "next" /\ call[t].op = "start" /\ Done(t) /\ h \in Listeners
        /\ UNCHANGED listens \/ SpawnListen(h)
    BY <1>2, AtAPolicy DEF RunServer, At, Kinds
  <2>2. h = p => t \notin ListenSpawners(p)'
    BY <2>1, DoneSpawners DEF Kinds, ListenSpawners
  <2> QED
    BY <1>1, <2>1, <2>2
<1>3. CASE ListenP2P(t)
  <2>1. /\ call[t].at = "listen" /\ call[t].op = "start" /\ Goto(t, "loops") /\ h \in Listeners
        /\ SpawnListen(h)
    BY <1>3, AtAPolicy DEF ListenP2P, Kinds, Places, Placed
  <2>2. h = p => t \notin ListenSpawners(p)'
    BY <2>1, GotoSpawners DEF Kinds, Labels
  <2> QED
    BY <1>1, <2>1, <2>2
<1>4. CASE ~RunServer(t) /\ ~ListenP2P(t)
  BY <1>4 DEF CallSteps, ReadPolicies, RunPoll, RunP2P, BindSockets, RunLoops,
              StopPoll, StopServer, StopTransport, Drained, StopP2P, LowerFlag, CloseSockets,
              transportVars
<1> QED
  BY <1>2, <1>3, <1>4

\* So a step of a call keeps both counts.
LEMMA CallCounted ==
  ASSUME Kinds, Kinds', NEW t \in Callers, CallSteps(t), LoopsCounted, ListensCounted
  PROVE  LoopsCounted' /\ ListensCounted'
<1>1. calls \in Nat /\ calls' = calls
  BY BoundIsNatural DEF Kinds, NodeKinds, CallSteps, ReadPolicies, RunPoll, RunServer, RunP2P,
       BindSockets, ListenP2P, RunLoops, StopPoll, StopServer, StopTransport, Drained, StopP2P,
       LowerFlag, CloseSockets
<1>2. ASSUME NEW p \in Policies
      PROVE  /\ IsFiniteSet(Spawners(p)')
             /\ loops'[p].look + loops'[p].tick + 2 * Cardinality(Spawners(p)') <= 2 * calls'
  <2>1. /\ IsFiniteSet(Spawners(p))
        /\ loops[p].look + loops[p].tick + 2 * Cardinality(Spawners(p)) <= 2 * calls
    BY DEF LoopsCounted
  <2>2. Spawners(p)' \subseteq Spawners(p)
    BY FewerSpawners DEF Kinds
  <2>3. /\ loops[p].look \in Nat /\ loops[p].tick \in Nat
        /\ loops'[p].look \in Nat /\ loops'[p].tick \in Nat
    BY DEF Kinds, PolicyKinds
  <2>4. /\ IsFiniteSet(Spawners(p)') /\ Cardinality(Spawners(p)') \in Nat
        /\ Cardinality(Spawners(p)) \in Nat /\ Cardinality(Spawners(p)') <= Cardinality(Spawners(p))
    BY <2>1, <2>2, Shrinks
  <2>5. CASE loops'[p] = loops[p]
    BY <1>1, <2>1, <2>3, <2>4, <2>5
  <2>6. CASE /\ t \in Spawners(p) /\ t \notin Spawners(p)'
             /\ loops'[p].look + loops'[p].tick <= loops[p].look + loops[p].tick + 2
    <3>1. Cardinality(Spawners(p)') + 1 <= Cardinality(Spawners(p))
      BY <2>1, <2>2, <2>6, Loses
    <3> QED
      BY <1>1, <2>1, <2>3, <2>4, <2>6, <3>1
  <2> QED
    BY <2>5, <2>6, LoopsOfCall
<1>3. ASSUME NEW p \in Listeners
      PROVE  /\ IsFiniteSet(ListenSpawners(p)')
             /\ listens'[p].begin + listens'[p].bind + Cardinality(ListenSpawners(p)') <= calls'
  <2>1. /\ IsFiniteSet(ListenSpawners(p))
        /\ listens[p].begin + listens[p].bind + Cardinality(ListenSpawners(p)) <= calls
    BY DEF ListensCounted
  <2>2. ListenSpawners(p)' \subseteq ListenSpawners(p)
    BY FewerSpawners DEF Kinds
  <2>3. /\ listens[p].begin \in Nat /\ listens[p].bind \in Nat
        /\ listens'[p].begin \in Nat /\ listens'[p].bind \in Nat
    BY DEF Kinds, TransportKinds
  <2>4. /\ IsFiniteSet(ListenSpawners(p)') /\ Cardinality(ListenSpawners(p)') \in Nat
        /\ Cardinality(ListenSpawners(p)) \in Nat
        /\ Cardinality(ListenSpawners(p)') <= Cardinality(ListenSpawners(p))
    BY <2>1, <2>2, Shrinks
  <2>5. CASE listens'[p] = listens[p]
    BY <1>1, <2>1, <2>3, <2>4, <2>5
  <2>6. CASE /\ t \in ListenSpawners(p) /\ t \notin ListenSpawners(p)'
             /\ listens'[p].begin + listens'[p].bind = listens[p].begin + listens[p].bind + 1
    <3>1. Cardinality(ListenSpawners(p)') + 1 <= Cardinality(ListenSpawners(p))
      BY <2>1, <2>2, <2>6, Loses
    <3> QED
      BY <1>1, <2>1, <2>3, <2>4, <2>6, <3>1
  <2> QED
    BY <2>5, <2>6, ListensOfCall
<1> QED
  BY <1>2, <1>3 DEF LoopsCounted, ListensCounted

\* A start that begins is to spawn for each policy, and is one call more.
LEMMA BeginCounted ==
  ASSUME Kinds, NEW t \in Callers, NEW op \in {"start", "stop"}, Begin(t, op),
         LoopsCounted, ListensCounted
  PROVE  LoopsCounted' /\ ListensCounted'
<1>1. calls \in Nat /\ calls' = calls + 1
  BY BoundIsNatural DEF Kinds, NodeKinds, Begin
<1>2. /\ call'[t] = [op |-> op, todo |-> << >>, at |-> "read"]
      /\ \A u \in Callers : u # t => call'[u] = call[u]
  BY DEF Kinds, Places, Begin
<1>3. UNCHANGED <<loops, listens>>
  BY DEF Begin, policyVars, transportVars
<1>4. ASSUME NEW p
      PROVE  /\ Spawners(p)' \subseteq Spawners(p) \cup {t}
             /\ ListenSpawners(p)' \subseteq ListenSpawners(p) \cup {t}
  BY <1>2 DEF Spawners, ListenSpawners
<1>5. ASSUME NEW p \in Policies
      PROVE  /\ IsFiniteSet(Spawners(p)')
             /\ loops'[p].look + loops'[p].tick + 2 * Cardinality(Spawners(p)') <= 2 * calls'
  <2>1. /\ IsFiniteSet(Spawners(p))
        /\ loops[p].look + loops[p].tick + 2 * Cardinality(Spawners(p)) <= 2 * calls
        /\ loops[p].look \in Nat /\ loops[p].tick \in Nat
    BY DEF LoopsCounted, Kinds, PolicyKinds
  <2>2. /\ IsFiniteSet(Spawners(p)') /\ Cardinality(Spawners(p)') \in Nat
        /\ Cardinality(Spawners(p)) \in Nat
        /\ Cardinality(Spawners(p)') <= Cardinality(Spawners(p)) + 1
    BY <1>4, <2>1, Gains
  <2> QED
    BY <1>1, <1>3, <2>1, <2>2
<1>6. ASSUME NEW p \in Listeners
      PROVE  /\ IsFiniteSet(ListenSpawners(p)')
             /\ listens'[p].begin + listens'[p].bind + Cardinality(ListenSpawners(p)') <= calls'
  <2>1. /\ IsFiniteSet(ListenSpawners(p))
        /\ listens[p].begin + listens[p].bind + Cardinality(ListenSpawners(p)) <= calls
        /\ listens[p].begin \in Nat /\ listens[p].bind \in Nat
    BY DEF ListensCounted, Kinds, TransportKinds
  <2>2. /\ IsFiniteSet(ListenSpawners(p)') /\ Cardinality(ListenSpawners(p)') \in Nat
        /\ Cardinality(ListenSpawners(p)) \in Nat
        /\ Cardinality(ListenSpawners(p)') <= Cardinality(ListenSpawners(p)) + 1
    BY <1>4, <2>1, Gains
  <2> QED
    BY <1>1, <1>3, <2>1, <2>2
<1> QED
  BY <1>5, <1>6 DEF LoopsCounted, ListensCounted

\* The steps of a loop make no more loops.
LEMMA NoMoreLoops ==
  ASSUME Kinds, NEW p \in Policies, LoopLooks(p) \/ Tick(p), NEW q \in Policies
  PROVE  loops'[q].look + loops'[q].tick <= loops[q].look + loops[q].tick
<1>1. /\ loops[q].look \in Nat /\ loops[q].tick \in Nat
      /\ loops[p].look \in Nat /\ loops[p].tick \in Nat
  BY DEF Kinds, PolicyKinds
<1>2. CASE LoopLooks(p)
  <2>1. loops' = [loops EXCEPT ![p] = [look |-> @.look - 1,
                                       tick |-> @.tick + IF flag[p] THEN 1 ELSE 0]]
    BY <1>2 DEF LoopLooks
  <2>2. p = q => /\ loops'[q].look = loops[q].look - 1
                 /\ loops'[q].tick = loops[q].tick + IF flag[p] THEN 1 ELSE 0
    BY <2>1 DEF Kinds, PolicyKinds
  <2>3. p # q => loops'[q] = loops[q]
    BY <2>1 DEF Kinds, PolicyKinds
  <2> QED
    BY <1>1, <2>2, <2>3
<1>3. CASE Tick(p)
  <2>1. loops' = [loops EXCEPT ![p] = [look |-> @.look + 1, tick |-> @.tick - 1]]
    BY <1>3 DEF Tick
  <2>2. p = q => /\ loops'[q].look = loops[q].look + 1
                 /\ loops'[q].tick = loops[q].tick - 1
    BY <2>1 DEF Kinds, PolicyKinds
  <2>3. p # q => loops'[q] = loops[q]
    BY <2>1 DEF Kinds, PolicyKinds
  <2> QED
    BY <1>1, <2>2, <2>3
<1> QED
  BY <1>2, <1>3

\* And those of a listen make no more listens.
LEMMA NoMoreListens ==
  ASSUME Kinds, NEW p \in Listeners, ListenSteps(p) \/ TlsServerEnds(p), NEW q \in Listeners
  PROVE  listens'[q].begin + listens'[q].bind <= listens[q].begin + listens[q].bind
<1>1. /\ listens[q].begin \in Nat /\ listens[q].bind \in Nat
  BY DEF Kinds, TransportKinds
<1>2. CASE listens' = [listens EXCEPT ![p].begin = @ - 1]
  <2>1. p = q => listens'[q].begin = listens[q].begin - 1 /\ listens'[q].bind = listens[q].bind
    BY <1>2 DEF Kinds, TransportKinds
  <2>2. p # q => listens'[q] = listens[q]
    BY <1>2 DEF Kinds, TransportKinds
  <2> QED
    BY <1>1, <2>1, <2>2
<1>3. CASE listens' = [listens EXCEPT ![p].bind = @ - 1]
  <2>1. p = q => listens'[q].begin = listens[q].begin /\ listens'[q].bind = listens[q].bind - 1
    BY <1>3 DEF Kinds, TransportKinds
  <2>2. p # q => listens'[q] = listens[q]
    BY <1>3 DEF Kinds, TransportKinds
  <2> QED
    BY <1>1, <2>1, <2>2
<1>4. CASE listens' = [listens EXCEPT ![p] = [begin |-> @.begin - 1, bind |-> @.bind + 1]]
  <2>1. p = q => listens'[q].begin = listens[q].begin - 1 /\ listens'[q].bind = listens[q].bind + 1
    BY <1>4 DEF Kinds, TransportKinds
  <2>2. p # q => listens'[q] = listens[q]
    BY <1>4 DEF Kinds, TransportKinds
  <2> QED
    BY <1>1, <2>1, <2>2
<1>5. CASE UNCHANGED listens
  BY <1>1, <1>5
<1> QED
  BY <1>2, <1>3, <1>4, <1>5 DEF ListenSteps, ListenBegin, ListenBind, ListenAtOnce,
     HttpsServerEnds, TlsServerEnds, ServerEnds

\* A step that is of no call, nor begins one, keeps both counts.
LEMMA OtherCounted ==
  ASSUME Kinds, Kinds', LoopsCounted, ListensCounted, UNCHANGED call,
         calls' \in Nat, calls' >= calls,
         \A q \in Policies : loops'[q].look + loops'[q].tick <= loops[q].look + loops[q].tick,
         \A q \in Listeners :
           listens'[q].begin + listens'[q].bind <= listens[q].begin + listens[q].bind
  PROVE  LoopsCounted' /\ ListensCounted'
<1>1. calls \in Nat
  BY BoundIsNatural DEF Kinds, NodeKinds
<1>2. ASSUME NEW p \in Policies
      PROVE  /\ IsFiniteSet(Spawners(p)')
             /\ loops'[p].look + loops'[p].tick + 2 * Cardinality(Spawners(p)') <= 2 * calls'
  <2>1. /\ IsFiniteSet(Spawners(p))
        /\ loops[p].look + loops[p].tick + 2 * Cardinality(Spawners(p)) <= 2 * calls
        /\ loops[p].look \in Nat /\ loops[p].tick \in Nat
        /\ loops'[p].look \in Nat /\ loops'[p].tick \in Nat
    BY DEF LoopsCounted, Kinds, PolicyKinds
  <2>2. Spawners(p)' = Spawners(p)
    BY DEF Spawners
  <2>3. Cardinality(Spawners(p)) \in Nat
    BY <2>1, FS_CardinalityType
  <2> QED
    BY <1>1, <2>1, <2>2, <2>3
<1>3. ASSUME NEW p \in Listeners
      PROVE  /\ IsFiniteSet(ListenSpawners(p)')
             /\ listens'[p].begin + listens'[p].bind + Cardinality(ListenSpawners(p)') <= calls'
  <2>1. /\ IsFiniteSet(ListenSpawners(p))
        /\ listens[p].begin + listens[p].bind + Cardinality(ListenSpawners(p)) <= calls
        /\ listens[p].begin \in Nat /\ listens[p].bind \in Nat
        /\ listens'[p].begin \in Nat /\ listens'[p].bind \in Nat
    BY DEF ListensCounted, Kinds, TransportKinds
  <2>2. ListenSpawners(p)' = ListenSpawners(p)
    BY DEF Spawners, ListenSpawners
  <2>3. Cardinality(ListenSpawners(p)) \in Nat
    BY <2>1, FS_CardinalityType
  <2> QED
    BY <1>1, <2>1, <2>2, <2>3
<1> QED
  BY <1>2, <1>3 DEF LoopsCounted, ListensCounted

\* The invariant: the types and the counts.
Numbered == Kinds /\ LoopsCounted /\ ListensCounted

\* The first state has no loop, no listen and nobody that is to spawn one.
LEMMA InitNumbered == Init => Numbered
<1> SUFFICES ASSUME Init PROVE Numbered
  OBVIOUS
<1>1. Kinds
  BY InitKinds
<1>2. ASSUME NEW p
      PROVE  Spawners(p) = {} /\ ListenSpawners(p) = {}
  <2>1. \A t \in Callers : call[t].todo = << >> /\ call[t].at = "over"
    BY DEF Init, Idle
  <2>2. ToSet(<< >>) = {}
    BY DEF ToSet
  <2> QED
    BY <2>1, <2>2 DEF Spawners, ListenSpawners
<1>3. IsFiniteSet({}) /\ Cardinality({}) = 0
  BY FS_EmptySet
<1>4. LoopsCounted
  <2>1. calls = 0 /\ \A p \in Policies : loops[p].look = 0 /\ loops[p].tick = 0
    BY DEF Init
  <2>2. \A p \in Policies : IsFiniteSet(Spawners(p)) /\ Cardinality(Spawners(p)) = 0
    BY <1>2, <1>3, Zenon
  <2> QED
    BY <2>1, <2>2 DEF LoopsCounted
<1>5. ListensCounted
  <2>1. calls = 0 /\ \A p \in Listeners : listens[p].begin = 0 /\ listens[p].bind = 0
    BY DEF Init
  <2>2. \A p \in Listeners : IsFiniteSet(ListenSpawners(p)) /\ Cardinality(ListenSpawners(p)) = 0
    BY <1>2, <1>3, Zenon
  <2> QED
    BY <2>1, <2>2 DEF ListensCounted
<1> QED
  BY <1>1, <1>4, <1>5 DEF Numbered

\* Every step keeps the types and the counts.
LEMMA StepNumbered == Numbered /\ [Next]_vars => Numbered'
<1> SUFFICES ASSUME Numbered, [Next]_vars
             PROVE  Numbered'
  OBVIOUS
<1> USE DEF Numbered
<1>1. Kinds' /\ calls \in Nat /\ calls' \in Nat
  <2>1. Kinds'
    BY StepKinds
  <2> QED
    BY <2>1, BoundIsNatural DEF Kinds, NodeKinds
<1>2. /\ \A q \in Policies : loops[q].look \in Nat /\ loops[q].tick \in Nat
      /\ \A q \in Listeners : listens[q].begin \in Nat /\ listens[q].bind \in Nat
  BY DEF Kinds, PolicyKinds, TransportKinds
<1>3. ASSUME UNCHANGED <<call, loops, listens>>, calls' >= calls
      PROVE  Numbered'
  <2>1. /\ \A q \in Policies : loops'[q].look + loops'[q].tick <= loops[q].look + loops[q].tick
        /\ \A q \in Listeners :
             listens'[q].begin + listens'[q].bind <= listens[q].begin + listens[q].bind
    BY <1>2, <1>3
  <2> QED
    BY <1>1, <1>3, <2>1, OtherCounted
<1>4. CASE UNCHANGED vars
  BY <1>1, <1>3, <1>4 DEF vars, callVars, policyVars, transportVars
<1>5. CASE SetPolicy \/ PoliciesSet \/ MdnsPacket
  <2>1. UNCHANGED <<call, loops, listens>> /\ calls' >= calls
    BY <1>1, <1>5 DEF SetPolicy, PoliciesSet, MdnsPacket, callVars, policyVars, transportVars
  <2> QED
    BY <1>3, <2>1
<1>6. CASE \E t \in Callers, op \in {"start", "stop"} : Begin(t, op)
  BY <1>1, <1>6, BeginCounted
<1>7. CASE \E t \in Callers : CallSteps(t)
  BY <1>1, <1>7, CallCounted
<1>8. CASE \E p \in Listeners : ListenSteps(p) \/ TlsServerEnds(p)
  <2> PICK p \in Listeners : ListenSteps(p) \/ TlsServerEnds(p)
    BY <1>8
  <2>1. UNCHANGED <<call, calls, loops>>
    BY DEF ListenSteps, ListenBegin, ListenBind, ListenAtOnce, HttpsServerEnds, TlsServerEnds,
           ServerEnds, callVars, policyVars
  <2>2. \A q \in Listeners :
          listens'[q].begin + listens'[q].bind <= listens[q].begin + listens[q].bind
    BY NoMoreListens
  <2>3. /\ \A q \in Policies : loops'[q].look + loops'[q].tick <= loops[q].look + loops[q].tick
        /\ calls' >= calls
    BY <1>1, <1>2, <2>1
  <2> QED
    BY <1>1, <2>1, <2>2, <2>3, OtherCounted
<1>9. CASE \E p \in Policies : LoopLooks(p) \/ Tick(p)
  <2> PICK p \in Policies : LoopLooks(p) \/ Tick(p)
    BY <1>9
  <2>1. UNCHANGED <<call, calls, listens>>
    BY DEF LoopLooks, Tick, callVars, transportVars
  <2>2. \A q \in Policies : loops'[q].look + loops'[q].tick <= loops[q].look + loops[q].tick
    BY NoMoreLoops
  <2>3. /\ \A q \in Listeners :
             listens'[q].begin + listens'[q].bind <= listens[q].begin + listens[q].bind
        /\ calls' >= calls
    BY <1>1, <1>2, <2>1
  <2> QED
    BY <1>1, <2>1, <2>2, <2>3, OtherCounted
<1> QED
  BY <1>4, <1>5, <1>6, <1>7, <1>8, <1>9 DEF Next

\* The bounds that the counts give.
LEMMA NumberedTypes == Numbered => TypeOK
<1> SUFFICES ASSUME Numbered PROVE TypeOK
  OBVIOUS
<1> USE DEF Numbered, Kinds
<1>1. calls \in Nat /\ calls <= MaxCalls /\ MaxCalls \in Nat
  BY BoundIsNatural DEF NodeKinds
<1>2. loops \in [Policies -> [look : 0..(2 * MaxCalls), tick : 0..(2 * MaxCalls)]]
  <2>1. ASSUME NEW p \in Policies
        PROVE  loops[p] \in [look : 0..(2 * MaxCalls), tick : 0..(2 * MaxCalls)]
    <3>1. loops[p] \in [look : Nat, tick : Nat]
      BY DEF PolicyKinds
    <3>2. /\ Cardinality(Spawners(p)) \in Nat
          /\ loops[p].look + loops[p].tick + 2 * Cardinality(Spawners(p)) <= 2 * calls
      BY FS_CardinalityType DEF LoopsCounted
    <3>3. loops[p].look \in 0..(2 * MaxCalls) /\ loops[p].tick \in 0..(2 * MaxCalls)
      BY <1>1, <3>1, <3>2
    <3> QED
      BY <3>1, <3>3
  <2> QED
    BY <2>1 DEF PolicyKinds
<1>3. listens \in [Listeners -> [begin : 0..MaxCalls, bind : 0..MaxCalls]]
  <2>1. ASSUME NEW p \in Listeners
        PROVE  listens[p] \in [begin : 0..MaxCalls, bind : 0..MaxCalls]
    <3>1. listens[p] \in [begin : Nat, bind : Nat]
      BY DEF TransportKinds
    <3>2. /\ Cardinality(ListenSpawners(p)) \in Nat
          /\ listens[p].begin + listens[p].bind + Cardinality(ListenSpawners(p)) <= calls
      BY FS_CardinalityType DEF ListensCounted
    <3>3. listens[p].begin \in 0..MaxCalls /\ listens[p].bind \in 0..MaxCalls
      BY <1>1, <3>1, <3>2
    <3> QED
      BY <3>1, <3>3
  <2> QED
    BY <2>1 DEF TransportKinds
<1>4. call \in [Callers -> [op : {None, "start", "stop"}, todo : Seq(Policies), at : Labels]]
  BY DEF Places, CallRecords
<1>5. \A t \in Callers :
        /\ call[t].todo = << >> \/ \E s \in Settings : IsSuffix(call[t].todo, s)
        /\ call[t].at \in {"over", "read"} <=> call[t].todo = << >>
  BY DEF Places, Placed
<1> QED
  BY <1>2, <1>3, <1>4, <1>5 DEF TypeOK, NodeKinds, PolicyKinds, TransportKinds

\* The invariant holds always.
LEMMA AlwaysNumbered == Spec => []Numbered
BY InitNumbered, StepNumbered, PTL DEF Spec

\* The types of Lifecycle, for any policies, lists of them, callers and any number of calls: a call
\* is at a place of its code that fits what it does and the policy it is at, and there are no more
\* loops and listens than the starts could spawn, however these are interleaved.
THEOREM TypeCorrect == Spec => []TypeOK
BY AlwaysNumbered, NumberedTypes, PTL

-----------------------------------------------------------------------------
\* A policy and its transport while calls are under way: a listen that comes when the policy is
\* stopped was overtaken; a transport that is up then is about to be stopped, or was overtaken;
\* and one that is not up when the policy runs has a listen to come, or was refused or overtaken.
Stopping(p) == \E t \in Callers : call[t].at = "transport" /\ Head(call[t].todo) = p
Agree(p) ==
  /\ Listening(p) /\ ~flag[p] => p \in overtaken
  /\ up[p] /\ ~flag[p] => p \in overtaken \/ Stopping(p)
  /\ flag[p] /\ ~up[p] => p \in refused \cup overtaken \/ Listening(p)
Agreement == \A p \in Listeners : Agree(p)

\* A policy that a step has nothing to do with.
LEMMA Bystander ==
  ASSUME NEW p \in Listeners, Agree(p), flag'[p] = flag[p], listens'[p] = listens[p],
         up'[p] = up[p], overtaken \subseteq overtaken', refused \subseteq refused',
         Stopping(p) => Stopping(p)'
  PROVE  Agree(p)'
BY DEF Agree, Listening

\* A stop of a transport that is still to come stays to come when another call goes on, or one that
\* is elsewhere.
LEMMA StaysStopping ==
  ASSUME Places, NEW t \in Callers, CallSteps(t), NEW p,
         call[t].at # "transport" \/ Head(call[t].todo) # p
  PROVE  Stopping(p) => Stopping(p)'
<1>1. \A u \in Callers : u # t => call'[u] = call[u]
  BY CallForms, AfterGoto, AfterDone DEF ReadPolicies, Places
<1> QED
  BY <1>1 DEF Stopping

\* A listen more, and one less.
LEMMA OneListenMore ==
  ASSUME TransportKinds, NEW p \in Listeners, SpawnListen(p)
  PROVE  Listening(p)'
<1>1. /\ listens' \in [Listeners -> [begin : Nat, bind : Nat]]
      /\ listens'[p].begin + listens'[p].bind = listens[p].begin + listens[p].bind + 1
      /\ listens[p].begin \in Nat /\ listens[p].bind \in Nat
  BY SpawnListenKinds DEF TransportKinds
<1> QED
  BY <1>1 DEF Listening

\* The steps of the calls that spawn a listen keep the agreement.
LEMMA RunAgrees ==
  ASSUME Kinds, Agreement, NEW t \in Callers, RunServer(t) \/ ListenP2P(t)
  PROVE  Agreement'
<1> DEFINE h == Head(call[t].todo)
<1>1. h \in Listeners /\ call[t].at # "transport" /\ CallSteps(t)
  <2>1. CASE RunServer(t)
    BY <2>1, AtAPolicy DEF RunServer, At, Kinds, CallSteps
  <2>2. CASE ListenP2P(t)
    BY <2>2, AtAPolicy DEF ListenP2P, Kinds, Places, Placed, CallSteps
  <2> QED
    BY <2>1, <2>2
<1>2. /\ flag' = [flag EXCEPT ![h] = TRUE]
      /\ SpawnListen(h) \/ (flag[h] /\ UNCHANGED listens)
      /\ UNCHANGED <<up, overtaken, refused>>
  BY DEF RunServer, ListenP2P
<1>3. ASSUME NEW p \in Listeners
      PROVE  Agree(p)'
  <2>1. Agree(p) /\ (Stopping(p) => Stopping(p)')
    BY <1>1, StaysStopping DEF Agreement, Kinds
  <2>2. CASE p # h
    <3>1. flag'[p] = flag[p] /\ listens'[p] = listens[p] /\ up'[p] = up[p]
      BY <1>1, <1>2, <2>2, SpawnListenKinds DEF Kinds, PolicyKinds
    <3> QED
      BY <1>2, <2>1, <3>1, Bystander
  <2>3. CASE p = h
    <3>1. flag'[p] = TRUE
      BY <1>2, <2>3 DEF Kinds, PolicyKinds, Listeners
    <3>2. Listening(p)' \/ (flag[p] /\ UNCHANGED listens)
      BY <1>1, <1>2, <2>3, OneListenMore DEF Kinds
    <3> QED
      BY <1>2, <2>1, <3>1, <3>2 DEF Agree, Listening
  <2> QED
    BY <2>2, <2>3
<1> QED
  BY <1>3 DEF Agreement

\* So do those that lower the flag, after which the transport is stopped ...
LEMMA LowerAgrees ==
  ASSUME Kinds, Agreement, NEW t \in Callers, StopServer(t) \/ LowerFlag(t)
  PROVE  Agreement'
<1> DEFINE h == Head(call[t].todo)
<1>1. /\ h \in Listeners /\ call[t].at # "transport" /\ CallSteps(t)
      /\ call[t].at \notin {"over", "read"}
  <2>1. CASE StopServer(t)
    BY <2>1, AtAPolicy DEF StopServer, At, Kinds, CallSteps
  <2>2. CASE LowerFlag(t)
    BY <2>2, AtAPolicy DEF LowerFlag, Kinds, Places, Placed, CallSteps
  <2> QED
    BY <2>1, <2>2
<1>2. /\ UNCHANGED <<listens, up, refused>>
      /\ \/ UNCHANGED <<flag, overtaken>>
         \/ Goto(t, "transport") /\ flag' = [flag EXCEPT ![h] = FALSE] /\ Overtakes(h)
  BY DEF StopServer, LowerFlag, transportVars
<1>3. ASSUME NEW p \in Listeners
      PROVE  Agree(p)'
  <2>1. Agree(p) /\ (Stopping(p) => Stopping(p)')
    BY <1>1, StaysStopping DEF Agreement, Kinds
  <2>2. CASE UNCHANGED <<flag, overtaken>>
    BY <1>2, <2>1, <2>2, Bystander
  <2>3. CASE Goto(t, "transport") /\ flag' = [flag EXCEPT ![h] = FALSE] /\ Overtakes(h)
    <3>1. overtaken \subseteq overtaken'
      BY <2>3 DEF Overtakes
    <3>2. CASE p # h
      <4>1. flag'[p] = flag[p]
        BY <2>3, <3>2 DEF Kinds, PolicyKinds
      <4> QED
        BY <1>2, <2>1, <3>1, <4>1, Bystander
    <3>3. CASE p = h
      <4>1. flag'[p] = FALSE
        BY <2>3, <3>3 DEF Kinds, PolicyKinds, Listeners
      <4>2. Stopping(p)'
        <5>1. call'[t] = [op |-> call[t].op, todo |-> call[t].todo, at |-> "transport"]
          BY <2>3, AfterGoto DEF Kinds
        <5> QED
          BY <3>3, <5>1 DEF Stopping
      <4>3. Listening(p)' => p \in overtaken'
        BY <1>2, <2>3, <3>3 DEF Overtakes, Listening
      <4> QED
        BY <4>1, <4>2, <4>3 DEF Agree
    <3> QED
      BY <3>2, <3>3
  <2> QED
    BY <1>2, <2>2, <2>3
<1> QED
  BY <1>3 DEF Agreement

\* ... and the stop of the transport.
LEMMA StopTransportAgrees ==
  ASSUME Kinds, Agreement, NEW t \in Callers, StopTransport(t)
  PROVE  Agreement'
<1> DEFINE h == Head(call[t].todo)
<1>1. h \in Listeners /\ CallSteps(t)
  BY AtAPolicy DEF StopTransport, Kinds, Places, Placed, CallSteps
<1>2. /\ up' = [up EXCEPT ![h] = FALSE]
      /\ overtaken' = IF flag[h] THEN overtaken \cup {h} ELSE overtaken
      /\ UNCHANGED <<flag, listens, refused>>
  BY DEF StopTransport, policyVars
<1>3. ASSUME NEW p \in Listeners
      PROVE  Agree(p)'
  <2>1. Agree(p)
    BY DEF Agreement
  <2>2. CASE p # h
    <3>1. Stopping(p) => Stopping(p)'
      BY <1>1, <2>2, StaysStopping DEF Kinds
    <3>2. up'[p] = up[p]
      BY <1>2, <2>2 DEF Kinds, TransportKinds
    <3> QED
      BY <1>2, <2>1, <3>1, <3>2, Bystander
  <2>3. CASE p = h
    <3>1. up'[p] = FALSE
      BY <1>2, <2>3 DEF Kinds, TransportKinds
    <3> QED
      BY <1>2, <2>1, <2>3, <3>1 DEF Agree, Listening
  <2> QED
    BY <2>2, <2>3
<1> QED
  BY <1>3 DEF Agreement

\* The other steps of the calls change neither the flag of such a policy nor its transport.
LEMMA OtherCallsAgree ==
  ASSUME Kinds, Agreement, NEW t \in Callers, CallSteps(t),
         ~(RunServer(t) \/ ListenP2P(t) \/ StopServer(t) \/ LowerFlag(t) \/ StopTransport(t))
  PROVE  Agreement'
<1>1. call[t].at # "transport" /\ UNCHANGED <<listens, up, overtaken>> /\ refused \subseteq refused'
  BY DEF CallSteps, ReadPolicies, RunPoll, RunP2P, BindSockets, RunLoops, StopPoll, Drained, StopP2P,
         CloseSockets, At, transportVars
<1>2. ASSUME NEW p \in Listeners
      PROVE  flag'[p] = flag[p]
  <2>1. CASE RunPoll(t) \/ StopPoll(t)
    <3> DEFINE h == Head(call[t].todo)
    <3>1. Type[h] = "poll" /\ \E b \in BOOLEAN : flag' = [flag EXCEPT ![h] = b]
      BY <2>1 DEF RunPoll, StopPoll, At
    <3>2. h # p
      BY <3>1 DEF Listeners
    <3> QED
      BY <3>1, <3>2 DEF Kinds, PolicyKinds
  <2>2. CASE ~(RunPoll(t) \/ StopPoll(t))
    BY <2>2 DEF CallSteps, ReadPolicies, RunP2P, BindSockets, RunLoops, Drained, StopP2P,
           CloseSockets, policyVars
  <2> QED
    BY <2>1, <2>2
<1> QED
  BY <1>1, <1>2, StaysStopping, Bystander DEF Agreement, Kinds

\* The steps of a listen and of a server keep the agreement.
LEMMA ListenAgrees ==
  ASSUME Kinds, Agreement, NEW q \in Listeners, ListenSteps(q) \/ TlsServerEnds(q)
  PROVE  Agreement'
<1>1. UNCHANGED <<call, flag, overtaken>>
  BY DEF ListenSteps, ListenBegin, ListenBind, ListenAtOnce, HttpsServerEnds, TlsServerEnds,
         ServerEnds, callVars, policyVars
<1>2. \A p : Stopping(p) => Stopping(p)'
  BY <1>1 DEF Stopping
<1>3. /\ listens[q].begin \in Nat /\ listens[q].bind \in Nat
      /\ listens \in [Listeners -> [begin : Nat, bind : Nat]]
      /\ up \in [Listeners -> BOOLEAN] /\ served \in [Listeners -> BOOLEAN]
  BY DEF Kinds, TransportKinds
<1>4. CASE HttpsServerEnds(q) \/ TlsServerEnds(q)
  <2>1. UNCHANGED <<listens, up, refused>>
    BY <1>4 DEF HttpsServerEnds, TlsServerEnds, ServerEnds
  <2> QED
    BY <1>1, <1>2, <2>1, Bystander DEF Agreement
<1>5. CASE ListenBegin(q) \/ ListenBind(q) \/ ListenAtOnce(q)
  <2>1. Listening(q)
    <3>1. listens[q].begin > 0 \/ listens[q].bind > 0
      BY <1>5 DEF ListenBegin, ListenBind, ListenAtOnce
    <3> QED
      BY <1>3, <3>1 DEF Listening
  <2>2. /\ \A p \in Listeners : p # q => listens'[p] = listens[p] /\ up'[p] = up[p]
        /\ refused \subseteq refused'
    <3>1. \A p \in Listeners : p # q => listens'[p] = listens[p]
      BY <1>3, <1>5 DEF ListenBegin, ListenBind, ListenAtOnce
    <3>2. \/ Refuse(q) \/ UNCHANGED <<up, refused>>
          \/ up' = [up EXCEPT ![q] = TRUE] /\ UNCHANGED refused
      BY <1>5 DEF ListenBegin, ListenBind, ListenAtOnce, TakeAddress
    <3> QED
      BY <1>3, <3>1, <3>2 DEF Refuse
  <2>3. \/ Refuse(q)
        \/ up' = [up EXCEPT ![q] = TRUE] /\ UNCHANGED refused
        \/ UNCHANGED <<up, refused>> /\ (Listening(q)' <=> Listening(q))
    <3>1. CASE ListenBegin(q)
      <4>1. CASE up[q]
        BY <3>1, <4>1 DEF ListenBegin
      <4>2. CASE ~up[q]
        <5>1. /\ listens'[q].begin = listens[q].begin - 1
              /\ listens'[q].bind = listens[q].bind + 1
              /\ UNCHANGED <<up, refused>>
          BY <1>3, <3>1, <4>2 DEF ListenBegin
        <5>2. Listening(q)' <=> Listening(q)
          BY <1>3, <5>1 DEF Listening
        <5> QED
          BY <5>1, <5>2
      <4> QED
        BY <4>1, <4>2
    <3>2. CASE ListenBind(q)
      BY <3>2 DEF ListenBind, TakeAddress
    <3>3. CASE ListenAtOnce(q)
      BY <3>3 DEF ListenAtOnce, TakeAddress
    <3> QED
      BY <1>5, <3>1, <3>2, <3>3
  <2>4. ASSUME NEW p \in Listeners, p # q
        PROVE  Agree(p)'
    BY <1>1, <1>2, <2>2, <2>4, Bystander DEF Agreement
  <2>5. Agree(q)'
    <3>1. Agree(q)
      BY DEF Agreement
    <3>2. CASE Refuse(q)
      <4>1. q \in refused' /\ UNCHANGED up
        BY <3>2 DEF Refuse
      <4> QED
        BY <1>1, <1>2, <2>1, <3>1, <4>1 DEF Agree
    <3>3. CASE up' = [up EXCEPT ![q] = TRUE] /\ UNCHANGED refused
      <4>1. up'[q] = TRUE
        BY <1>3, <3>3
      <4>2. ~flag[q] => q \in overtaken
        BY <2>1, <3>1 DEF Agree
      <4> QED
        BY <1>1, <4>1, <4>2 DEF Agree
    <3>4. CASE UNCHANGED <<up, refused>> /\ (Listening(q)' <=> Listening(q))
      BY <1>1, <1>2, <3>1, <3>4 DEF Agree
    <3> QED
      BY <2>3, <3>2, <3>3, <3>4
  <2> QED
    BY <2>4, <2>5 DEF Agreement
<1> QED
  BY <1>4, <1>5 DEF ListenSteps

\* And so does every step.
LEMMA StepAgrees == Kinds /\ Agreement /\ [Next]_vars => Agreement'
<1> SUFFICES ASSUME Kinds, Agreement, [Next]_vars
             PROVE  Agreement'
  OBVIOUS
<1>1. ASSUME UNCHANGED <<flag, listens, up, overtaken, refused>>,
             \A p : Stopping(p) => Stopping(p)'
      PROVE  Agreement'
  BY <1>1, Bystander DEF Agreement
<1>2. CASE UNCHANGED vars \/ SetPolicy \/ PoliciesSet \/ MdnsPacket
           \/ \E p \in Policies : LoopLooks(p) \/ Tick(p)
  <2>1. UNCHANGED <<call, flag, listens, up, overtaken, refused>>
    BY <1>2 DEF vars, SetPolicy, PoliciesSet, MdnsPacket, LoopLooks, Tick, callVars, policyVars,
                transportVars
  <2> QED
    BY <1>1, <2>1 DEF Stopping
<1>3. CASE \E t \in Callers, op \in {"start", "stop"} : Begin(t, op)
  <2> PICK t \in Callers, op \in {"start", "stop"} : Begin(t, op)
    BY <1>3
  <2>1. /\ UNCHANGED <<flag, listens, up, overtaken, refused>> /\ call[t].at = "over"
        /\ \A u \in Callers : u # t => call'[u] = call[u]
    BY DEF Begin, policyVars, transportVars, Kinds, Places
  <2>2. \A p : Stopping(p) => Stopping(p)'
    BY <2>1 DEF Stopping
  <2> QED
    BY <1>1, <2>1, <2>2
<1>4. CASE \E t \in Callers : CallSteps(t)
  BY <1>4, RunAgrees, LowerAgrees, StopTransportAgrees, OtherCallsAgree
<1>5. CASE \E p \in Listeners : ListenSteps(p) \/ TlsServerEnds(p)
  BY <1>5, ListenAgrees
<1> QED
  BY <1>2, <1>3, <1>4, <1>5 DEF Next

\* When nothing is under way, a policy and its transport agree, for any policies, callers and
\* interleaving of their starts and stops: the transport listens exactly if the policy runs, but for
\* the policies whose listen a stop overtook, or whose listen was refused (server.rs, p2p.rs
\* run_policy and stop; udp.rs, tls.rs, https.rs, memory.rs listen and stop).
THEOREM ServersAgree == Spec => []ServerAgrees
<1>1. Init => Agreement
  <2>1. ASSUME Init, NEW p \in Listeners
        PROVE  ~up[p] /\ ~flag[p] /\ ~Listening(p)
    BY <2>1 DEF Init, Listeners, Listening
  <2> QED
    BY <2>1 DEF Agreement, Agree
<1>2. Agreement => ServerAgrees
  <2>1. Quiet => \A p : ~Stopping(p)
    BY DEF Quiet, Stopping
  <2>2. ASSUME Agreement, Quiet, NEW p \in Listeners, ~Listening(p)
        PROVE  /\ up[p] /\ ~flag[p] => p \in overtaken
               /\ flag[p] /\ ~up[p] => p \in refused \cup overtaken
    BY <2>1, <2>2 DEF Agreement, Agree
  <2> QED
    BY <2>2, Zenon DEF ServerAgrees
<1>3. Spec => []Kinds
  BY AlwaysNumbered, PTL DEF Numbered
<1> QED
  BY <1>1, <1>2, <1>3, StepAgrees, PTL DEF Spec

-----------------------------------------------------------------------------
\* The flag of a policy that a call of an orderly node is past.
Settled(p) ==
  flag[p] = running \/ (Type[p] = "p2p" /\ p \in refused /\ ~flag[p]) \/ p \in missed
Active(t) == call[t].at # "over"

\* The policies that a start or a stop has to do with: those of the node, and those that a task of
\* set_policy took from under it.
Concerned == ToSet(policies) \cup missed

\* What is so while a call of an orderly node is under way: the policies that it is past are settled,
\* and so is the flag of the one it is at, as far as it is through with it.
Progress(t) ==
  /\ running = (call[t].op = "start")
  /\ ToSet(call[t].todo) \subseteq Concerned
  /\ call[t].at # "read" => \A p \in ToSet(policies) \ ToSet(call[t].todo) : Settled(p)
  /\ call[t].at = "loops" => flag[Head(call[t].todo)]
  /\ call[t].at \in {"bind", "transport", "drain", "close"} => ~flag[Head(call[t].todo)]

\* An orderly node is in one start or stop at a time, and the policies that are neither its own nor
\* missed are stopped.  A setting may be waiting at any time.
Ordered ==
  orderly =>
    /\ \A t, u \in Callers : Active(t) /\ Active(u) => t = u
    /\ \A p \in Policies : p \notin Concerned => ~flag[p]
    /\ \A t \in Callers : Active(t) => Progress(t)
    /\ Quiet => \A p \in ToSet(policies) : Settled(p)

\* The policies of the node are policies.
LEMMA OwnPolicies ==
  ASSUME Kinds
  PROVE  ToSet(policies) \subseteq Policies
BY ElementsArePolicies DEF Kinds, NodeKinds

\* A call that changes no flag but that of the policy it is at, and settles it when it is done with
\* it, keeps the order.
LEMMA CallOrdered ==
  ASSUME Kinds, Ordered, orderly, NEW t \in Callers, call[t].at \notin {"over", "read"},
         NEW h, h = Head(call[t].todo),
         UNCHANGED <<policies, missed, running, orderly>>, refused \subseteq refused',
         \A q \in Policies : q # h => flag'[q] = flag[q],
         \/ Done(t) /\ Settled(h)'
         \/ \E label \in Labels \ {"over", "read"} :
              /\ Goto(t, label)
              /\ label = "loops" => flag'[h]
              /\ label \in {"bind", "transport", "drain", "close"} =>
                   ~flag'[h]
  PROVE  Ordered'
<1> DEFINE s == call[t].todo
<1>1. s \in Seq(Policies) /\ s # << >> /\ h \in Policies
  BY AtAPolicy DEF Kinds
<1>2. /\ ToSet(s) = ToSet(Tail(s)) \cup {h} /\ ToSet(Tail(s)) \subseteq ToSet(s)
  BY <1>1, TailOfList
<1>3. Progress(t) /\ \A u \in Callers : u # t => ~Active(u)
  BY DEF Ordered, Active
<1>4. Concerned' = Concerned
  BY DEF Concerned
<1>5. ToSet(s) \subseteq Concerned /\ h \in Concerned
  BY <1>2, <1>3 DEF Progress
<1>6. \A p \in Policies : p \notin Concerned' => ~flag'[p]
  BY <1>4, <1>5 DEF Ordered
<1>7. ASSUME NEW p \in ToSet(policies), p \notin ToSet(s)
      PROVE  Settled(p)'
  <2>1. Settled(p)
    BY <1>3, <1>7 DEF Progress
  <2>2. p # h /\ p \in Policies
    BY <1>2, <1>7, OwnPolicies
  <2>3. flag'[p] = flag[p]
    BY <2>2
  <2> QED
    BY <2>1, <2>3 DEF Settled
<1>8. CASE Done(t) /\ Settled(h)'
  <2>1. /\ call'[t] = [op |-> call[t].op, todo |-> Tail(s),
                       at |-> IF Len(s) = 1 THEN "over" ELSE "next"]
        /\ \A u \in Callers : u # t => call'[u] = call[u]
    BY <1>8, AfterDone DEF Kinds
  <2>2. call'[t].op = call[t].op /\ call'[t].todo = Tail(s) /\ call'[t].at \in {"over", "next"}
    BY <2>1
  <2>3. \A u \in Callers : u # t => ~Active(u)'
    BY <1>3, <2>1 DEF Active
  <2>4. \A p \in ToSet(policies) : p \notin ToSet(Tail(s)) => Settled(p)'
    BY <1>2, <1>7, <1>8
  <2>5. Progress(t)'
    <3>1. running' = (call'[t].op = "start")
      BY <1>3, <2>2 DEF Progress
    <3>2. ToSet(call'[t].todo) \subseteq Concerned'
      BY <1>2, <1>4, <1>5, <2>2
    <3> QED
      BY <2>2, <2>4, <3>1, <3>2 DEF Progress
  <2>6. Quiet' => \A p \in ToSet(policies) : Settled(p)'
    <3>1. SUFFICES ASSUME Quiet' PROVE \A p \in ToSet(policies) : Settled(p)'
      OBVIOUS
    <3>2. call'[t].at = "over"
      BY <3>1 DEF Quiet
    <3>3. Len(s) = 1
      BY <2>1, <3>2
    <3>4. Tail(s) = << >>
      BY <1>1, <3>3, TailOfList
    <3>5. ToSet(Tail(s)) = {}
      BY <3>4 DEF ToSet
    <3> QED
      BY <2>4, <3>5
  <2> QED
    BY <1>6, <2>3, <2>5, <2>6 DEF Ordered
<1>9. ASSUME NEW label \in Labels \ {"over", "read"}, Goto(t, label),
             label = "loops" => flag'[h],
             label \in {"bind", "transport", "drain", "close"} => ~flag'[h]
      PROVE  Ordered'
  <2>1. /\ call'[t] = [op |-> call[t].op, todo |-> s, at |-> label]
        /\ \A u \in Callers : u # t => call'[u] = call[u]
    BY <1>9, AfterGoto DEF Kinds
  <2>2. call'[t].op = call[t].op /\ call'[t].todo = s /\ call'[t].at = label
    BY <2>1
  <2>3. \A u \in Callers : u # t => ~Active(u)'
    BY <1>3, <2>1 DEF Active
  <2>4. Progress(t)'
    BY <1>3, <1>4, <1>5, <1>7, <1>9, <2>2 DEF Progress
  <2>5. ~Quiet'
    BY <1>9, <2>2 DEF Quiet
  <2> QED
    BY <1>6, <2>3, <2>4, <2>5 DEF Ordered
<1> QED
  BY <1>8, <1>9

\* The policies are read once the call is the only one.
LEMMA ReadOrdered ==
  ASSUME Kinds, Ordered, NEW t \in Callers, ReadPolicies(t)
  PROVE  Ordered'
<1>1. /\ UNCHANGED <<policies, running, orderly, flag, refused>> /\ call[t].at = "read"
      /\ missed' = missed \ ToSet(policies)
  BY DEF ReadPolicies, policyVars
<1>2. SUFFICES ASSUME orderly PROVE Ordered'
  BY <1>1 DEF Ordered
<1>3. Progress(t) /\ (\A u \in Callers : u # t => ~Active(u)) /\ Concerned' = Concerned
  BY <1>1, <1>2 DEF Ordered, Active, Concerned
<1>4. /\ call'[t].op = call[t].op /\ call'[t].todo = policies
      /\ call'[t].at = IF policies = << >> THEN "over" ELSE "next"
      /\ \A u \in Callers : u # t => call'[u] = call[u]
  BY DEF ReadPolicies, Kinds, Places, CallRecords
<1>5. \A u \in Callers : u # t => ~Active(u)'
  BY <1>3, <1>4 DEF Active
<1>6. Progress(t)'
  BY <1>1, <1>3, <1>4 DEF Progress, Concerned
<1>7. Quiet' => \A p \in ToSet(policies)' : Settled(p)'
  <2> SUFFICES ASSUME Quiet' PROVE ToSet(policies)' = {}
    OBVIOUS
  <2>1. policies = << >>
    BY <1>4 DEF Quiet
  <2> QED
    BY <1>1, <2>1 DEF ToSet
<1>8. \A p \in Policies : p \notin Concerned' => ~flag'[p]
  BY <1>1, <1>2, <1>3 DEF Ordered
<1> QED
  BY <1>1, <1>3, <1>5, <1>6, <1>7, <1>8 DEF Ordered

\* What a call knows at a policy.
LEMMA AtWork ==
  ASSUME Kinds, Ordered, orderly, NEW t \in Callers, call[t].at \notin {"over", "read"}
  PROVE  /\ Progress(t) /\ running = (call[t].op = "start")
         /\ Head(call[t].todo) \in Policies
         /\ flag \in [Policies -> BOOLEAN] /\ call[t].op \in {"start", "stop"}
BY AtAPolicy DEF Ordered, Active, Progress, Kinds, PolicyKinds

\* The steps of a start keep the order: a policy that it is done with runs, or is a P2P policy that was
\* refused its address.
LEMMA StartOrdered ==
  ASSUME Kinds, Ordered, NEW t \in Callers,
         \/ RunPoll(t) \/ RunServer(t) \/ RunP2P(t)
         \/ BindSockets(t) \/ ListenP2P(t) \/ RunLoops(t)
  PROVE  Ordered'
<1>1. /\ UNCHANGED <<policies, missed, running, orderly>> /\ refused \subseteq refused'
      /\ call[t].at \notin {"over", "read"} /\ call[t].op = "start"
  <2>1. /\ UNCHANGED <<policies, missed, running, orderly>> /\ refused \subseteq refused'
        /\ call[t].at \notin {"over", "read"}
    BY DEF RunPoll, RunServer, RunP2P, BindSockets, ListenP2P, RunLoops, At, nodeVars
  <2>2. call[t].op = "start"
    BY DEF RunPoll, RunServer, RunP2P, BindSockets, ListenP2P, RunLoops, At, Kinds, Places, Placed
  <2> QED
    BY <2>1, <2>2
<1>2. SUFFICES ASSUME orderly PROVE Ordered'
  BY <1>1 DEF Ordered
<1>3. /\ Progress(t) /\ running = TRUE
      /\ flag \in [Policies -> BOOLEAN]
  BY <1>1, <1>2, AtWork
<1>4. PICK h \in Policies : h = Head(call[t].todo)
  BY <1>1, <1>2, AtWork
<1>5. ASSUME flag'[h] = TRUE
      PROVE  Settled(h)'
  BY <1>1, <1>3, <1>5 DEF Settled
<1>6. CASE RunPoll(t) \/ RunServer(t)
  <2>1. Done(t) /\ flag' = [flag EXCEPT ![h] = TRUE]
    BY <1>4, <1>6 DEF RunPoll, RunServer
  <2>2. flag'[h] = TRUE /\ \A q \in Policies : q # h => flag'[q] = flag[q]
    BY <1>3, <2>1
  <2> QED
    BY <1>1, <1>2, <1>4, <1>5, <2>1, <2>2, CallOrdered
<1>7. CASE RunP2P(t)
  <2>1. UNCHANGED flag
    BY <1>7 DEF RunP2P, policyVars
  <2>2. CASE flag[h]
    <3>1. Done(t) /\ flag'[h] = TRUE
      BY <1>3, <1>4, <1>7, <2>1, <2>2 DEF RunP2P
    <3> QED
      BY <1>1, <1>2, <1>4, <1>5, <2>1, <3>1, CallOrdered
  <2>3. CASE ~flag[h]
    <3>1. Goto(t, "bind") /\ ~flag'[h]
      BY <1>4, <1>7, <2>1, <2>3 DEF RunP2P
    <3> QED
      BY <1>1, <1>2, <1>4, <2>1, <3>1, CallOrdered DEF Labels
  <2> QED
    BY <2>2, <2>3
<1>8. CASE BindSockets(t)
  <2>1. UNCHANGED flag /\ ~flag[h] /\ Type[h] = "p2p"
    BY <1>3, <1>4, <1>8 DEF BindSockets, Progress, Kinds, Places, Placed
  <2>2. CASE mdns # {}
    <3>1. Done(t) /\ h \in refused'
      BY <1>4, <1>8, <2>2 DEF BindSockets
    <3>2. Settled(h)'
      BY <2>1, <3>1 DEF Settled
    <3> QED
      BY <1>1, <1>2, <1>4, <2>1, <3>1, <3>2, CallOrdered
  <2>3. CASE mdns = {}
    <3>1. Goto(t, "listen")
      BY <1>8, <2>3 DEF BindSockets
    <3> QED
      BY <1>1, <1>2, <1>4, <2>1, <3>1, CallOrdered DEF Labels
  <2> QED
    BY <2>2, <2>3
<1>9. CASE ListenP2P(t)
  <2>1. Goto(t, "loops") /\ flag' = [flag EXCEPT ![h] = TRUE]
    BY <1>4, <1>9 DEF ListenP2P
  <2>2. flag'[h] /\ \A q \in Policies : q # h => flag'[q] = flag[q]
    BY <1>3, <2>1
  <2>3. "loops" \in Labels \ {"over", "read"} /\ "loops" \notin {"bind", "transport", "drain", "close"}
    BY DEF Labels
  <2>4. \E label \in Labels \ {"over", "read"} :
          /\ Goto(t, label)
          /\ label = "loops" => flag'[h]
          /\ label \in {"bind", "transport", "drain", "close"} => ~flag'[h]
    BY <2>1, <2>2, <2>3
  <2> QED
    BY <1>1, <1>2, <1>4, <2>2, <2>4, CallOrdered
<1>10. CASE RunLoops(t)
  <2>1. UNCHANGED flag /\ flag[h]
    BY <1>3, <1>4, <1>10 DEF RunLoops, Progress
  <2>2. Settled(h)'
    BY <1>3, <1>5, <2>1
  <2>3. Done(t) \/ Goto(t, "panicked")
    BY <1>10 DEF RunLoops
  <2> QED
    BY <1>1, <1>2, <1>4, <2>1, <2>2, <2>3, CallOrdered DEF Labels
<1> QED
  BY <1>6, <1>7, <1>8, <1>9, <1>10

\* The steps of a stop keep it: a policy that it is done with is stopped.
LEMMA StopOrdered ==
  ASSUME Kinds, Ordered, NEW t \in Callers,
         \/ StopPoll(t) \/ StopServer(t) \/ StopTransport(t) \/ Drained(t)
         \/ StopP2P(t) \/ LowerFlag(t) \/ CloseSockets(t)
  PROVE  Ordered'
<1>1. /\ UNCHANGED <<policies, missed, running, orderly, refused>>
      /\ call[t].at \notin {"over", "read"} /\ call[t].op = "stop"
  <2>1. /\ UNCHANGED <<policies, missed, running, orderly, refused>>
        /\ call[t].at \notin {"over", "read"}
    BY DEF StopPoll, StopServer, StopTransport, Drained, StopP2P, LowerFlag, CloseSockets, At,
           nodeVars
  <2>2. call[t].op = "stop"
    BY DEF StopPoll, StopServer, StopTransport, Drained, StopP2P, LowerFlag, CloseSockets, At,
           Kinds, Places, Placed
  <2> QED
    BY <2>1, <2>2
<1>2. SUFFICES ASSUME orderly PROVE Ordered'
  BY <1>1 DEF Ordered
<1>3. /\ Progress(t) /\ running = FALSE
      /\ flag \in [Policies -> BOOLEAN]
  BY <1>1, <1>2, AtWork
<1>4. PICK h \in Policies : h = Head(call[t].todo)
  BY <1>1, <1>2, AtWork
<1>5. ASSUME flag'[h] = FALSE, Done(t), \A q \in Policies : q # h => flag'[q] = flag[q]
      PROVE  Ordered'
  <2>1. Settled(h)'
    BY <1>1, <1>3, <1>5 DEF Settled
  <2> QED
    BY <1>1, <1>2, <1>4, <1>5, <2>1, CallOrdered
<1>6. ASSUME NEW label \in {"transport", "drain", "close", "lower"}, Goto(t, label),
             label # "lower" => flag'[h] = FALSE, \A q \in Policies : q # h => flag'[q] = flag[q]
      PROVE  Ordered'
  <2>1. /\ label \in Labels \ {"over", "read"} /\ label # "loops"
        /\ label \in {"bind", "transport", "drain", "close"} => ~flag'[h]
    BY <1>6 DEF Labels
  <2> QED
    BY <1>1, <1>2, <1>4, <1>6, <2>1, CallOrdered
<1>7. ASSUME flag' = [flag EXCEPT ![h] = FALSE]
      PROVE  flag'[h] = FALSE /\ \A q \in Policies : q # h => flag'[q] = flag[q]
  BY <1>3, <1>7
<1>8. CASE StopPoll(t)
  BY <1>4, <1>5, <1>7, <1>8 DEF StopPoll
<1>9. CASE StopServer(t) \/ LowerFlag(t)
  <2>1. CASE Goto(t, "transport") /\ flag' = [flag EXCEPT ![h] = FALSE]
    BY <1>6, <1>7, <2>1
  <2>2. CASE Done(t) /\ UNCHANGED flag /\ ~flag[h]
    BY <1>3, <1>5, <2>2
  <2> QED
    BY <1>4, <1>9, <2>1, <2>2 DEF StopServer, LowerFlag
<1>10. CASE StopTransport(t) \/ Drained(t)
  <2>1. UNCHANGED flag /\ flag'[h] = FALSE
    BY <1>3, <1>4, <1>10 DEF StopTransport, Drained, Progress, policyVars
  <2>2. Goto(t, "drain") \/ Goto(t, "close") \/ Done(t)
    BY <1>10 DEF StopTransport, Drained, StopGoesOn
  <2> QED
    BY <1>5, <1>6, <2>1, <2>2
<1>11. CASE StopP2P(t)
  <2>1. UNCHANGED flag
    BY <1>11 DEF StopP2P, policyVars
  <2>2. Goto(t, "lower") \/ (Done(t) /\ flag[h] = FALSE)
    BY <1>3, <1>4, <1>11 DEF StopP2P
  <2> QED
    BY <1>5, <1>6, <2>1, <2>2
<1>12. CASE CloseSockets(t)
  <2>1. UNCHANGED flag /\ flag'[h] = FALSE /\ Done(t)
    BY <1>3, <1>4, <1>12 DEF CloseSockets, Progress
  <2> QED
    BY <1>5, <2>1
<1> QED
  BY <1>8, <1>9, <1>10, <1>11, <1>12

\* A task of set_policy may set the policies at any time.  While the node runs, or a start or stop is
\* under way, the old and the new are missed; otherwise all are stopped.
LEMMA SetOrdered ==
  ASSUME Kinds, Ordered, PoliciesSet
  PROVE  Ordered'
<1>1. /\ UNCHANGED <<call, running, flag, refused, orderly>>
      /\ missed' = IF running \/ ~Quiet THEN missed \cup ToSet(policies) \cup ToSet(policies)'
                                        ELSE missed
  BY DEF PoliciesSet, callVars, policyVars
<1>2. SUFFICES ASSUME orderly PROVE Ordered'
  BY <1>1 DEF Ordered
<1>3. \A t, u \in Callers : Active(t)' /\ Active(u)' => t = u
  BY <1>1, <1>2 DEF Ordered, Active
<1>4. CASE running \/ ~Quiet
  <2>1. missed' = missed \cup ToSet(policies) \cup ToSet(policies)'
    BY <1>1, <1>4
  <2>2. Concerned \subseteq Concerned'
    BY <2>1 DEF Concerned
  <2>3. \A p \in ToSet(policies)' : Settled(p)'
    BY <2>1 DEF Settled
  <2>4. \A p \in Policies : p \notin Concerned' => ~flag'[p]
    BY <1>1, <1>2, <2>2 DEF Ordered
  <2>5. \A t \in Callers : Active(t)' => Progress(t)'
    BY <1>1, <1>2, <2>2, <2>3 DEF Ordered, Active, Progress
  <2> QED
    BY <1>3, <2>3, <2>4, <2>5 DEF Ordered
<1>5. CASE ~running /\ Quiet
  <2>1. missed' = missed /\ flag \in [Policies -> BOOLEAN] /\ running = FALSE
    BY <1>1, <1>5 DEF Kinds, NodeKinds, PolicyKinds
  <2>2. \A p \in Policies : p \notin missed => flag[p] = FALSE
    BY <1>2, <1>5, <2>1 DEF Ordered, Concerned, Settled
  <2>3. policies' \in Settings
    BY DEF PoliciesSet, Kinds, NodeKinds
  <2>4. ToSet(policies)' \subseteq Policies
    BY <2>3, ElementsArePolicies
  <2>5. \A p \in ToSet(policies)' : Settled(p)'
    BY <1>1, <2>1, <2>2, <2>4 DEF Settled
  <2>6. \A t \in Callers : ~Active(t)'
    BY <1>1, <1>5 DEF Quiet, Active
  <2>7. \A p \in Policies : p \notin Concerned' => ~flag'[p]
    BY <1>1, <2>1, <2>2 DEF Concerned
  <2> QED
    BY <1>3, <2>5, <2>6, <2>7 DEF Ordered
<1> QED
  BY <1>4, <1>5

\* The start and the stop that come when no other is under way begin in order.
LEMMA BeginOrdered ==
  ASSUME Kinds, Ordered, NEW t \in Callers, NEW op \in {"start", "stop"}, Begin(t, op)
  PROVE  Ordered'
<1>1. /\ UNCHANGED <<policies, missed, flag, refused>> /\ running' = (op = "start")
      /\ orderly' => orderly /\ Quiet
  BY DEF Begin, policyVars
<1>2. /\ call'[t].op = op /\ call'[t].todo = << >> /\ call'[t].at = "read"
      /\ \A u \in Callers : u # t => call'[u] = call[u]
  BY DEF Begin, Kinds, Places
<1>3. SUFFICES ASSUME orderly' PROVE Ordered'
  BY DEF Ordered
<1>4. \A u \in Callers : u # t => ~Active(u)'
  BY <1>1, <1>2, <1>3 DEF Quiet, Active
<1>5. ToSet(call'[t].todo) = {}
  BY <1>2 DEF ToSet
<1>6. Progress(t)'
  BY <1>1, <1>2, <1>5 DEF Progress
<1>7. ~Quiet'
  BY <1>2 DEF Quiet
<1>8. \A p \in Policies : p \notin Concerned' => ~flag'[p]
  BY <1>1, <1>3 DEF Ordered, Concerned
<1> QED
  BY <1>3, <1>4, <1>6, <1>7, <1>8 DEF Ordered

\* So every step keeps the order.
LEMMA StepOrdered == Kinds /\ Ordered /\ [Next]_vars => Ordered'
<1> SUFFICES ASSUME Kinds, Ordered, [Next]_vars
             PROVE  Ordered'
  OBVIOUS
<1>1. ASSUME UNCHANGED <<policies, missed, running, orderly, call, flag>>, refused \subseteq refused'
      PROVE  Ordered'
  BY <1>1 DEF Ordered, Quiet, Active, Progress, Settled, Concerned
<1>2. CASE UNCHANGED vars \/ SetPolicy \/ MdnsPacket \/ \E p \in Policies : LoopLooks(p) \/ Tick(p)
  BY <1>1, <1>2 DEF vars, SetPolicy, MdnsPacket, LoopLooks, Tick, nodeVars, callVars, policyVars
<1>3. CASE \E p \in Listeners : ListenSteps(p) \/ TlsServerEnds(p)
  <2>1. UNCHANGED <<policies, missed, running, orderly, call, flag>> /\ refused \subseteq refused'
    BY <1>3 DEF ListenSteps, ListenBegin, ListenBind, ListenAtOnce, HttpsServerEnds, TlsServerEnds,
           ServerEnds, TakeAddress, Refuse, nodeVars, callVars, policyVars
  <2> QED
    BY <1>1, <2>1
<1>4. CASE \E t \in Callers : CallSteps(t)
  BY <1>4, ReadOrdered, StartOrdered, StopOrdered DEF CallSteps
<1>5. CASE PoliciesSet \/ \E t \in Callers, op \in {"start", "stop"} : Begin(t, op)
  BY <1>5, SetOrdered, BeginOrdered
<1> QED
  BY <1>2, <1>3, <1>4, <1>5 DEF Next

\* When no start or stop begins before the last is over, a node that is in neither and its policies
\* agree, whenever set_policy is called and however late its task sets them: each runs when the node
\* does and is stopped when it is, but a P2P policy that was refused the mDNS address, and those that
\* were set or replaced while the node ran or a call was under way and that no start or stop has read
\* since (MemoryNode start, stop and set_policy; the run_policy and stop of each policy).
THEOREM NodesAgree == Spec => []NodeAgrees
<1>1. Init => Ordered
  <2> SUFFICES ASSUME Init PROVE Ordered
    OBVIOUS
  <2>1. /\ policies = << >> /\ \A p \in Policies : ~flag[p]
        /\ \A t \in Callers : ~Active(t)
    BY DEF Init, Active, Idle
  <2>2. ToSet(policies) = {}
    BY <2>1 DEF ToSet
  <2> QED
    BY <2>1, <2>2 DEF Ordered
<1>2. Ordered => NodeAgrees
  BY DEF Ordered, NodeAgrees, Settled
<1>3. Spec => []Kinds
  BY AlwaysNumbered, PTL DEF Numbered
<1> QED
  BY <1>1, <1>2, <1>3, StepOrdered, PTL DEF Spec

=============================================================================
