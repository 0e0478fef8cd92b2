------------------------- MODULE TransportRpc_proof -------------------------
(***************************************************************************)
(* Theorems about TransportRpc: the types of its state, that an rpc over   *)
(* UDP that is alone gets the answer to its own call, and that the loops   *)
(* of listen multiply no datagram, for any nodes, any calls and any number *)
(* of duplicates.                                                          *)
(***************************************************************************)
EXTENDS TransportRpc, FiniteSetTheorems, TLAPS

-----------------------------------------------------------------------------
\* Two bags put together.
LEMMA BagSum ==
  ASSUME NEW B, IsABag(B), NEW C, IsABag(C)
  PROVE  IsABag(B (+) C) /\ BagToSet(B (+) C) = BagToSet(B) \cup BagToSet(C)
BY DEF IsABag, BagToSet, (+)

\* A set is a bag.
LEMMA SetIsABag ==
  ASSUME NEW S
  PROVE  IsABag(SetToBag(S)) /\ BagToSet(SetToBag(S)) = S
BY DEF IsABag, SetToBag, BagToSet

\* A bag with a datagram more.
LEMMA BagAddition ==
  ASSUME NEW B, IsABag(B), NEW x
  PROVE  IsABag(B (+) One(x)) /\ BagToSet(B (+) One(x)) = BagToSet(B) \cup {x}
BY BagSum, SetIsABag DEF One

\* The bag without one of them.
LEMMA BagRemoval ==
  ASSUME NEW B, IsABag(B), NEW x
  PROVE  IsABag(B (-) One(x)) /\ BagToSet(B (-) One(x)) \subseteq BagToSet(B)
BY DEF IsABag, One, SetToBag, BagToSet, (-)

-----------------------------------------------------------------------------
\* What the loop of listen sends are datagrams of the nodes, with bodies like the others.
LEMMA RepliesAreDatagrams ==
  ASSUME NEW d \in Datagrams
  PROVE  Reply(d) \subseteq Datagrams
BY DEF Reply, Datagrams, Datagram, Bodies, ResponseTo, ReadAsCall

\* The first state has its types.
LEMMA InitTypes == Init => TypeOK
<1>1. IsABag(EmptyBag) /\ BagToSet(EmptyBag) = {}
  BY SetIsABag DEF EmptyBag
<1>2. 0 \in 0..MaxDup
  BY TransportRpcAssumption
<1> QED
  BY <1>1, <1>2 DEF Init, TypeOK

\* An rpc that returns has a state and an answer of their types.
LEMMA ReturnTypes ==
  ASSUME TypeOK, NEW c \in Calls, NEW how \in {"ok", "error", "waits"},
         NEW value \in Bodies \cup {None}, how # "ok" => value = None, Return(c, how, value)
  PROVE  /\ rpc' \in [Calls -> {"no", "waits", "ok", "error"}]
         /\ answer' \in [Calls -> Bodies \cup {None}]
         /\ \A e \in Calls : rpc'[e] # "ok" => answer'[e] = None
BY DEF TypeOK, Return

\* Every step of an rpc keeps them.
LEMMA RpcTypes ==
  ASSUME TypeOK, NEW c \in Calls, RpcNext(c)
  PROVE  TypeOK'
<1> USE DEF TypeOK
<1>1. CASE UdpSend(c)
  <2>1. CASE c \in Large
    <3>1. Return(c, "error", None) /\ UNCHANGED <<net, alone, dups>>
      BY <1>1, <2>1 DEF UdpSend
    <3> QED
      BY <3>1, ReturnTypes
  <2>2. CASE c \notin Large
    <3> DEFINE d == Datagram(Caller[c], Callee[c], CallOf(c))
    <3>1. d \in Datagrams
      BY DEF Datagrams, Datagram, Nodes, Bodies, CallOf
    <3>2. /\ rpc' = [rpc EXCEPT ![c] = "waits"] /\ net' = net (+) One(d)
          /\ alone' \in {{c}, {}} /\ UNCHANGED <<answer, dups>> /\ rpc[c] = "no" /\ c \in Udp
      BY <1>1, <2>2 DEF UdpSend
    <3> HIDE DEF d
    <3>3. IsABag(net') /\ BagToSet(net') \subseteq Datagrams
      BY <3>1, <3>2, BagAddition
    <3> QED
      BY <3>2, <3>3
  <2> QED
    BY <2>1, <2>2
<1>2. CASE UdpTimeout(c)
  BY <1>2, ReturnTypes DEF UdpTimeout
<1>3. CASE \E d \in BagToSet(net) : UdpAnswer(c, d)
  <2> PICK d \in BagToSet(net) : UdpAnswer(c, d)
    BY <1>3
  <2>1. net' = net (-) One(d) /\ UNCHANGED <<dups, alone>>
    BY DEF UdpAnswer
  <2>2. IsABag(net') /\ BagToSet(net') \subseteq Datagrams
    BY <2>1, BagRemoval
  <2>3. d.body \in Bodies
    BY DEF Datagrams
  <2>4. Return(c, "ok", d.body) \/ Return(c, "error", None)
    BY DEF UdpAnswer
  <2> QED
    BY <2>1, <2>2, <2>3, <2>4, ReturnTypes
<1>4. CASE ConnectionSend(c)
  BY <1>4, ReturnTypes DEF ConnectionSend
<1>5. CASE ConnectionAnswer(c)
  <2>1. Echo(CallOf(c)) \in Bodies
    BY DEF Echo, CallOf, Bodies
  <2> QED
    BY <1>5, <2>1, ReturnTypes DEF ConnectionAnswer
<1>6. CASE ConnectionFails(c)
  BY <1>6, ReturnTypes DEF ConnectionFails
<1> QED
  BY <1>1, <1>2, <1>3, <1>4, <1>5, <1>6 DEF RpcNext

\* And so does every step of the network and of the loops of listen.
LEMMA NetworkTypes ==
  ASSUME TypeOK, NEW d \in BagToSet(net), ListenLoop(d) \/ Lose(d) \/ Duplicate(d)
  PROVE  TypeOK'
<1> USE DEF TypeOK
<1>1. CASE ListenLoop(d)
  <2>1. /\ net' = (net (-) One(d)) (+) SetToBag(Reply(d))
        /\ UNCHANGED <<rpc, answer, dups, alone>>
    BY <1>1 DEF ListenLoop
  <2>2. Reply(d) \subseteq Datagrams
    BY RepliesAreDatagrams
  <2>3. IsABag(net (-) One(d)) /\ BagToSet(net (-) One(d)) \subseteq Datagrams
    BY BagRemoval
  <2>4. IsABag(SetToBag(Reply(d))) /\ BagToSet(SetToBag(Reply(d))) = Reply(d)
    BY SetIsABag
  <2>5. IsABag(net') /\ BagToSet(net') \subseteq Datagrams
    BY <2>1, <2>2, <2>3, <2>4, BagSum
  <2> QED
    BY <2>1, <2>5
<1>2. CASE Lose(d)
  <2>1. IsABag(net') /\ BagToSet(net') \subseteq Datagrams
    BY <1>2, BagRemoval DEF Lose
  <2> QED
    BY <1>2, <2>1 DEF Lose
<1>3. CASE Duplicate(d)
  <2>1. IsABag(net') /\ BagToSet(net') \subseteq Datagrams
    BY <1>3, BagAddition DEF Duplicate
  <2>2. dups' \in 0..MaxDup
    BY <1>3, TransportRpcAssumption DEF Duplicate
  <2> QED
    BY <1>3, <2>1, <2>2 DEF Duplicate
<1> QED
  BY <1>1, <1>2, <1>3

\* Every step keeps the types.
LEMMA StepTypes == TypeOK /\ [Next]_vars => TypeOK'
<1> SUFFICES ASSUME TypeOK, [Next]_vars
             PROVE  TypeOK'
  OBVIOUS
<1>1. CASE UNCHANGED vars
  BY <1>1 DEF TypeOK, vars
<1>2. CASE Next
  BY <1>2, RpcTypes, NetworkTypes DEF Next
<1> QED
  BY <1>1, <1>2

\* The types of TransportRpc, for any rpcs between any nodes: the datagrams under way are a bag
\* of calls and of answers, and an rpc has a value only if it returned one.
THEOREM TypeCorrect == Spec => []TypeOK
BY InitTypes, StepTypes, PTL DEF Spec

-----------------------------------------------------------------------------
\* The invariant: while an rpc is alone, all that is under way is its own call, on the way to
\* the node it is for, and answers to it.
Own(c, d) ==
  \/ d.body = ResponseTo(c)
  \/ d.body = CallOf(c) /\ d.dst = Callee[c]
Solo ==
  \A c \in alone :
    /\ \A d \in BagToSet(net) : Own(c, d)
    /\ rpc[c] = "ok" => answer[c] = ResponseTo(c)

\* The calls and the answers are told apart.
LEMMA CallsAndResponses ==
  /\ \A c : CallOf(c).kind = "call" /\ CallOf(c).of = c
  /\ \A c : ResponseTo(c).kind = "response"
BY DEF CallOf, ResponseTo

\* Fewer datagrams, or rpcs that return otherwise, leave an rpc alone with its own.
LEMMA FewerDatagrams ==
  ASSUME Solo, UNCHANGED alone, BagToSet(net') \subseteq BagToSet(net),
         \A c \in alone : rpc'[c] = "ok" => answer'[c] = ResponseTo(c)
  PROVE  Solo'
BY DEF Solo, Own

\* An rpc that does not come back with a value leaves them all alone as they were.
LEMMA ReturnsNothing ==
  ASSUME TypeOK, Solo, NEW c \in Calls, NEW how, NEW value, how # "ok" \/ c \notin alone,
         Return(c, how, value)
  PROVE  \A e \in alone : rpc'[e] = "ok" => answer'[e] = ResponseTo(e)
BY DEF TypeOK, Solo, Return, Udp

\* A step of an rpc keeps the invariant.
LEMMA RpcSolo ==
  ASSUME TypeOK, Solo, NEW c \in Calls, RpcNext(c)
  PROVE  Solo'
<1>1. CASE UdpSend(c)
  <2>1. CASE c \in Large
    <3>1. Return(c, "error", None) /\ UNCHANGED <<net, alone>>
      BY <1>1, <2>1 DEF UdpSend
    <3> QED
      BY <3>1, ReturnsNothing, FewerDatagrams
  <2>2. CASE c \notin Large
    <3> DEFINE d == Datagram(Caller[c], Callee[c], CallOf(c))
    <3>1. /\ rpc' = [rpc EXCEPT ![c] = "waits"] /\ net' = net (+) One(d)
          /\ alone' = IF net = EmptyBag /\ Waiting = {} THEN {c} ELSE {}
      BY <1>1, <2>2 DEF UdpSend
    <3>2. CASE alone' = {c} /\ net = EmptyBag
      <4>1. BagToSet(net) = {}
        BY <3>2, SetIsABag DEF EmptyBag
      <4>2. BagToSet(net') = {d}
        BY <3>1, <4>1, BagAddition DEF TypeOK
      <4>3. d.body = CallOf(c) /\ d.dst = Callee[c]
        BY DEF Datagram
      <4>4. rpc'[c] = "waits"
        BY <3>1 DEF TypeOK
      <4> QED
        BY <3>2, <4>2, <4>3, <4>4 DEF Solo, Own
    <3>3. CASE alone' = {}
      BY <3>3 DEF Solo
    <3> QED
      BY <3>1, <3>2, <3>3
  <2> QED
    BY <2>1, <2>2
<1>2. CASE UdpTimeout(c)
  BY <1>2, ReturnsNothing, FewerDatagrams DEF UdpTimeout
<1>3. CASE \E d \in BagToSet(net) : UdpAnswer(c, d)
  <2> PICK d \in BagToSet(net) : UdpAnswer(c, d)
    BY <1>3
  <2>1. net' = net (-) One(d) /\ UNCHANGED alone /\ d.dst = Caller[c]
    BY DEF UdpAnswer
  <2>2. BagToSet(net') \subseteq BagToSet(net)
    BY <2>1, BagRemoval DEF TypeOK
  <2>3. Return(c, "ok", d.body) \/ Return(c, "error", None)
    BY DEF UdpAnswer
  <2>4. CASE Return(c, "error", None)
    BY <2>1, <2>2, <2>4, ReturnsNothing, FewerDatagrams
  <2>5. CASE Return(c, "ok", d.body) /\ c \notin alone
    BY <2>1, <2>2, <2>5, ReturnsNothing, FewerDatagrams
  <2>6. CASE Return(c, "ok", d.body) /\ c \in alone
    <3>1. d.body = ResponseTo(c)
      BY <2>1, <2>6, TransportRpcAssumption DEF Solo, Own
    <3>2. \A e \in alone : rpc'[e] = "ok" => answer'[e] = ResponseTo(e)
      BY <2>6, <3>1 DEF TypeOK, Solo, Return, Udp
    <3> QED
      BY <2>1, <2>2, <3>2, FewerDatagrams
  <2> QED
    BY <2>3, <2>4, <2>5, <2>6
<1>4. CASE ConnectionSend(c)
  <2>1. c \notin alone
    BY <1>4 DEF ConnectionSend, TypeOK
  <2> QED
    BY <1>4, <2>1, ReturnsNothing, FewerDatagrams DEF ConnectionSend
<1>5. CASE ConnectionAnswer(c)
  <2>1. c \notin alone
    BY <1>5 DEF ConnectionAnswer, TypeOK
  <2> QED
    BY <1>5, <2>1, ReturnsNothing, FewerDatagrams DEF ConnectionAnswer
<1>6. CASE ConnectionFails(c)
  BY <1>6, ReturnsNothing, FewerDatagrams DEF ConnectionFails
<1> QED
  BY <1>1, <1>2, <1>3, <1>4, <1>5, <1>6 DEF RpcNext

\* What a loop of listen sends for a datagram of a lone rpc is an answer to it.
LEMMA RepliesAreOwn ==
  ASSUME NEW c, NEW d, Own(c, d), NEW e \in Reply(d)
  PROVE  Own(c, e)
<1>1. CASE d.body = ResponseTo(c)
  BY <1>1, CallsAndResponses DEF Reply, ReadAsCall, Datagram, Own
<1>2. CASE d.body = CallOf(c)
  BY <1>2, CallsAndResponses DEF Reply, ReadAsCall, Datagram, Own
<1> QED
  BY <1>1, <1>2 DEF Own

\* A step of the network or of a loop of listen keeps the invariant.
LEMMA NetworkSolo ==
  ASSUME TypeOK, Solo, NEW d \in BagToSet(net), ListenLoop(d) \/ Lose(d) \/ Duplicate(d)
  PROVE  Solo'
<1>1. CASE ListenLoop(d)
  <2>1. /\ net' = (net (-) One(d)) (+) SetToBag(Reply(d))
        /\ UNCHANGED <<rpc, answer, alone>>
    BY <1>1 DEF ListenLoop
  <2>2. IsABag(net (-) One(d)) /\ BagToSet(net (-) One(d)) \subseteq BagToSet(net)
    BY BagRemoval DEF TypeOK
  <2>3. IsABag(SetToBag(Reply(d))) /\ BagToSet(SetToBag(Reply(d))) = Reply(d)
    BY SetIsABag
  <2>4. BagToSet(net') \subseteq BagToSet(net) \cup Reply(d)
    BY <2>1, <2>2, <2>3, BagSum
  <2>5. ASSUME NEW c \in alone, NEW e \in BagToSet(net')
        PROVE  Own(c, e)
    BY <2>4, <2>5, RepliesAreOwn DEF Solo
  <2>6. \A c \in alone' : \A e \in BagToSet(net') : Own(c, e)
    BY <2>1, <2>5
  <2> QED
    BY <2>1, <2>6 DEF Solo, Own
<1>2. CASE Lose(d)
  <2>1. BagToSet(net') \subseteq BagToSet(net)
    BY <1>2, BagRemoval DEF Lose, TypeOK
  <2> QED
    BY <1>2, <2>1 DEF Lose, Solo, Own
<1>3. CASE Duplicate(d)
  <2>1. net' = net (+) One(d) /\ IsABag(net)
    BY <1>3 DEF Duplicate, TypeOK
  <2>2. BagToSet(net (+) One(d)) = BagToSet(net) \cup {d}
    BY <2>1, BagAddition
  <2>3. BagToSet(net') = BagToSet(net)
    BY <2>1, <2>2
  <2> QED
    BY <1>3, <2>3 DEF Duplicate, Solo, Own
<1> QED
  BY <1>1, <1>2, <1>3

\* An rpc over UDP that began with nothing under way, and that no other joined, returns the
\* answer to its own call or none: neither a duplicate of its call, nor an answer that a loop of
\* listen sent back, is taken for one (udp.rs rpc, listen).
THEOREM OwnAnswer == Spec => []OwnAnswerWhenAlone
<1>1. Init => Solo
  BY DEF Init, Solo
<1>2. TypeOK /\ Solo /\ [Next]_vars => Solo'
  <2>1. ASSUME Solo, UNCHANGED vars
        PROVE  Solo'
    BY <2>1 DEF Solo, Own, vars
  <2> QED
    BY <2>1, RpcSolo, NetworkSolo DEF Next
<1>3. Solo => OwnAnswerWhenAlone
  BY DEF Solo, OwnAnswerWhenAlone
<1> QED
  BY <1>1, <1>2, <1>3, TypeCorrect, PTL DEF Spec

-----------------------------------------------------------------------------
\* What is in the set of the copies of a bag.
LEMMA IsACopy ==
  ASSUME NEW B, NEW c
  PROVE  c \in Copies(B) <=> \E d \in BagToSet(B) : \E i \in 1..B[d] : c = <<d, i>>
BY DEF Copies

\* A datagram more is one copy more.
LEMMA OneCopyMore ==
  ASSUME NEW B, IsABag(B), NEW x, IsFiniteSet(Copies(B))
  PROVE  /\ IsFiniteSet(Copies(B (+) One(x)))
         /\ Cardinality(Copies(B (+) One(x))) = Cardinality(Copies(B)) + 1
<1> DEFINE n == IF x \in BagToSet(B) THEN B[x] ELSE 0
           A == B (+) One(x)
<1>1. \A d \in BagToSet(B) : B[d] \in Nat
  BY DEF IsABag, BagToSet
<1>2. n \in Nat
  BY <1>1
<1>3. BagToSet(A) = BagToSet(B) \cup {x} /\ A[x] = n + 1
  BY DEF IsABag, One, SetToBag, (+), BagToSet
<1>4. \A d \in BagToSet(B) : d # x => A[d] = B[d]
  BY DEF IsABag, One, SetToBag, (+), BagToSet
<1>5. x \in BagToSet(B) => B[x] = n
  OBVIOUS
<1>6. x \notin BagToSet(B) => n = 0
  OBVIOUS
<1> HIDE DEF n, A
<1>7. ASSUME NEW c
      PROVE  c \in Copies(A) <=> c \in Copies(B) \/ c = <<x, n + 1>>
  <2>1. ASSUME c \in Copies(A)
        PROVE  c \in Copies(B) \/ c = <<x, n + 1>>
    <3> PICK d \in BagToSet(A) : \E i \in 1..A[d] : c = <<d, i>>
      BY <2>1, IsACopy
    <3>1. PICK i \in 1..A[d] : c = <<d, i>>
      OBVIOUS
    <3>2. CASE d # x
      BY <1>3, <1>4, <3>1, <3>2, IsACopy
    <3>3. CASE d = x /\ i = n + 1
      BY <3>1, <3>3
    <3>4. CASE d = x /\ i # n + 1
      <4>1. i \in 1..n
        BY <1>2, <1>3, <3>1, <3>4
      <4>2. x \in BagToSet(B)
        BY <1>6, <4>1
      <4> QED
        BY <1>5, <3>1, <3>4, <4>1, <4>2, IsACopy
    <3> QED
      BY <3>2, <3>3, <3>4
  <2>2. ASSUME c \in Copies(B)
        PROVE  c \in Copies(A)
    <3> PICK d \in BagToSet(B) : \E i \in 1..B[d] : c = <<d, i>>
      BY <2>2, IsACopy
    <3>1. PICK i \in 1..B[d] : c = <<d, i>>
      OBVIOUS
    <3>2. i \in 1..A[d]
      BY <1>2, <1>3, <1>4, <1>5, <3>1
    <3> QED
      BY <1>3, <3>1, <3>2, IsACopy
  <2>3. ASSUME c = <<x, n + 1>>
        PROVE  c \in Copies(A)
    <3>1. n + 1 \in 1..A[x] /\ x \in BagToSet(A)
      BY <1>2, <1>3
    <3> QED
      BY <2>3, <3>1, IsACopy
  <2> QED
    BY <2>1, <2>2, <2>3
<1>8. Copies(A) = Copies(B) \cup {<<x, n + 1>>}
  BY <1>7
<1>9. <<x, n + 1>> \notin Copies(B)
  <2> SUFFICES ASSUME <<x, n + 1>> \in Copies(B)
               PROVE  FALSE
    OBVIOUS
  <2> PICK d \in BagToSet(B) : \E i \in 1..B[d] : <<x, n + 1>> = <<d, i>>
    BY IsACopy
  <2>1. PICK i \in 1..B[d] : <<x, n + 1>> = <<d, i>>
    OBVIOUS
  <2>2. d = x /\ i = n + 1
    BY <2>1
  <2> QED
    BY <1>2, <1>5, <2>1, <2>2
<1>10. IsFiniteSet(Copies(A)) /\ Cardinality(Copies(A)) = Cardinality(Copies(B)) + 1
  BY <1>8, <1>9, FS_AddElement
<1> QED
  BY <1>10 DEF A

\* A datagram less is one copy less.
LEMMA OneCopyLess ==
  ASSUME NEW B, IsABag(B), NEW x \in BagToSet(B), IsFiniteSet(Copies(B))
  PROVE  /\ IsFiniteSet(Copies(B (-) One(x)))
         /\ Cardinality(Copies(B (-) One(x))) = Cardinality(Copies(B)) - 1
<1> DEFINE A == B (-) One(x)
<1>1. \A d \in BagToSet(B) : B[d] \in Nat /\ B[d] > 0
  BY DEF IsABag, BagToSet
<1>2. BagToSet(A) = IF B[x] = 1 THEN BagToSet(B) \ {x} ELSE BagToSet(B)
  BY DEF IsABag, One, SetToBag, (-), BagToSet
<1>3. \A d \in BagToSet(A) : A[d] = IF d = x THEN B[x] - 1 ELSE B[d]
  BY DEF IsABag, One, SetToBag, (-), BagToSet
<1> HIDE DEF A
<1>4. ASSUME NEW c
      PROVE  c \in Copies(A) <=> c \in Copies(B) /\ c # <<x, B[x]>>
  <2>1. ASSUME c \in Copies(A)
        PROVE  c \in Copies(B) /\ c # <<x, B[x]>>
    <3> PICK d \in BagToSet(A) : \E i \in 1..A[d] : c = <<d, i>>
      BY <2>1, IsACopy
    <3>1. PICK i \in 1..A[d] : c = <<d, i>>
      OBVIOUS
    <3>2. d \in BagToSet(B) /\ i \in 1..B[d] /\ (d = x => i # B[x])
      BY <1>1, <1>2, <1>3, <3>1
    <3> QED
      BY <3>1, <3>2, IsACopy
  <2>2. ASSUME c \in Copies(B), c # <<x, B[x]>>
        PROVE  c \in Copies(A)
    <3> PICK d \in BagToSet(B) : \E i \in 1..B[d] : c = <<d, i>>
      BY <2>2, IsACopy
    <3>1. PICK i \in 1..B[d] : c = <<d, i>>
      OBVIOUS
    <3>2. d = x => i # B[x]
      BY <2>2, <3>1
    <3>3. d = x => B[x] # 1
      BY <3>1, <3>2
    <3>4. d \in BagToSet(A)
      BY <1>2, <3>1, <3>3
    <3>5. i \in 1..A[d]
      BY <1>1, <1>3, <3>1, <3>2, <3>4
    <3> QED
      BY <3>1, <3>4, <3>5, IsACopy
  <2> QED
    BY <2>1, <2>2
<1>5. Copies(A) = Copies(B) \ {<<x, B[x]>>}
  BY <1>4
<1>6. <<x, B[x]>> \in Copies(B)
  <2>1. B[x] \in 1..B[x]
    BY <1>1
  <2> QED
    BY <2>1, IsACopy
<1>7. IsFiniteSet(Copies(A)) /\ Cardinality(Copies(A)) = Cardinality(Copies(B)) - 1
  BY <1>5, <1>6, FS_RemoveElement
<1> QED
  BY <1>7 DEF A

-----------------------------------------------------------------------------
\* What a loop of listen takes and what it sends: as many datagrams as before.
LEMMA OneForOne ==
  ASSUME NEW B, IsABag(B), NEW d \in BagToSet(B), IsFiniteSet(Copies(B))
  PROVE  /\ IsFiniteSet(Copies((B (-) One(d)) (+) SetToBag(Reply(d))))
         /\ Cardinality(Copies((B (-) One(d)) (+) SetToBag(Reply(d)))) = Cardinality(Copies(B))
<1>1. PICK e : Reply(d) = {e}
  BY DEF Reply
<1>2. SetToBag(Reply(d)) = One(e)
  BY <1>1 DEF One
<1>3. IsABag(B (-) One(d))
  BY BagRemoval
<1>4. /\ IsFiniteSet(Copies(B (-) One(d)))
      /\ Cardinality(Copies(B (-) One(d))) = Cardinality(Copies(B)) - 1
  BY OneCopyLess
<1>5. /\ IsFiniteSet(Copies((B (-) One(d)) (+) One(e)))
      /\ Cardinality(Copies((B (-) One(d)) (+) One(e))) = Cardinality(Copies(B (-) One(d))) + 1
  BY <1>3, <1>4, OneCopyMore
<1>6. Cardinality(Copies(B)) \in Nat
  BY FS_CardinalityType
<1> QED
  BY <1>2, <1>4, <1>5, <1>6

\* The invariant: the rpcs sent and the datagrams are finitely many, and there are no more of
\* these than sent and duplicated.
Counted ==
  /\ IsFiniteSet(Sent) /\ IsFiniteSet(Copies(net))
  /\ NothingMultiplied

\* At first there are none.
LEMMA InitCounted == Init => Counted
<1> SUFFICES ASSUME Init PROVE Counted
  OBVIOUS
<1>1. Sent = {}
  BY DEF Init, Sent, Udp
<1>2. BagToSet(net) = {}
  BY SetIsABag DEF Init, EmptyBag
<1>3. Copies(net) = {}
  BY <1>2, IsACopy
<1>4. dups = 0
  BY DEF Init
<1> QED
  BY <1>1, <1>3, <1>4, FS_EmptySet DEF Counted, NothingMultiplied

\* A step that sends nothing, of an rpc or of the network, leaves no more than there were.
LEMMA NoMoreThanSent ==
  ASSUME TypeOK, Counted, Sent' = Sent, dups' \in Nat, dups' >= dups,
         IsFiniteSet(Copies(net')),
         Cardinality(Copies(net')) - dups' <= Cardinality(Copies(net)) - dups
  PROVE  Counted'
<1>1. Cardinality(Sent) \in Nat /\ Cardinality(Copies(net)) \in Nat /\ Cardinality(Copies(net')) \in Nat
  BY FS_CardinalityType DEF Counted
<1>2. dups \in Nat
  BY TransportRpcAssumption DEF TypeOK
<1>3. Cardinality(Copies(net)) <= Cardinality(Sent) + dups
  BY DEF Counted, NothingMultiplied
<1>4. Cardinality(Copies(net')) <= Cardinality(Sent') + dups'
  BY <1>1, <1>2, <1>3
<1>5. IsFiniteSet(Sent')
  BY DEF Counted
<1> QED
  BY <1>4, <1>5 DEF Counted, NothingMultiplied

\* An rpc that was sent stays sent when it returns.
LEMMA ReturnedStaysSent ==
  ASSUME TypeOK, NEW c \in Calls, NEW how, how # "no", rpc[c] # "no" \/ c \notin Udp \/ c \in Large,
         NEW value, Return(c, how, value)
  PROVE  Sent' = Sent
BY DEF TypeOK, Sent, Return, Udp

\* A step of an rpc keeps the count.
LEMMA RpcCounted ==
  ASSUME TypeOK, Counted, NEW c \in Calls, RpcNext(c)
  PROVE  Counted'
<1>1. /\ Cardinality(Sent) \in Nat /\ Cardinality(Copies(net)) \in Nat /\ dups \in Nat
      /\ IsABag(net) /\ IsFiniteSet(Copies(net)) /\ IsFiniteSet(Sent)
  BY FS_CardinalityType, TransportRpcAssumption DEF Counted, TypeOK
<1>2. ASSUME Sent' = Sent, UNCHANGED <<net, dups>>
      PROVE  Counted'
  BY <1>1, <1>2, NoMoreThanSent
<1>3. CASE UdpSend(c)
  <2>1. CASE c \in Large
    <3>1. Return(c, "error", None) /\ UNCHANGED <<net, dups>>
      BY <1>3, <2>1 DEF UdpSend
    <3>2. Sent' = Sent
      BY <2>1, <3>1, ReturnedStaysSent
    <3> QED
      BY <1>2, <3>1, <3>2
  <2>2. CASE c \notin Large
    <3>1. PICK d : net' = net (+) One(d)
      BY <1>3, <2>2 DEF UdpSend
    <3>2. /\ rpc' = [rpc EXCEPT ![c] = "waits"] /\ UNCHANGED dups
          /\ rpc[c] = "no" /\ c \in Udp
      BY <1>3, <2>2 DEF UdpSend
    <3>3. Sent' = Sent \cup {c} /\ c \notin Sent
      BY <2>2, <3>2 DEF Sent, TypeOK, Udp
    <3>4. IsFiniteSet(Sent') /\ Cardinality(Sent') = Cardinality(Sent) + 1
      BY <1>1, <3>3, FS_AddElement
    <3>5. /\ IsFiniteSet(Copies(net'))
          /\ Cardinality(Copies(net')) = Cardinality(Copies(net)) + 1
      BY <1>1, <3>1, OneCopyMore
    <3>6. Cardinality(Copies(net')) <= Cardinality(Sent') + dups'
      BY <1>1, <3>2, <3>4, <3>5 DEF Counted, NothingMultiplied
    <3> QED
      BY <3>4, <3>5, <3>6 DEF Counted, NothingMultiplied
  <2> QED
    BY <2>1, <2>2
<1>4. CASE UdpTimeout(c)
  <2>1. rpc[c] # "no" /\ Return(c, "error", None) /\ UNCHANGED <<net, dups>>
    BY <1>4 DEF UdpTimeout, Waiting
  <2> QED
    BY <1>2, <2>1, ReturnedStaysSent
<1>5. CASE \E d \in BagToSet(net) : UdpAnswer(c, d)
  <2> PICK d \in BagToSet(net) : UdpAnswer(c, d)
    BY <1>5
  <2>1. rpc[c] # "no" /\ net' = net (-) One(d) /\ UNCHANGED dups
    BY DEF UdpAnswer, Waiting
  <2>2. Return(c, "ok", d.body) \/ Return(c, "error", None)
    BY DEF UdpAnswer
  <2>3. Sent' = Sent
    BY <2>1, <2>2, ReturnedStaysSent
  <2>4. /\ IsFiniteSet(Copies(net'))
        /\ Cardinality(Copies(net')) = Cardinality(Copies(net)) - 1
    BY <1>1, <2>1, OneCopyLess
  <2> QED
    BY <1>1, <2>1, <2>3, <2>4, NoMoreThanSent
<1>6. CASE ConnectionSend(c)
  <2>1. c \notin Udp /\ UNCHANGED <<net, dups>>
    BY <1>6 DEF ConnectionSend
  <2>2. Return(c, "ok", None) \/ Return(c, "waits", None)
    BY <1>6 DEF ConnectionSend
  <2> QED
    BY <1>2, <2>1, <2>2, ReturnedStaysSent
<1>7. CASE ConnectionAnswer(c)
  <2>1. c \notin Udp /\ UNCHANGED <<net, dups>>
    BY <1>7 DEF ConnectionAnswer
  <2>2. Return(c, "ok", Echo(CallOf(c))) \/ Return(c, "error", None)
    BY <1>7 DEF ConnectionAnswer
  <2> QED
    BY <1>2, <2>1, <2>2, ReturnedStaysSent
<1>8. CASE ConnectionFails(c)
  <2>1. c \notin Udp /\ UNCHANGED <<net, dups>> /\ Return(c, "error", None)
    BY <1>8 DEF ConnectionFails
  <2> QED
    BY <1>2, <2>1, ReturnedStaysSent
<1> QED
  BY <1>3, <1>4, <1>5, <1>6, <1>7, <1>8 DEF RpcNext

\* A step of the network or of a loop of listen keeps it.
LEMMA NetworkCounted ==
  ASSUME TypeOK, Counted, NEW d \in BagToSet(net), ListenLoop(d) \/ Lose(d) \/ Duplicate(d)
  PROVE  Counted'
<1>1. /\ Cardinality(Copies(net)) \in Nat /\ dups \in Nat
      /\ IsABag(net) /\ IsFiniteSet(Copies(net))
  BY FS_CardinalityType, TransportRpcAssumption DEF Counted, TypeOK
<1>2. UNCHANGED rpc
  BY DEF ListenLoop, Lose, Duplicate
<1>3. Sent' = Sent
  BY <1>2 DEF Sent
<1>4. CASE ListenLoop(d)
  <2>1. net' = (net (-) One(d)) (+) SetToBag(Reply(d)) /\ UNCHANGED dups
    BY <1>4 DEF ListenLoop
  <2>2. IsFiniteSet(Copies(net')) /\ Cardinality(Copies(net')) = Cardinality(Copies(net))
    BY <1>1, <2>1, OneForOne
  <2> QED
    BY <1>1, <1>3, <2>1, <2>2, NoMoreThanSent
<1>5. CASE Lose(d)
  <2>1. net' = net (-) One(d) /\ UNCHANGED dups
    BY <1>5 DEF Lose
  <2>2. IsFiniteSet(Copies(net')) /\ Cardinality(Copies(net')) = Cardinality(Copies(net)) - 1
    BY <1>1, <2>1, OneCopyLess
  <2> QED
    BY <1>1, <1>3, <2>1, <2>2, NoMoreThanSent
<1>6. CASE Duplicate(d)
  <2>1. net' = net (+) One(d) /\ dups' = dups + 1
    BY <1>6 DEF Duplicate
  <2>2. IsFiniteSet(Copies(net')) /\ Cardinality(Copies(net')) = Cardinality(Copies(net)) + 1
    BY <1>1, <2>1, OneCopyMore
  <2> QED
    BY <1>1, <1>3, <2>1, <2>2, NoMoreThanSent
<1> QED
  BY <1>4, <1>5, <1>6

\* The loops of listen, which send back to each other whatever is not a call, never make two
\* datagrams of one: however long they go on, there are no more under way than rpcs sent and the
\* network duplicated (udp.rs listen, handle_udp_message).
THEOREM NeverMultiplied == Spec => []NothingMultiplied
<1>1. TypeOK /\ Counted /\ [Next]_vars => Counted'
  <2>1. ASSUME Counted, UNCHANGED vars
        PROVE  Counted'
    BY <2>1 DEF Counted, NothingMultiplied, Sent, vars
  <2> QED
    BY <2>1, RpcCounted, NetworkCounted DEF Next
<1>2. Counted => NothingMultiplied
  BY DEF Counted
<1> QED
  BY InitCounted, <1>1, <1>2, TypeCorrect, PTL DEF Spec

=============================================================================
