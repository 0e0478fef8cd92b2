---------------------------- MODULE TransportRpc ----------------------------
(***************************************************************************)
(* Transport::rpc over the four transports, and what the listening side of *)
(* each does with what arrives.  UDP has one socket per node: the loop of  *)
(* listen and every rpc that waits read from it, and each takes whatever   *)
(* datagram comes next.  HTTPS and TLS have a connection per rpc, and a    *)
(* server that sends back what it read; the memory transport answers null. *)
(*                                                                         *)
(* A datagram is a call or the answer to one, as bytes.  What the other    *)
(* reader makes of it is in ReadAsCall and ReadAsResponse: the bytes of a  *)
(* call begin with the action, those of a response with the tag of its     *)
(* error, and Action::ID and the tag of "no error" are both 1.             *)
(*                                                                         *)
(* All transports listen; starting and stopping them is in Lifecycle.      *)
(***************************************************************************)
EXTENDS Naturals, FiniteSets, Bags

CONSTANTS
  Calls,   \* the calls of rpc
  Caller,  \* the node that makes each of them
  Callee,  \* the node it is for
  Via,     \* the transport each goes over: "udp", "https", "tls", "memory"
  Ids,     \* the calls of Action::ID
  Large,   \* the calls that are larger than a datagram or the byte limit
  MaxDup,  \* bound: how many datagrams the network duplicates
  None     \* no answer, and null for one

Udp == {c \in Calls : Via[c] = "udp"}
Nodes == {Caller[c] : c \in Calls} \cup {Callee[c] : c \in Calls}

ASSUME TransportRpcAssumption ==
  /\ \A c \in Calls : Caller[c] # Callee[c]
  /\ \A c \in Calls : Via[c] \in {"udp", "https", "tls", "memory"}
  /\ Ids \subseteq Calls /\ Large \subseteq Calls /\ MaxDup \in Nat
  /\ None \notin [kind : {"call", "response"}, of : Calls]

VARIABLES
  net,    \* the datagrams on their way, a bag
  rpc,    \* what each rpc does: "no", "waits", "ok" or "error"
  answer, \* the value it returned
  dups,   \* how many datagrams the network has duplicated
  alone   \* history: the rpcs sent when neither a datagram nor another rpc of UDP was
          \* under way, and that no other has joined

vars == <<net, rpc, answer, dups, alone>>

Bodies == [kind : {"call", "response"}, of : Calls]
Datagrams == [src : Nodes, dst : Nodes, body : Bodies]
CallOf(c) == [kind |-> "call", of |-> c]
ResponseTo(c) == [kind |-> "response", of |-> c]
Datagram(src, dst, body) == [src |-> src, dst |-> dst, body |-> body]
One(d) == SetToBag({d})
Waiting == {c \in Udp : rpc[c] = "waits"}

Init ==
  /\ net = EmptyBag
  /\ rpc = [c \in Calls |-> "no"] /\ answer = [c \in Calls |-> None]
  /\ dups = 0 /\ alone = {}

Return(c, how, value) ==
  /\ rpc' = [rpc EXCEPT ![c] = how]
  /\ answer' = [answer EXCEPT ![c] = value]
-----------------------------------------------------------------------------
\* remote_call_from_bytes: a response starts with 1 (no error: ID) and goes on with the
\* value of the answer, an object and so a string, where the arguments must be an array.
ReadAsCall(body) == body.kind = "call"

\* remote_response_from_bytes: the action of a call is read as the tag of the error.  It
\* says "none" for ID, and then the arguments are the value; for every other action there
\* is an error, or what follows cannot be read.
ReadAsResponse(body) == body.kind = "response" \/ body.of \in Ids
-----------------------------------------------------------------------------
\* rpc over UDP: the call is sent from the socket of the listener; send_to refuses what
\* does not fit a datagram.
UdpSend(c) ==
  /\ c \in Udp /\ rpc[c] = "no"
  /\ IF c \in Large
     THEN Return(c, "error", None) /\ UNCHANGED <<net, alone>>
     ELSE /\ rpc' = [rpc EXCEPT ![c] = "waits"]
          /\ net' = net (+) One(Datagram(Caller[c], Callee[c], CallOf(c)))
          /\ alone' = IF net = EmptyBag /\ Waiting = {} THEN {c} ELSE {}
          /\ UNCHANGED answer
  /\ UNCHANGED dups

\* Variant: what it read is the value, error or not.
UdpAnswerAnyway(c, d) ==
  /\ c \in Waiting /\ BagIn(d, net) /\ d.dst = Caller[c]
  /\ net' = net (-) One(d)
  /\ Return(c, IF ReadAsResponse(d.body) THEN "ok" ELSE "error", d.body)
  /\ UNCHANGED <<dups, alone>>

\* The next datagram for the socket, whoever sent it and whatever it answers, is the
\* answer to this rpc.
UdpAnswer(c, d) ==
  /\ c \in Waiting /\ BagIn(d, net) /\ d.dst = Caller[c]
  /\ net' = net (-) One(d)
  /\ IF ReadAsResponse(d.body) THEN Return(c, "ok", d.body) ELSE Return(c, "error", None)
  /\ UNCHANGED <<dups, alone>>

\* Variant: each datagram that comes for the socket makes it wait 5 s more.
TimeoutWhenQuiet(c) ==
  /\ c \in Waiting /\ \A d \in BagToSet(net) : d.dst # Caller[c]
  /\ Return(c, "error", None)
  /\ UNCHANGED <<net, dups, alone>>

\* The answer is awaited for 5 s.
UdpTimeout(c) ==
  /\ c \in Waiting
  /\ Return(c, "error", None)
  /\ UNCHANGED <<net, dups, alone>>

\* Variant: it echoes what it answers, too.
ReplyAndEcho(d) ==
  {Datagram(d.dst, d.src, IF ReadAsCall(d.body) THEN ResponseTo(d.body.of) ELSE d.body),
   Datagram(d.dst, d.src, d.body)}

\* Variant: calls are echoed, as the servers of HTTPS and TLS do.
ReplyEcho(d) == {Datagram(d.dst, d.src, d.body)}

\* What the loop of listen sends for a datagram (handle_udp_message): the answer to a
\* call, and all else as it came.
Reply(d) ==
  {Datagram(d.dst, d.src, IF ReadAsCall(d.body) THEN ResponseTo(d.body.of) ELSE d.body)}

ListenLoop(d) ==
  /\ BagIn(d, net)
  /\ net' = (net (-) One(d)) (+) SetToBag(Reply(d))
  /\ UNCHANGED <<rpc, answer, dups, alone>>

Lose(d) ==
  /\ BagIn(d, net)
  /\ net' = net (-) One(d)
  /\ UNCHANGED <<rpc, answer, dups, alone>>

Duplicate(d) ==
  /\ dups < MaxDup /\ BagIn(d, net)
  /\ net' = net (+) One(d)
  /\ dups' = dups + 1
  /\ UNCHANGED <<rpc, answer, alone>>
-----------------------------------------------------------------------------
\* rpc over a connection: one is opened and the call written.  The memory transport has
\* its answer at once.
ConnectionSend(c) ==
  /\ c \notin Udp /\ rpc[c] = "no"
  /\ IF Via[c] = "memory" THEN Return(c, "ok", None)
                          ELSE Return(c, "waits", None)
  /\ UNCHANGED <<net, dups, alone>>

\* What the server of a connection writes back: what it read.
Echo(body) == body

\* That is read as the response.  What is beyond the byte limit is refused, by the server of
\* HTTPS and the reader of TLS.
ConnectionAnswer(c) ==
  /\ c \notin Udp /\ rpc[c] = "waits"
  /\ LET back == Echo(CallOf(c))
     IN  IF c \notin Large /\ ReadAsResponse(back) THEN Return(c, "ok", back)
                                                   ELSE Return(c, "error", None)
  /\ UNCHANGED <<net, dups, alone>>

\* The server is not there, has no certificates, shuts down, or goes away.
ConnectionFails(c) ==
  /\ c \notin Udp /\ rpc[c] = "waits"
  /\ Return(c, "error", None)
  /\ UNCHANGED <<net, dups, alone>>

RpcNext(c) ==
  \/ UdpSend(c) \/ UdpTimeout(c) \/ \E d \in BagToSet(net) : UdpAnswer(c, d)
  \/ ConnectionSend(c) \/ ConnectionAnswer(c) \/ ConnectionFails(c)

Next ==
  \/ \E c \in Calls : RpcNext(c)
  \/ \E d \in BagToSet(net) : ListenLoop(d) \/ Lose(d) \/ Duplicate(d)

\* The timer of an rpc over UDP expires.  Nothing else has to happen: a datagram can be
\* lost, and a connection has no timer.
Spec == Init /\ [][Next]_vars /\ \A c \in Calls : WF_vars(UdpTimeout(c))
-----------------------------------------------------------------------------
\* Every datagram is a call or an answer to one, every rpc is in one of its states.
TypeOK ==
  /\ IsABag(net) /\ BagToSet(net) \subseteq Datagrams
  /\ rpc \in [Calls -> {"no", "waits", "ok", "error"}]
  /\ answer \in [Calls -> Bodies \cup {None}]
  /\ dups \in 0..MaxDup /\ alone \subseteq Udp
  /\ \A c \in Calls : rpc[c] # "ok" => answer[c] = None

Sent == {c \in Udp : rpc[c] # "no" /\ c \notin Large}

\* The datagrams of a bag, one by one.
Copies(B) == UNION {{d} \X (1..B[d]) : d \in BagToSet(B)}

\* The two loops send a datagram that is not a call to and fro for ever, but they never
\* make two of one: there are no more datagrams than rpcs sent them and the network
\* duplicated.
NothingMultiplied == Cardinality(Copies(net)) <= Cardinality(Sent) + dups

\* An rpc over UDP takes the first datagram from anyone for its answer.  It is the answer
\* to its own call when the rpc began with the network empty, none waiting, and no other
\* began while it waited: then not even a duplicate or an echo of its own can mislead it.
OwnAnswerWhenAlone ==
  \A c \in alone : rpc[c] = "ok" => answer[c] = ResponseTo(c)

\* An rpc over UDP returns, however long datagrams keep arriving that it does not get.
RpcReturns == \A c \in Udp : rpc[c] = "waits" ~> rpc[c] # "waits"
=============================================================================
