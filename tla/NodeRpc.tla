------------------------------- MODULE NodeRpc -------------------------------
(***************************************************************************)
(* A node called over the wire, as handle_request and handle_connection of *)
(* the transports do it: the call is read from bytes, handled by NodeApi,  *)
(* and answered in bytes.  The program and its examples also call it       *)
(* without (NodeApi.Ask).                                                  *)
(*                                                                         *)
(* What the bytes are is left to the codec; MCNodeRpc gives it the one of  *)
(* Remoting.                                                               *)
(***************************************************************************)
EXTENDS NodeApi

CONSTANTS
  Sent,      \* the calls that are sent over the wire
  ByteLimit, \* how many bytes a transport takes
  RemoteCallToBytes(_),           \* a call, as bytes
  RemoteCallFromBytes(_),         \* what is read: [ok, value], the value an action and its args
  RemoteResponseToBytes(_, _, _), \* an error and a value, and what stands for none
  RemoteResponseFromBytes(_),     \* what is read: [ok, value], an error and a value
  Arrival(_)                      \* what becomes of a value on its way

\* The call the node is given when bytes have been read as a call; whether it is a public
\* one depends on where it came in.
CallRead(sent, value) ==
  [public |-> sent.public, action |-> value.action, args |-> value.args]

\* A name arrives as one.
ASSUME NodeRpcAssumption ==
  \A sent \in Sent :
    LET read == RemoteCallFromBytes(RemoteCallToBytes(sent))
    IN  read.ok => Named(CallRead(sent, read.value))

VARIABLES
  call,  \* the call each client has sent
  bytes, \* it or the answer to it, in bytes
  wire   \* "no": none on the wire, "request", "served" or "response"

rpcvars == <<call, bytes, wire>>
allvars == <<vars, rpcvars>>

RpcInit ==
  /\ Init
  /\ call = [c \in Clients |-> None] /\ bytes = [c \in Clients |-> << >>]
  /\ wire = [c \in Clients |-> "no"]

Put(c, state, data_) ==
  /\ wire' = [wire EXCEPT ![c] = state]
  /\ bytes' = [bytes EXCEPT ![c] = data_]

\* A floating-point number cannot be serialized: there is none in Calls.
Request(c, sent) ==
  /\ Free(c) /\ wire[c] \in {"no", "response"}
  /\ asked' = asked + 1
  /\ call' = [call EXCEPT ![c] = sent]
  /\ Put(c, "request", RemoteCallToBytes(sent))
  /\ UNCHANGED <<node, data, task>>

ErrorToBytes(e) == RemoteResponseToBytes(Str(e), None, None)

\* The server refuses what is too large and what it cannot read, and hands the rest to the
\* node.
Serve(c) ==
  /\ wire[c] = "request"
  /\ LET read == RemoteCallFromBytes(bytes[c])
     IN  IF Len(bytes[c]) > ByteLimit
         THEN Put(c, "no", << >>) /\ UNCHANGED task
         ELSE IF ~read.ok THEN Put(c, "response", ErrorToBytes("parse")) /\ UNCHANGED task
         ELSE /\ Put(c, "served", << >>)
              /\ task' = [task EXCEPT ![c] = Asked(CallRead(call[c], read.value))]
  /\ UNCHANGED <<node, data, asked, call>>

Respond(c) ==
  /\ wire[c] = "served" /\ task[c].pc = "answered"
  /\ LET a == task[c].answer
     IN  Put(c, "response",
             RemoteResponseToBytes(IF a.error = None THEN None ELSE Str(a.error), a.value, None))
  /\ UNCHANGED <<vars, call>>

AskDirectly(c, direct) ==
  /\ wire[c] \in {"no", "response"}
  /\ Ask(c, direct)
  /\ wire' = [wire EXCEPT ![c] = "no"]
  /\ UNCHANGED <<call, bytes>>

RpcNext ==
  \/ \E c \in Clients :
       \/ Handle(c) /\ UNCHANGED rpcvars
       \/ \E sent \in Sent : Request(c, sent)
       \/ \E direct \in Calls : AskDirectly(c, direct)
       \/ Serve(c) \/ Respond(c)
  \/ (Start \/ Stop) /\ UNCHANGED rpcvars

RpcSpec == RpcInit /\ [][RpcNext]_allvars
-----------------------------------------------------------------------------
\* The node gets the action that was sent and the arguments but for what the wire makes of
\* them, and the client its answer, whatever lengths they have; and what the transports
\* take for granted when a call or an answer gets to the wrong reader (TransportRpc) is so:
\* an answer is no call unless its value is an array, and a call is an answer only when its
\* action is ID, and then an array.
ArrivesAsSent ==
  \A c \in Clients :
    /\ wire[c] = "request" =>
         LET read == RemoteCallFromBytes(bytes[c])
             other == RemoteResponseFromBytes(bytes[c])
         IN  /\ read.ok /\ read.value.action = call[c].action
             /\ Arr(read.value.args) = Arrival(Arr(call[c].args))
             /\ (other.ok /\ other.value.error = Null) <=> (call[c].action = "ID")
    /\ wire[c] = "response" /\ task[c].pc = "answered" =>
         LET read == RemoteResponseFromBytes(bytes[c])
             other == RemoteCallFromBytes(bytes[c])
             answer == task[c].answer
             value == Arrival(OrNull(answer.value, None))
         IN  /\ read.ok /\ read.value.value = value
             /\ read.value.error = Null <=> answer.error = None
             /\ other.ok => answer.error = None /\ KindOf(value) = "array"
=============================================================================
