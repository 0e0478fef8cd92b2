------------------------------ MODULE Lifecycle ------------------------------
(***************************************************************************)
(* A MemoryNode that is started and stopped, the policies it runs, and the *)
(* transports that these let listen.                                       *)
(*                                                                         *)
(* start and stop go through the policies that are set, one after the      *)
(* other; they can be called at the same time, by the program and through  *)
(* admin_rpc.  A policy does most of its work in tasks that it spawns: the *)
(* transport's listen, and loops that look at a flag once in an interval.  *)
(* A listener keeps its address as long as the task that serves it lives,  *)
(* which is longer than the transport says it runs.                        *)
(*                                                                         *)
(* Addresses are fixed, as in the configuration of main: each transport    *)
(* has its own, and P2P has one for mDNS.                                  *)
(***************************************************************************)
EXTENDS Naturals, Sequences, SequencesExt, FiniteSets

CONSTANTS
  Policies, \* the policies
  Type,     \* what each is: "poll", "server", "p2p"
  Choice,   \* the transports each policy that lets one listen may be given
  Callers,  \* who calls start and stop
  Settings, \* the lists of policies that set_policy is called with
  MaxCalls, \* bound: how many calls of set_policy, start and stop
  None      \* a call that does nothing

Vias == {"udp", "https", "tls", "memory"}
Listeners == {p \in Policies : Type[p] # "poll"}

ASSUME LifecycleAssumption ==
  /\ Type \in [Policies -> {"poll", "server", "p2p"}]
  /\ \A p, q \in Policies : Type[p] = "p2p" /\ Type[q] = "p2p" => p = q
  /\ Choice \in [Listeners -> SUBSET Vias]
  /\ \A s \in Settings : s \in Seq(Policies) /\ IsInjective(s)
  /\ MaxCalls \in Nat

VARIABLES
  policies, \* the policies of the node
  setting,  \* those a spawned task of set_policy is about to set, or None
  running,  \* the node's flag
  call,     \* the call each caller is in: what, the policies still to come, where
  calls,    \* how many calls were made
  flag,     \* the flag of each policy: running, is_listening
  loops,    \* its loops: how many are about to look at the flag, how many wait for a tick
  via,      \* the transport of each policy that lets one listen
  listens,  \* the spawned listens: how many have not begun, how many are to bind
  up,       \* the transport's flag
  served,   \* is there a task that has the transport's address?
  mdns,     \* who has the mDNS socket: the policy ("field"), its loop ("loop")
  overtaken,\* history: the policies stopped when a listen was under way, and those whose
            \* transport was stopped when they ran again
  refused,  \* history: those with a listen, or a run, that was refused
  orderly,  \* history: all of start and stop came one after the other
  missed    \* history: the policies that were set, or replaced by others, while the node ran
            \* or was being started or stopped, until a start or stop reads them

nodeVars == <<policies, setting, running, missed>>
callVars == <<call, calls, orderly>>
policyVars == <<flag, loops, mdns>>
transportVars == <<listens, up, served>>
vars == <<nodeVars, callVars, policyVars, via, transportVars, overtaken, refused>>
-----------------------------------------------------------------------------
Idle == [op |-> None, todo |-> << >>, at |-> "over"]
Quiet == \A t \in Callers : call[t].at = "over"

Init ==
  /\ policies = << >> /\ setting = None /\ running = FALSE
  /\ call = [t \in Callers |-> Idle] /\ calls = 0
  /\ flag = [p \in Policies |-> FALSE]
  /\ loops = [p \in Policies |-> [look |-> 0, tick |-> 0]]
  /\ via \in [Listeners -> Vias] /\ \A p \in Listeners : via[p] \in Choice[p]
  /\ listens = [p \in Listeners |-> [begin |-> 0, bind |-> 0]]
  /\ up = [p \in Listeners |-> FALSE] /\ served = [p \in Listeners |-> FALSE]
  /\ mdns = {}
  /\ overtaken = {} /\ refused = {} /\ orderly = TRUE /\ missed = {}

Goto(t, label) == call' = [call EXCEPT ![t].at = label]
Done(t) == call' = [call EXCEPT ![t].todo = Tail(@),
                                ![t].at = IF Len(call[t].todo) = 1 THEN "over" ELSE "next"]
-----------------------------------------------------------------------------
\* set_policy returns before its task has set the policies.
SetPolicy ==
  /\ setting = None /\ calls < MaxCalls
  /\ setting' \in Settings /\ calls' = calls + 1
  /\ UNCHANGED <<policies, running, missed, call, orderly, policyVars, via, transportVars,
                 overtaken, refused>>

\* It does so at any time after: a start that is called next may have run others by then.
PoliciesSet ==
  /\ setting # None
  /\ policies' = setting /\ setting' = None
  /\ missed' = IF running \/ ~Quiet THEN missed \cup ToSet(policies) \cup ToSet(setting)
                                    ELSE missed
  /\ UNCHANGED <<running, callVars, policyVars, via, transportVars, overtaken, refused>>

\* start and stop set the flag of the node ...
Begin(t, op) ==
  /\ call[t].at = "over" /\ calls < MaxCalls
  /\ call' = [call EXCEPT ![t] = [op |-> op, todo |-> << >>, at |-> "read"]]
  /\ calls' = calls + 1
  /\ orderly' = (orderly /\ Quiet)
  /\ running' = (op = "start")
  /\ UNCHANGED <<policies, setting, missed, policyVars, via, transportVars, overtaken, refused>>

\* Variant: it takes the first policy without asking whether there is one.
ReadPoliciesUnchecked(t) ==
  /\ call[t].at = "read"
  /\ call' = [call EXCEPT ![t].todo = policies, ![t].at = "next"]
  /\ missed' = missed \ ToSet(policies)
  /\ UNCHANGED <<policies, setting, running, calls, orderly, policyVars, via, transportVars, overtaken, refused>>

\* ... and then read the policies.
ReadPolicies(t) ==
  /\ call[t].at = "read"
  /\ call' = [call EXCEPT ![t].todo = policies,
                          ![t].at = IF policies = << >> THEN "over" ELSE "next"]
  /\ missed' = missed \ ToSet(policies)
  /\ UNCHANGED <<policies, setting, running, calls, orderly, policyVars, via, transportVars, overtaken, refused>>

At(t, op, type) ==
  /\ call[t].at = "next" /\ call[t].op = op
  /\ Type[Head(call[t].todo)] = type
-----------------------------------------------------------------------------
NewLoops(p, n) == loops' = [loops EXCEPT ![p].look = @ + n]
SpawnListen(p) == listens' = [listens EXCEPT ![p].begin = @ + 1]
Listening(p) == listens[p].begin + listens[p].bind > 0

\* run_policy of PollPolicy: unless it runs, a loop.
RunPoll(t) ==
  /\ At(t, "start", "poll") /\ Done(t)
  /\ LET p == Head(call[t].todo)
     IN  /\ flag' = [flag EXCEPT ![p] = TRUE]
         /\ IF flag[p] THEN UNCHANGED loops ELSE NewLoops(p, 1)
  /\ UNCHANGED <<nodeVars, calls, orderly, mdns, via, transportVars, overtaken, refused>>

StopPoll(t) ==
  /\ At(t, "stop", "poll") /\ Done(t)
  /\ flag' = [flag EXCEPT ![Head(call[t].todo)] = FALSE]
  /\ UNCHANGED <<nodeVars, calls, orderly, loops, mdns, via, transportVars, overtaken, refused>>

\* run_policy of ServerPolicy: unless it runs, the transport's listen in a task.
RunServer(t) ==
  /\ At(t, "start", "server") /\ Done(t)
  /\ LET p == Head(call[t].todo)
     IN  /\ flag' = [flag EXCEPT ![p] = TRUE]
         /\ IF flag[p] THEN UNCHANGED listens ELSE SpawnListen(p)
  /\ UNCHANGED <<nodeVars, calls, orderly, loops, mdns, via, up, served, overtaken, refused>>

Overtakes(p) == overtaken' = IF Listening(p) THEN overtaken \cup {p} ELSE overtaken

\* Variant: it looks at the flag of the transport, which a listen to come has yet to set.
StopServerUp(t) ==
  /\ At(t, "stop", "server")
  /\ LET p == Head(call[t].todo)
     IN  IF up[p]
         THEN Goto(t, "transport") /\ flag' = [flag EXCEPT ![p] = FALSE] /\ Overtakes(p)
         ELSE Done(t) /\ UNCHANGED <<flag, overtaken>>
  /\ UNCHANGED <<nodeVars, calls, orderly, loops, mdns, via, transportVars, refused>>

\* stop of ServerPolicy: if it is not stopped already, and then the transport.
StopServer(t) ==
  /\ At(t, "stop", "server")
  /\ LET p == Head(call[t].todo)
     IN  IF flag[p]
         THEN Goto(t, "transport") /\ flag' = [flag EXCEPT ![p] = FALSE] /\ Overtakes(p)
         ELSE Done(t) /\ UNCHANGED <<flag, overtaken>>
  /\ UNCHANGED <<nodeVars, calls, orderly, loops, mdns, via, transportVars, refused>>

StopGoesOn(t) == IF Type[Head(call[t].todo)] = "p2p" THEN Goto(t, "close") ELSE Done(t)

\* Transport::stop ends no task that serves; that of HttpsTransport waits for longer than its
\* server takes to see the flag.
StopTransport(t) ==
  /\ call[t].at = "transport"
  /\ LET p == Head(call[t].todo)
     IN  /\ up' = [up EXCEPT ![p] = FALSE]
         /\ overtaken' = IF flag[p] THEN overtaken \cup {p} ELSE overtaken
         /\ IF via[p] = "https" THEN Goto(t, "drain") ELSE StopGoesOn(t)
  /\ UNCHANGED <<nodeVars, calls, orderly, policyVars, via, listens, served, refused>>

Drained(t) ==
  /\ call[t].at = "drain"
  /\ LET p == Head(call[t].todo)
     IN  /\ served[p] => up[p]
         /\ StopGoesOn(t)
  /\ UNCHANGED <<nodeVars, calls, orderly, policyVars, via, transportVars, overtaken, refused>>
-----------------------------------------------------------------------------
\* run_policy of P2PPolicy looks at the flag, binds the sockets, and only then sets it.
RunP2P(t) ==
  /\ At(t, "start", "p2p")
  /\ IF flag[Head(call[t].todo)] THEN Done(t) ELSE Goto(t, "bind")
  /\ UNCHANGED <<nodeVars, calls, orderly, policyVars, via, transportVars, overtaken, refused>>

BindSockets(t) ==
  /\ call[t].at = "bind"
  /\ IF mdns # {}
     THEN Done(t) /\ UNCHANGED mdns /\ refused' = refused \cup {Head(call[t].todo)}
     ELSE Goto(t, "listen") /\ mdns' = {"field"} /\ UNCHANGED refused
  /\ UNCHANGED <<nodeVars, calls, orderly, flag, loops, via, transportVars, overtaken>>

ListenP2P(t) ==
  /\ call[t].at = "listen" /\ Goto(t, "loops")
  /\ LET p == Head(call[t].todo)
     IN  SpawnListen(p) /\ flag' = [flag EXCEPT ![p] = TRUE]
  /\ UNCHANGED <<nodeVars, calls, orderly, loops, mdns, via, up, served, overtaken, refused>>

\* The mDNS loop, and those that advertise and synchronise.  The sockets are unwrapped.
RunLoops(t) ==
  /\ call[t].at = "loops"
  /\ IF "field" \in mdns
     THEN mdns' = mdns \cup {"loop"} /\ NewLoops(Head(call[t].todo), 2) /\ Done(t)
     ELSE UNCHANGED <<mdns, loops>> /\ Goto(t, "panicked")
  /\ UNCHANGED <<nodeVars, calls, orderly, flag, via, transportVars, overtaken, refused>>

\* stop of P2PPolicy looks at the flag, lowers it, stops the transport and drops the sockets.
StopP2P(t) ==
  /\ At(t, "stop", "p2p")
  /\ IF flag[Head(call[t].todo)] THEN Goto(t, "lower") ELSE Done(t)
  /\ UNCHANGED <<nodeVars, calls, orderly, policyVars, via, transportVars, overtaken, refused>>

\* Variant: it leaves the transport as it is.
LowerFlagOnly(t) ==
  /\ call[t].at = "lower" /\ Goto(t, "close")
  /\ LET p == Head(call[t].todo)
     IN  flag' = [flag EXCEPT ![p] = FALSE] /\ Overtakes(p)
  /\ UNCHANGED <<nodeVars, calls, orderly, loops, mdns, via, transportVars, refused>>

LowerFlag(t) ==
  /\ call[t].at = "lower" /\ Goto(t, "transport")
  /\ LET p == Head(call[t].todo)
     IN  flag' = [flag EXCEPT ![p] = FALSE] /\ Overtakes(p)
  /\ UNCHANGED <<nodeVars, calls, orderly, loops, mdns, via, transportVars, refused>>

CloseSockets(t) ==
  /\ call[t].at = "close" /\ Done(t)
  /\ mdns' = mdns \ {"field"}
  /\ UNCHANGED <<nodeVars, calls, orderly, flag, loops, via, transportVars, overtaken, refused>>

\* The mDNS loop looks at the flag when a packet has come.
MdnsPacket ==
  /\ "loop" \in mdns
  /\ \E p \in Policies : Type[p] = "p2p" /\ ~flag[p]
  /\ mdns' = mdns \ {"loop"}
  /\ UNCHANGED <<nodeVars, callVars, flag, loops, via, transportVars, overtaken, refused>>
-----------------------------------------------------------------------------
Refuse(p) == refused' = refused \cup {p} /\ UNCHANGED <<up, served>>
TakeAddress(p) ==
  IF served[p]
  THEN Refuse(p)
  ELSE /\ up' = [up EXCEPT ![p] = TRUE] /\ served' = [served EXCEPT ![p] = TRUE]
       /\ UNCHANGED refused

\* listen of UdpTransport and TlsTransport looks at the flag, and sets it when it is bound.
ListenBegin(p) ==
  /\ listens[p].begin > 0 /\ via[p] \in {"udp", "tls"}
  /\ IF up[p]
     THEN Refuse(p) /\ listens' = [listens EXCEPT ![p].begin = @ - 1]
     ELSE /\ listens' = [listens EXCEPT ![p] = [begin |-> @.begin - 1, bind |-> @.bind + 1]]
          /\ UNCHANGED <<up, served, refused>>
  /\ UNCHANGED <<nodeVars, callVars, policyVars, via, overtaken>>

ListenBind(p) ==
  /\ listens[p].bind > 0
  /\ listens' = [listens EXCEPT ![p].bind = @ - 1]
  /\ TakeAddress(p)
  /\ UNCHANGED <<nodeVars, callVars, policyVars, via, overtaken>>

\* HttpsTransport does both without an await (Server::bind panics when the address is taken),
\* MemoryTransport has neither a check nor an address.
ListenAtOnce(p) ==
  /\ listens[p].begin > 0 /\ via[p] \in {"https", "memory"}
  /\ listens' = [listens EXCEPT ![p].begin = @ - 1]
  /\ CASE via[p] = "memory"          -> up' = [up EXCEPT ![p] = TRUE] /\ UNCHANGED <<served, refused>>
       [] via[p] = "https" /\ up[p]  -> Refuse(p)
       [] via[p] = "https" /\ ~up[p] -> TakeAddress(p)
  /\ UNCHANGED <<nodeVars, callVars, policyVars, via, overtaken>>

\* The server of HttpsTransport looks at the flag every 100 ms, that of TlsTransport when it
\* has accepted a connection, and that of UdpTransport never.
ServerEnds(p, type) ==
  /\ via[p] = type /\ served[p] /\ ~up[p]
  /\ served' = [served EXCEPT ![p] = FALSE]
  /\ UNCHANGED <<nodeVars, callVars, policyVars, via, listens, up, overtaken, refused>>

HttpsServerEnds(p) == ServerEnds(p, "https")
TlsServerEnds(p) == ServerEnds(p, "tls")

\* Variant: it goes on for as long as the node runs.
LoopLooksAtNode(p) ==
  /\ loops[p].look > 0
  /\ loops' = [loops EXCEPT ![p] = [look |-> @.look - 1,
                                    tick |-> @.tick + IF running THEN 1 ELSE 0]]
  /\ UNCHANGED <<nodeVars, callVars, flag, mdns, via, transportVars, overtaken, refused>>

\* A loop of a policy looks at the flag and then waits for the next tick.
LoopLooks(p) ==
  /\ loops[p].look > 0
  /\ loops' = [loops EXCEPT ![p] = [look |-> @.look - 1,
                                    tick |-> @.tick + IF flag[p] THEN 1 ELSE 0]]
  /\ UNCHANGED <<nodeVars, callVars, flag, mdns, via, transportVars, overtaken, refused>>

Tick(p) ==
  /\ loops[p].tick > 0
  /\ loops' = [loops EXCEPT ![p] = [look |-> @.look + 1, tick |-> @.tick - 1]]
  /\ UNCHANGED <<nodeVars, callVars, flag, mdns, via, transportVars, overtaken, refused>>
-----------------------------------------------------------------------------
CallSteps(t) ==
  \/ ReadPolicies(t)
  \/ RunPoll(t) \/ RunServer(t) \/ RunP2P(t) \/ BindSockets(t) \/ ListenP2P(t) \/ RunLoops(t)
  \/ StopPoll(t) \/ StopServer(t) \/ StopTransport(t) \/ Drained(t)
  \/ StopP2P(t) \/ LowerFlag(t) \/ CloseSockets(t)

ListenSteps(p) == ListenBegin(p) \/ ListenBind(p) \/ ListenAtOnce(p) \/ HttpsServerEnds(p)

Next ==
  \/ SetPolicy \/ PoliciesSet \/ MdnsPacket
  \/ \E t \in Callers, op \in {"start", "stop"} : Begin(t, op)
  \/ \E t \in Callers : CallSteps(t)
  \/ \E p \in Listeners : ListenSteps(p) \/ TlsServerEnds(p)
  \/ \E p \in Policies : LoopLooks(p) \/ Tick(p)

\* The runtime goes on with every task that can.  No packet has to arrive, nobody has to
\* connect, and no call has to be made.
Fairness ==
  /\ WF_vars(PoliciesSet)
  /\ \A t \in Callers : WF_vars(CallSteps(t))
  /\ \A p \in Listeners : WF_vars(ListenSteps(p))
  /\ \A p \in Policies : WF_vars(LoopLooks(p)) /\ WF_vars(Tick(p))

Spec == Init /\ [][Next]_vars /\ Fairness
-----------------------------------------------------------------------------
Labels == {"over", "read", "next", "transport", "drain", "close",
           "bind", "listen", "loops", "lower", "panicked"}

\* The variables have their types: a call is at a place of its code, an address is served only
\* for a transport that has one, and as many loops and listens are there as starts can spawn.
TypeOK ==
  /\ policies \in Settings \cup {<< >>} /\ setting \in Settings \cup {None}
  /\ running \in BOOLEAN /\ orderly \in BOOLEAN /\ calls \in 0..MaxCalls
  /\ call \in [Callers -> [op : {None, "start", "stop"}, todo : Seq(Policies), at : Labels]]
  /\ \A t \in Callers :
       /\ call[t].todo = << >> \/ \E s \in Settings : IsSuffix(call[t].todo, s)
       /\ call[t].at \in {"over", "read"} <=> call[t].todo = << >>
  /\ flag \in [Policies -> BOOLEAN]
  /\ loops \in [Policies -> [look : 0..(2 * MaxCalls), tick : 0..(2 * MaxCalls)]]
  /\ via \in [Listeners -> Vias]
  /\ listens \in [Listeners -> [begin : 0..MaxCalls, bind : 0..MaxCalls]]
  /\ up \in [Listeners -> BOOLEAN]
  /\ served \in [Listeners -> BOOLEAN]
  /\ mdns \subseteq {"field", "loop"}
  /\ overtaken \subseteq Listeners /\ refused \subseteq Listeners
  /\ missed \subseteq Policies

\* When nothing is under way, a policy and its transport agree: the transport listens exactly
\* if the policy runs, except where a stop overtook the listen that its start had spawned
\* (server.rs stop, p2p.rs stop) or the transport of a policy that runs again, or where a listen
\* was refused (its address still held by a server of before, or by another listen).
ServerAgrees ==
  Quiet => \A p \in Listeners :
             ~Listening(p) => /\ up[p] /\ ~flag[p] => p \in overtaken
                              /\ flag[p] /\ ~up[p] => p \in refused \cup overtaken

\* When no start or stop begins before the last is over, each policy of the node runs when the
\* node does and is stopped when it is, whenever set_policy is called and however late its task
\* sets the policies (MemoryNode::start, stop, set_policy).  Two cases are out of step: a P2P
\* policy whose mDNS address was still held does not run; and a policy that is set, or replaced,
\* while the node runs, as happens when main calls start before that task is through, may be out
\* of step until the next start or stop of the node that reads it, and no longer.
NodeAgrees ==
  orderly /\ Quiet =>
    \A p \in ToSet(policies) \ missed :
      flag[p] = running \/ (Type[p] = "p2p" /\ p \in refused /\ ~flag[p])

\* A policy that stays stopped has, in the end, no loop that ticks.
LoopsEnd ==
  \A p \in Policies : <>[]~flag[p] => <>[](loops[p] = [look |-> 0, tick |-> 0])
=============================================================================
