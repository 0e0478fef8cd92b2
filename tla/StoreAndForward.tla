--------------------------- MODULE StoreAndForward ---------------------------
(***************************************************************************)
(* What either way of passing messages on promises, with nothing said of   *)
(* how: a client's pickups from an outbox (Outbox), and the pushes and     *)
(* pulls of a poll (PollServer).  Nobody acknowledges a message.  The      *)
(* receiver's side keeps a time, and what was sent before that time is not *)
(* offered again; so the time may pass a message only when it has arrived, *)
(* or is excused: too long, or too old.  That it arrives once is not       *)
(* promised.                                                               *)
(***************************************************************************)
CONSTANT Msgs

VARIABLES
  sent,    \* the messages there are to pass on
  excused, \* those that need not arrive
  arrived, \* those that have
  passed   \* those that will not be offered again

vars == <<sent, excused, arrived, passed>>

Init == sent = {} /\ excused = {} /\ arrived = {} /\ passed = {}

\* A message is sent, and nothing that is kept of the others has passed it already.
Send(m) ==
  /\ m \notin sent \cup passed
  /\ sent' = sent \cup {m}
  /\ UNCHANGED <<excused, arrived, passed>>

\* A message need not arrive any more.
Excuse ==
  /\ excused \subseteq excused'
  /\ UNCHANGED <<sent, arrived, passed>>

\* Some messages arrive, and the time moves, or is forgotten.
Deliver ==
  /\ arrived \subseteq arrived' /\ arrived' \subseteq sent
  /\ passed' \subseteq sent \cap (arrived' \cup excused)
  /\ UNCHANGED <<sent, excused>>

Next == (\E m \in Msgs : Send(m)) \/ Excuse \/ Deliver

Spec == Init /\ [][Next]_vars
=============================================================================
