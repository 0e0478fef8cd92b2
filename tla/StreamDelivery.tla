--------------------------- MODULE StreamDelivery ---------------------------
(***************************************************************************)
(* What chunked transfer promises the application of a node, with nothing  *)
(* said of how: a message that was cut into a stream enters the node's in  *)
(* channel only as a whole, under its own channel name, and only after     *)
(* every part of it has arrived.  That it enters once is not promised: see *)
(* Reassembly.                                                             *)
(***************************************************************************)
EXTENDS StreamParts

VARIABLES
  arrived,  \* the parts that have reached the node
  inbox     \* the messages put into the node's in channel, oldest first

vars == <<arrived, inbox>>

Init ==
  /\ arrived = {}
  /\ inbox = <<>>

\* A part reaches the node, for the first time or again.
Arrive(p) ==
  /\ arrived' = arrived \cup {p}
  /\ UNCHANGED inbox

\* The node hands a message over.
Deliver(m) ==
  /\ Parts(m) \subseteq arrived
  /\ inbox' = Append(inbox, Whole(m))
  /\ UNCHANGED arrived

Next ==
  \/ \E p \in AllParts : Arrive(p)
  \/ \E m \in Msgs : Deliver(m)

Spec == Init /\ [][Next]_vars
=============================================================================
