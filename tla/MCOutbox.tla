------------------------------ MODULE MCOutbox ------------------------------
(***************************************************************************)
(* Outbox with three messages on two channels; m3 is twice as long as the  *)
(* others.                                                                 *)
(***************************************************************************)
EXTENDS Outbox

CONSTANTS m1, m2, m3

MCMsgs     == {m1, m2, m3}
MCChannels == {"", "lobby"}
MCWanted   == <<"lobby", "">>
MCChan     == [m \in Msgs |-> IF m = m3 THEN "" ELSE "lobby"]
MCSize     == [m \in Msgs |-> IF m = m3 THEN 2 ELSE 1]
=============================================================================
