--------------------------- MODULE MCDatabaseNode ---------------------------
(* A small instance of DatabaseNode: a table that start copies and one that *)
(* it does not, one name, a message, and a part of a stream.                *)
EXTENDS DatabaseNode

CONSTANTS contacts, channels, name, v1, m1, x1

MCKinds == {contacts, channels}
MCSynced == {contacts}
MCNames == {name}
MCVals == {v1}
MCMsgs == {m1}
MCParts == {x1}
MCAges == {0, 1}
=============================================================================
