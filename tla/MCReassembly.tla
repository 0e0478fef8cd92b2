--------------------------- MODULE MCReassembly ---------------------------
(***************************************************************************)
(* Instances of Reassembly for TLC: streams of two chunks, one of them for *)
(* a channel and the other for no channel.                                 *)
(***************************************************************************)
EXTENDS Reassembly, TLC

CONSTANTS m1, m2, t1, t2

TwoMsgs == {m1, m2}

MCIds      == 1 .. Cardinality(Msgs)
MCTotal    == [m \in Msgs |-> 2]
MCChannel  == [m \in Msgs |-> IF m = m1 THEN "lobby" ELSE ""]
MCStreamId == [m \in Msgs |-> IF m = m1 THEN 1 ELSE 2]

\* m1's parts are repeated by the network, m2's are not.
Once        == [m \in Msgs |-> 1]
RepeatFirst == [m \in Msgs |-> IF m = m1 THEN 2 ELSE 1]

TaskSymmetry == Permutations(Tasks)
=============================================================================
