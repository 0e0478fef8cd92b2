--------------------------- MODULE MCTransportRpc ---------------------------
(* A small instance of TransportRpc: two rpcs from p to q and one back, over *)
(* UDP; one that is too large; one over a connection, one in memory.          *)
EXTENDS TransportRpc, TLC

CONSTANTS p, q, id1, other1, id2, large, https, mem

MCCalls == {id1, other1, id2, large, https, mem}
MCCaller == [c \in {id2} |-> q] @@ [c \in MCCalls |-> p]
MCCallee == [c \in {id2} |-> p] @@ [c \in MCCalls |-> q]
MCVia == [c \in {https} |-> "https"] @@ [c \in {mem} |-> "memory"]
           @@ [c \in MCCalls |-> "udp"]
=============================================================================
