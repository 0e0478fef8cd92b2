---------------------------- MODULE MCPollServer ----------------------------
(***************************************************************************)
(* PollServer with one message each way: two calls that can overlap, or    *)
(* one.  A call refers to one PeerInfo at most and the free ones are all   *)
(* alike, so which of them is used, and by which call, makes no difference *)
(* to a safety property.                                                   *)
(***************************************************************************)
EXTENDS PollServer, TLC

CONSTANTS u1, d1, p1, p2, o1, o2, o3, o4

MCPolls     == {p1, p2}
MCOnePoll   == {p1}
MCPeerInfos == {o1, o2, o3, o4}
MCThreeInfos == {o1, o2, o3}
MCUp        == {u1}
MCDown      == {d1}

Alike == Permutations(MCPolls) \cup Permutations(MCPeerInfos)
=============================================================================
