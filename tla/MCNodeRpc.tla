------------------------------ MODULE MCNodeRpc ------------------------------
(* A small instance of NodeRpc: two clients, three calls; names of one byte   *)
(* and of as many as the length of a string needs a second byte for.          *)
EXTENDS NodeRpc, Remoting, TLC

CONSTANTS c1, c2

MCLengthOf(v) ==
  IF KindOf(v) = "text" THEN 4
  ELSE CASE v = Str("") -> 0 [] v = Str("long") -> 128 [] v = Str("longer") -> 130
         [] OTHER -> 1

a == Str("a")
long == Str("long")
key == Str("key")
MCSymmetry == Permutations(Clients)
MCNames == {a, long}
MCPubKeys == {key, long}
MCActions ==
  [ID |-> 1, Dropoff |-> 2, Pickup |-> 3, CID |-> 16, GetContact |-> 17, GetContacts |-> 18,
   AddContact |-> 19, DeleteContact |-> 20, GetChannel |-> 21, GetChannels |-> 22,
   AddChannel |-> 23, DeleteChannel |-> 24, GetProfile |-> 25, GetProfiles |-> 26,
   AddProfile |-> 27, DeleteProfile |-> 28, LoadProfile |-> 29, GetPeer |-> 30,
   GetPeers |-> 31, AddPeer |-> 32, DeletePeer |-> 33, Send |-> 34, SendChannel |-> 35,
   SendMsg |-> 36, FlushOutbox |-> 40, GetChannelPrivKey |-> 41, IsRunning |-> 42,
   Start |-> 43, Stop |-> 44]

Admin(action, args) == [public |-> FALSE, action |-> action, args |-> args]
Public(action, args) == [public |-> TRUE, action |-> action, args |-> args]
MCCalls ==
  {Admin("AddPeer", <<a, Bool(TRUE), a>>), Admin("AddPeer", <<a, Bool(FALSE), a, key>>),
   Admin("GetPeers", <<key>>), Admin("DeletePeer", <<a>>), Admin("AddProfile", <<a, Bool(TRUE)>>)}
MCSent ==
  {Admin("AddContact", <<long, key>>), Admin("GetContact", <<long>>),
   Admin("AddChannel", <<a, long>>), Admin("LoadProfile", <<a>>),
   Admin("AddProfile", <<a, Bool(TRUE)>>), Admin("Send", <<Str("longer"), Arr(<<Num(1), Num(2)>>)>>),
   Admin("FlushOutbox", <<Num(1)>>), Admin("IsRunning", << >>), Admin("Start", << >>),
   Admin("Stop", << >>), Admin("Send", <<Str("longer"), Str("longer")>>),
   Public("ID", <<Num(3)>>), Public("Pickup", <<key, Num(1), Num(2), Arr(<<a, long>>)>>),
   Public("Dropoff", <<Arr(<<long, Num(1)>>)>>)}
=============================================================================
