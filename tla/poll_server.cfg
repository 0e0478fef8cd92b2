SPECIFICATION Spec
CONSTANTS
  u1 = u1
  d1 = d1
  p1 = p1
  p2 = p2
  o1 = o1
  o2 = o2
  o3 = o3
  o4 = o4
  None = None
  Polls <- MCPolls
  PeerInfos <- MCPeerInfos
  Up <- MCUp
  Down <- MCDown
  MaxNow = 2
  MaxFaults = 1
SYMMETRY Alike
INVARIANTS TypeOK RepeatsExplained
PROPERTIES PushForwards PullForwards
CHECK_DEADLOCK FALSE
