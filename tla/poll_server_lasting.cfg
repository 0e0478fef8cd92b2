SPECIFICATION FairSpec
CONSTANTS
  u1 = u1
  d1 = d1
  p1 = p1
  p2 = p2
  o1 = o1
  o2 = o2
  o3 = o3
  o4 = o4
  None = None
  Polls <- MCOnePoll
  PeerInfos <- MCThreeInfos
  Up <- MCUp
  Down <- MCDown
  MaxNow = 3
  MaxFaults = 2
PROPERTIES EverythingExchanged
CHECK_DEADLOCK FALSE
