CONSTANTS
  p = p
  q = q
  id1 = id1
  other1 = other1
  id2 = id2
  large = large
  https = https
  mem = mem
  None = None
  Calls <- MCCalls
  Caller <- MCCaller
  Callee <- MCCallee
  Via <- MCVia
  Ids = {id1, id2, https}
  Large = {large}
  MaxDup = 1
SPECIFICATION Spec
INVARIANTS
  TypeOK
  NothingMultiplied
  OwnAnswerWhenAlone
PROPERTY
  RpcReturns
CHECK_DEADLOCK FALSE
