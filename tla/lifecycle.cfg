SPECIFICATION Spec
CONSTANTS
  poll = poll
  server = server
  p2p = p2p
  None = None
  Policies <- MCPolicies
  Type <- MCType
  Choice <- MCChoice
  Settings <- MCSettings
  Callers = {c1, c2}
  MaxCalls = 4
INVARIANTS
  TypeOK
  ServerAgrees
  NodeAgrees
PROPERTY
  LoopsEnd
\* The calls run out.
CHECK_DEADLOCK FALSE
