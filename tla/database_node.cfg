CONSTANTS
  contacts = contacts
  channels = channels
  name = name
  v1 = v1
  m1 = m1
  x1 = x1
  None = None
  Kinds <- MCKinds
  Synced <- MCSynced
  Names <- MCNames
  Vals <- MCVals
  Msgs <- MCMsgs
  Parts <- MCParts
  MaxAges <- MCAges
  LastVersion = 2
  MaxNow = 1
  MaxDeaths = 2
  MaxCalls = 2
SPECIFICATION Spec
INVARIANTS
  TypeOK
  SchemaComplete
  StoredFirst
  StartBringsBack
PROPERTY StoredKeysStay
CHECK_DEADLOCK FALSE
