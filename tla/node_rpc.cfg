CONSTANTS
  c1 = c1
  c2 = c2
  None = None
  NoAction = NoAction
  Clients = {c1, c2}
  Calls <- MCCalls
  Sent <- MCSent
  Names <- MCNames
  PubKeys <- MCPubKeys
  PrivKeys <- MCPubKeys
  Actions <- MCActions
  LengthOf <- MCLengthOf
  ByteLimit = 250
  MaxCalls = 3
  RemoteCallToBytes <- CallToBytes
  RemoteCallFromBytes <- CallFromBytes
  RemoteResponseToBytes <- ResponseToBytes
  RemoteResponseFromBytes <- ResponseFromBytes
  Arrival <- Arrives
SYMMETRY MCSymmetry
SPECIFICATION RpcSpec
INVARIANTS
  TypeOK
  ArrivesAsSent
  ListingBracketed
CHECK_DEADLOCK FALSE
