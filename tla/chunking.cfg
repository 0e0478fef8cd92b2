CONSTANTS
  Word = 32
  DefaultChunkSize = 14
  ChunkOverhead = 4
  ChunkHeaderSize = 2
  Lengths <- MCLengths
  LimitSets <- MCLimitSets
  GivenSizes <- MCGivenSizes
  PoliciesVisible = TRUE
SPECIFICATION SendSpec
INVARIANTS ChunkingTypeOK AllOrIncomplete FitsTransport
CHECK_DEADLOCK FALSE
