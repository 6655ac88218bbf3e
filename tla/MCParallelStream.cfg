SPECIFICATION FairSpec
CONSTANTS
  Text <- MCText
  Numeral <- MCNumeral
  IntPseudonym <- Int4
  HexPseudonym <- MCHexPseudonym
  Probe <- Spread
  Digest <- MCDigest
  Capacity = 1
  CacheEnabled = TRUE
  Table <- MCTable
  NoTable = "none"
  Covered <- MCCovered
  Truncated <- MCTruncated
  TableMethod <- MCTableMethod
  Row <- MCRow
  Clause = "on(id)"
  KeyText <- MCKeyText
  ChunkLines = 1
  SemiRow = {}
  Worker <- MCWorker
  WorkersDie = TRUE
  Dumps <- Mixed
INVARIANTS ChunksCoherent SameAsSequential InFlightBounded
           FailuresSurface
PROPERTIES WritesInOrder Terminates
CHECK_DEADLOCK FALSE
