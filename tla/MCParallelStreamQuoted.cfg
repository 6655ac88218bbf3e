SPECIFICATION Spec
CONSTANTS
  Text <- MCText
  Numeral <- MCNumeral
  IntPseudonym <- Int4
  HexPseudonym <- MCHexPseudonym
  Probe <- Spread
  Digest <- MCDigest
  Capacity = 1
  CacheEnabled = TRUE
  Table <- MCTable
  NoTable = "none"
  Covered <- MCCovered
  Truncated <- MCTruncated
  TableMethod <- MCTableMethod
  Row <- MCRow
  Clause = "on(id)"
  KeyText <- MCKeyText
  ChunkLines = 2
  SemiRow = {"r2"}
  Worker <- MCWorker
  WorkersDie = FALSE
  Dumps <- Quoted
INVARIANT ChunksCoherent
CHECK_DEADLOCK FALSE
