SPECIFICATION ParserSpec
CONSTANTS
  Text <- MCText
  Numeral <- MCNumeral
  IntPseudonym <- Int4
  HexPseudonym <- MCHexPseudonym
  Probe <- Colliding
  Digest <- MCDigest
  Capacity = 1
  CacheEnabled = TRUE
  Table <- MCTable
  NoTable = "none"
  Covered <- MCCovered
  Truncated <- MCTruncated
  TableMethod <- MCTableMethod
  Row <- MCRow
  Clause = "on(id)"
  KeyText <- MCKeyText
  Dumps <- TwoStatements
INVARIANTS Faithful RowsWrittenAtOnce
CHECK_DEADLOCK FALSE
