SPECIFICATION Spec
CONSTANTS
  Text <- MCText
  Numeral <- MCNumeral
  IntPseudonym <- Int3
  HexPseudonym <- MCHexPseudonym
  Probe <- Probe3
  Digest <- MCDigest
  Capacity = 2
  CacheEnabled = TRUE
  Group <- MCGroup
  Column <- MCColumn
  GroupOf <- MCGroupOf
  MethodOf <- MCMethodOf
  Input <- UniformInput
INVARIANTS TypeOK Consistent Injective CacheTransparent CacheBounded Resolvable
PROPERTIES ClaimsPermanent ImplementsPseudonymMap
CHECK_DEADLOCK FALSE
