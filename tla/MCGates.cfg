SPECIFICATION Spec
CONSTANTS
  None = None
  Null = Null
  AllColumns <- MCAllColumns
  Hint <- MCHint
  Printed <- MCPrinted
  Facts <- MCFacts
  Masked <- MCMasked
  Raw <- MCRaw
  RowSet <- MCRowSet
  HandWritten <- MCHandWritten
  Layouts <- MCLayouts
  Limits <- MCLimits
  Qi <- MCQi
  Sensitive <- MCSensitive
  K = 2
  L = 2
  TuplesRead = 2
  MaxSamples = 3
  MaxRows = 3
INVARIANTS
  LintedIsCovered
  NamedIsMasked
  VerifiedIsClean
  CompliantIsPrivate
CHECK_DEADLOCK FALSE
