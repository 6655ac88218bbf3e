SPECIFICATION Spec
CONSTANTS
  None = None
  Null = Null
  AllColumns <- MCAllColumns
  Hint <- MCHint
  Printed <- MCPrinted
  Facts <- MCFacts
  Masked <- MCMasked
  Raw <- MCRaw
  RowSet <- MCRowSet
  HandWritten <- NoHandWritten
  Layouts <- UnnamedLayouts
  Limits <- MCLimits
  Qi <- MCQi
  Sensitive <- MCSensitive
  K = 2
  L = 2
  TuplesRead = 2
  MaxSamples = 3
  MaxRows = 3
INVARIANTS
  CellsKept
CHECK_DEADLOCK FALSE
