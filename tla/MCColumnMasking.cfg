SPECIFICATION Spec
CONSTANTS
  None = None
  Prf <- MCPrf
  Shift <- MCShift
  Rules <- MCRules
  Inputs <- MCInputs
  MaxCells = 2
INVARIANTS OneToOne FormatKept ChecksumsValid WithinBounds Concealed
CHECK_DEADLOCK FALSE
