SPECIFICATION Spec
CONSTANTS
  Table <- MCTable
  Null = Null
  NoColumn = "none"
  Rules <- MCRules
  Composites <- MCComposites
  Since <- MCSince
  TimeColumn = "updated_at"
  Digest <- MCDigest
  Input <- Records
INVARIANTS MaskedAsConfigured JoinsPreserved CellsCounted
CHECK_DEADLOCK FALSE
