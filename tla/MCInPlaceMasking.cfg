SPECIFICATION InPlaceSpec
CONSTANTS
  Keys <- MCKeys
  RawTables <- MCRawTables
  Pseudonym <- MCPseudonym
  BatchSize = 2
  MaxAttempts = 3
  Null = Null
  Missing = Missing
INVARIANTS RepeatableUnlessInterrupted
PROPERTIES ImplementsPromise Ends
CHECK_DEADLOCK FALSE
