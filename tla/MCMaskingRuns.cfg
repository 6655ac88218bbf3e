SPECIFICATION Spec
CONSTANTS
  None = None
  Env = Env
  NoPrint = NoPrint
  Schemas <- MCSchemas
  Files <- MCFiles
  Configs <- MCConfigs
  Environments <- MCEnvironments
  FreshSalts <- MCFreshSalts
  Requests <- MCRequests
  MaxRuns = 2
  MaxChanges = 1
INVARIANTS
  JoinsIntact
  OneSalt
  AuditTruthful
PROPERTIES
  RefusedChangesNothing
  CompletedAsAsked
CHECK_DEADLOCK FALSE
