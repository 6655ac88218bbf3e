SPECIFICATION SubsetSpec
CONSTANTS
  Root = "users"
  Pk = "id"
  SqlNull = SqlNull
  Dumps <- CliDumps
  Limits = {1}
INVARIANT KeysIntact
CHECK_DEADLOCK FALSE
