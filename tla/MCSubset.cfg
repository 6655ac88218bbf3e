SPECIFICATION SubsetSpec
CONSTANTS
  Root = "users"
  Pk = "id"
  SqlNull = SqlNull
  Dumps <- MCDumps
  Limits = {0, 1, 2, 3}
INVARIANTS Coherent LimitHonoured Accounted InferredAsDeclared
CHECK_DEADLOCK FALSE
