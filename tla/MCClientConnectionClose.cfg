SPECIFICATION ConnSpec
CONSTANTS
  Max = 4
  Garbage = Garbage
  UintptrMax = 99
  NULL = NULL
  Requests = {r1}
  StorageType = {r1, NULL}
  MaxSetKeyspace = 0
  MaxDuplicates = 0
CHECK_DEADLOCK FALSE
INVARIANT EventExpected
