SPECIFICATION SessionSpec
CONSTANTS
  Hosts = {h1, h2}
  Cores = {0, 1}
  Maxima = {0, 2}
  MaxPools = 2
  MaxRuns = 2
CHECK_DEADLOCK FALSE
INVARIANT PoolSize
INVARIANT NoActiveConnectionFreed
INVARIANT OnlyDuplicatesDeleted
PROPERTY JoinReturns
