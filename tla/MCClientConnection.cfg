SPECIFICATION FairConnSpec
CONSTANTS
  Max = 4
  Garbage = Garbage
  UintptrMax = 99
  NULL = NULL
  Requests = {r1, r2}
  StorageType = {r1, r2, NULL}
  MaxSetKeyspace = 2
  MaxDuplicates = 2
CHECK_DEADLOCK FALSE
INVARIANT StreamTypeOK
INVARIANT FreeListExact
INVARIANT StreamsMatchInFlight
INVARIANT StreamsAccounted
INVARIANT OwnResult
INVARIANT NotifiedOnce
INVARIANT ConnectReportedOnce
INVARIANT NoUndefinedBehaviour
PROPERTY NeverOverwritten
PROPERTY DoubleReleaseRejected
PROPERTY UsesStreamStorage
PROPERTY StartupReported
PROPERTY RequestNotified
