SPECIFICATION FairSpec
CONSTANTS
  Devices = {a, b}
  Data = {1}
  Deleted = Deleted
  Absent = Absent
  PersistDeleted = FALSE
  PreferDeleted = FALSE
  Resolver <- NoResolver
  ReuseKeys = TRUE
  CacheSize = 3
  MaxEdits = 2
  MaxDrops = 1
  Unsteady = {a}
INVARIANTS
  AgreementWhileRemembered
PROPERTIES
  Converges
CHECK_DEADLOCK FALSE
