SPECIFICATION Spec
CONSTANTS
  Devices = {a, b}
  Data = {1, 2, 3}
  Deleted = Deleted
  Absent = Absent
  PersistDeleted = TRUE
  PreferDeleted = FALSE
  Resolver <- SmallerData
  ReuseKeys = TRUE
  CacheSize = 3
  MaxEdits = 2
  MaxDrops = 1
  Unsteady = {a, b}
SYMMETRY Permuted
INVARIANTS
  Agreement
  SyncedIsCovered
PROPERTIES
  VersionsGrow
CHECK_DEADLOCK FALSE
