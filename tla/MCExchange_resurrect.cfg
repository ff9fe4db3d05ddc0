SPECIFICATION Spec
CONSTANTS
  Devices = {a, b}
  Data = {1}
  Deleted = Deleted
  Absent = Absent
  PersistDeleted = FALSE
  PreferDeleted = FALSE
  Resolver <- NoResolver
  ReuseKeys = FALSE
  CacheSize = 3
  MaxEdits = 4
  MaxDrops = 0
  Unsteady = {}
SYMMETRY Permuted
INVARIANT
  NoResurrection
CHECK_DEADLOCK FALSE
