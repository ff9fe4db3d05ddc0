\* A thread beside the engine and a passive process.
CONSTANTS
  Keys = {k1, k2}
  Data = {1, 2}
  Deleted = Deleted
  Absent = Absent
  PersistDeleted = FALSE
  PreferDeleted = FALSE
  Resolver <- NoResolver
  Engine = engine
  ActiveUsers = {app}
  PassiveUsers = {passive}
  SkipObsolete = {passive}
  Queries = {{k2}}
  None = None
  StoredAtStart = {k1}
  FirstData = 1
  MaxWrites = 2
  MaxFaults = 1
SPECIFICATION Spec
CHECK_DEADLOCK FALSE
INVARIANTS
  FilesMatch
  CacheIsCurrent
  ViewsAreCurrent
  LogIsRead
