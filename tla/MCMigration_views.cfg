SPECIFICATION Spec
CONSTANTS
  k1 = k1
  k2 = k2
  note = note
  app = app
  Data = {1, 2}
  Deleted = Deleted
  Absent = Absent
  PersistDeleted = FALSE
  PreferDeleted = FALSE
  Resolver <- NoResolver
  Keys = {k1, k2}
  Types = {note}
  TypeOf <- MCTypeOf
  NoType = NoType
  Writers = {1, 2, app}
  FetchSize = 1
  MaxWrites = 1
  MaxLoads = 1
  MaxFaults = 1
  Jobs = {1, 2}
  App = {app}
  Entries <- MCEntries
  Changed <- MCChanged
  Readable = {k2}
  OldData <- MCOldData
  FlagSets <- MCFlags
  Nobody = Nobody
INVARIANTS
  ModelIsCurrent
  NothingIsLost
PROPERTY
  ShowsAll
CHECK_DEADLOCK FALSE
