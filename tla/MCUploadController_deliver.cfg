SPECIFICATION FairSpec
CONSTANTS
  Keys = {k1, k2}
  NewDevice = NewDevice
  AnyDevice = AnyDevice
  Unreadable = {k2}
  UploadLimit = 2
  EstimateSize = 16
  MaxEdits = 2
  MaxFailures = 2
  MaxDownloads = 1
  Data = {1}
  Deleted = Deleted
  Absent = Absent
  PersistDeleted = TRUE
  PreferDeleted = TRUE
  Resolver <- NoResolver
INVARIANTS
  ActiveIsAnswered
PROPERTY
  Delivers
CHECK_DEADLOCK FALSE
