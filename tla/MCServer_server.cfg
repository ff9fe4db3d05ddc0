SPECIFICATION Spec
CONSTANTS
  a = a
  b = b
  k = k
  x = x
  y = y
  None = None
  Devices = {a, b, k}
  Datasets = {x, y}
  Owner <- MCOwner
  Newcomers = {k}
  Histories <- MCHistories
  Size <- MCSize
  Requests <- MCRequests
  DownLimit = 2
  DownThreshold = 1
  Words = 8
  InitialQuota = 4
  QuotaLimits = {2}
  MaxTurns = 2
INVARIANTS
  NothingForgotten
  RegistryIsAlive
  QuotaCovers
PROPERTIES
  Delivery
  LiveSync
CHECK_DEADLOCK FALSE
