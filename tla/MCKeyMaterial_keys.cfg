SPECIFICATION Spec
CONSTANTS
  KeyStores = {"plain", "kwallet", "wincred"}
  KeptKeys = 1
  MaxDevices = 2
  MaxIndex = 2
  MaxMishaps = 1
INVARIANTS
  IdentityLoads
  SignsWithKeys
  KeysAreReadable
PROPERTIES
  ResetEnds
CHECK_DEADLOCK FALSE
