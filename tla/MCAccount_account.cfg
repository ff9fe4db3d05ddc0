SPECIFICATION Spec
CONSTANTS
  laptop = laptop
  phone = phone
  tablet = tablet
  Devices <- MCDevices
  Members <- MCMembers
  Partner = laptop
  KeptKeys = 5
  MaxAttempts = 2
  MaxEvents = 3
INVARIANTS
  OneChangeAtATime
  ChangesVerify
  KeysAreShared
  AccessIsGranted
PROPERTIES
  NewDevicesAreServed
  ChangesSpread
  GrantIsAnswered
CHECK_DEADLOCK FALSE
