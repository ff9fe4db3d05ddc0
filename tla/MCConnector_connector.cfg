SPECIFICATION Spec
CONSTANTS
  RetrySteps = 1
  Calls = {"reconnect", "enable", "disable", "reset", "import", "fail", "finalize"}
  MaxTurns = 2
INVARIANTS
  MessagesAreExpected
  LossIsAnnounced
PROPERTIES
  NoStaleMessage
  Recovers
  ClosesOrderly
CHECK_DEADLOCK FALSE
