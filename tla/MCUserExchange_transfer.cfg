SPECIFICATION Spec
CONSTANTS
  Clients = {c1, c2}
  User = c1
  Peers = {p1}
  Patience = 1
  MaxCalls = 2
PROPERTIES
  CallsEnd
  PeersAreTracked
CHECK_DEADLOCK FALSE
