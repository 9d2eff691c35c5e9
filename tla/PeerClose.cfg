SPECIFICATION PeerSpec
CONSTANTS
  Caller = {a}
PROPERTIES
  CloseIsBounded
CHECK_DEADLOCK FALSE
