SPECIFICATION PeerSpec
CONSTANTS
  Caller = {a, b}
CONSTRAINT StaysOpen
PROPERTIES
  EofRejectsPending
CHECK_DEADLOCK FALSE
