SPECIFICATION MCSpec
CONSTANTS
  a = a
  b = b
  z = z
  h1 = h1
  h2 = h2
  None = None
  Caller = {a, b}
  Closer = {z}
  Harness = {h1, h2}
  Size = 2
  MaxOwners = 2
  Requests = 4
  MaxQueued = 2
  Call = {1, 2}
  Process = {1, 2}
INVARIANTS
  HarnessesAreSound
  OneOwner
  QueueIsServed
  ProcessesAreRemembered
  CloseIsHonest
PROPERTIES
  ContractsAreKept
  OwnersAnswer
CHECK_DEADLOCK FALSE
