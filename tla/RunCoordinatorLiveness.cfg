SPECIFICATION FairSpec
CONSTANTS
  c1 = c1
  c2 = c2
  k1 = k1
  k2 = k2
  withFile = withFile
  file = file
  Conversation = {c1, c2}
  Key = {k1}
  Request = {withFile}
  Name = {file}
  Declared <- MCDeclared
  MaxRuns = 2
  MaxEvents = 2
  MaxRestarts = 0
  MaxFaults = 0
  MaxCancels = 1
PROPERTIES
  QueuedRunsSettle
  ShutdownEnds
CHECK_DEADLOCK FALSE
