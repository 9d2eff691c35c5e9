SPECIFICATION FairSpec
CONSTANTS
  c1 = c1
  c2 = c2
  Conversation = {c1, c2}
  MaxRuns = 2
  MaxNotes = 0
  ToolOutcome = {"exact"}
  Concurrency = 2
  MaxFaults = 1
  MaxReboots = 0
PROPERTIES
  ExecutionsSettle
  ShutdownIsBounded
CHECK_DEADLOCK FALSE
