SPECIFICATION MCSpec
CONSTANTS
  c1 = c1
  c2 = c2
  k1 = k1
  k2 = k2
  plain = plain
  withFile = withFile
  file = file
  Conversation = {c1, c2}
  Key = {k1, k2}
  Request = {plain, withFile}
  Name = {file}
  Declared <- MCDeclared
  MaxRuns = 3
  MaxEvents = 3
  MaxRestarts = 1
  MaxFaults = 1
  MaxCancels = 1
SYMMETRY Symmetry
CONSTRAINT ServiceBounds
INVARIANTS
  TypeOK
  RunsAreExclusive
  UncertaintyIsContained
  EventLogTellsRun
  ArtifactsSettleWithRun
  VerdictsAreTruthful
  RowsAreTracked
  WorkerIsSpared
PROPERTIES
  RunHistoryIsAppendOnly
  PromiseIsKept
CHECK_DEADLOCK FALSE
