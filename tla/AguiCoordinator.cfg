SPECIFICATION Spec
CONSTANTS
  c1 = c1
  c2 = c2
  Conversation = {c1, c2}
  MaxRuns = 3
  MaxNotes = 1
  ToolOutcome = {"exact", "foreign"}
  Concurrency = 2
  MaxFaults = 1
  MaxReboots = 1
CONSTRAINT Bounds
SYMMETRY Symmetry
INVARIANTS
  ConversationExclusive
  UnknownSessionRetired
  NoRunIsForgotten
  TranscriptTellsRun
  ProofSurvives
CHECK_DEADLOCK FALSE
