SPECIFICATION MCSpec
CONSTANTS
  Run = {r1, r2}
  r1 = r1
  r2 = r2
  s1 = s1
  s2 = s2
  p = p
  q = q
  a = a
  b = b
  x = x
  y = y
  Session = {s1}
  MaxSeq = 3
  Tokens = {1}
  None = None
  Upload = {p, q}
  Audited = {s1, s2}
  Call = {p, q}
  MaxRows = 4
  Attempt = {p, q}
  MaxIoFaults = 2
  MaxPolls = 2
  MaxHostFaults = 2
  Conversation = {a, b}
  Existing = {a}
  MaxRun = 2
  MaxLog = 1
  Page = 1
  MaxClicks = 1
  MaxFaults = 1
  MaxMessages = 1
  MaxMounts = 3
  Step = {1, 2}
  MaxImageFaults = 2
  MaxTrialFaults = 2
  MaxResourceFaults = 3
  MaxFrames = 3
  FakeRun = {x, y}
  FakeSession = {s1, s2}
  MaxGeneration = 2
  MaxFakeFaults = 1
INVARIANTS
  PartsTypeOK
  LedgerIsSound
  RecoveryFileCovers
  AuditTellsCalls
  PageTellsTruth
  TranscriptAnswersCalls
  AttemptsAreExact
  VerdictsAreHonest
PROPERTIES
  AccountsGrow
  CleanupIsHonest
  WaitsEnd
CHECK_DEADLOCK FALSE
