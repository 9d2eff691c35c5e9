SPECIFICATION ClientSpec
CONSTANTS
  Conversation = {a}
  Existing = {a}
  MaxRun = 1
  MaxLog = 1
  Page = 1
  MaxClicks = 1
  MaxFaults = 0
PROPERTY
  BlockedIsOffered
CHECK_DEADLOCK FALSE
