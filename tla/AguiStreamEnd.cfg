SPECIFICATION Spec
CONSTANTS
  a = a
  b = b
  Client = {a}
  Page = 2
  MaxEvents = 5
INVARIANT
  EndsWithTerminalEvent
CHECK_DEADLOCK FALSE
