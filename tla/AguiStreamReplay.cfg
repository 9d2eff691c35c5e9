SPECIFICATION Spec
CONSTANTS
  a = a
  b = b
  Client = {a}
  Page = 2
  MaxEvents = 5
INVARIANT
  SleepsOnlyWhenCaughtUp
CHECK_DEADLOCK FALSE
