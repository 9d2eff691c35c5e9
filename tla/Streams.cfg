SPECIFICATION MCSpec
CONSTANTS
  a = a
  b = b
  Client = {a, b}
  MaxEvents = 4
  MaxTopics = 2
  Page = 2
  MaxRows = 5
  LivePage = 2
  MaxLive = 5
  PeerCaller = {a}
INVARIANTS
  NoWakeUpIsLost
PROPERTIES
  ClientsGetEveryRow
  StreamsLetGo
CHECK_DEADLOCK FALSE
