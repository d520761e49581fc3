SPECIFICATION PreparedSpec
CONSTANTS
  MaxTask = 3
  TaskTable = 2
  MaxSemaphore = 1
  SemaphoreTable = 1
  CountLimit = 2
  MaxQueue = 1
  QueueTable = 1
  MessageLimit = 2
  MaxTimer = 0
  TimerTable = 1
  MaxTimeout = 1
  Priorities = {1, 255}
  Counts = {0}
  Capacities = {0}
  Messages = {m1}
  Notices = {}
  Events = {e1}
  Modes <- OnlyPlain
  RootMode <- Plain
  Calls <- WaitCalls
  HandlerCalls <- WaitHandlerCalls
  Disciplined = TRUE
INVARIANTS WaitersAreBlocked NoMissedWakeup
PROPERTIES DeletedStaysDeleted TimeoutFabricatesNothing
