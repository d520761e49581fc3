SPECIFICATION PreparedMessageSpec
CONSTANTS
  MaxTask = 4
  TaskTable = 2
  MaxSemaphore = 0
  SemaphoreTable = 1
  CountLimit = 2
  MaxQueue = 1
  QueueTable = 1
  MessageLimit = 2
  MaxTimer = 0
  TimerTable = 1
  MaxTimeout = 1
  Priorities = {1, 255}
  Counts = {0}
  Capacities = {0, 1}
  Messages = {m1, m2}
  Notices = {n1}
  Events = {}
  Modes <- OnlyPlain
  RootMode <- Plain
  Calls <- MessageCalls
  HandlerCalls <- MessageHandlerCalls
  Disciplined = TRUE
INVARIANTS EachMessageOnce
