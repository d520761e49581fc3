SPECIFICATION PreparedSpec
CONSTANTS
  MaxTask = 3
  TaskTable = 2
  MaxSemaphore = 2
  SemaphoreTable = 1
  CountLimit = 2
  MaxQueue = 2
  QueueTable = 1
  MessageLimit = 2
  MaxTimer = 0
  TimerTable = 1
  MaxTimeout = 0
  Priorities = {1, 255}
  Counts = {0}
  Capacities = {0}
  Messages = {m1, m2}
  Notices = {n1}
  Events = {}
  Modes <- OnlyPlain
  RootMode <- Plain
  Calls <- ObjectCalls
  HandlerCalls <- ObjectHandlerCalls
  Disciplined = FALSE
INVARIANTS NoMissedWakeup
PROPERTIES NewObjectsHaveNoWaiters
