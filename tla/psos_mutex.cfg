SPECIFICATION PreparedMutexSpec
CONSTANTS
  MaxTask = 4
  TaskTable = 2
  MaxSemaphore = 2
  SemaphoreTable = 2
  CountLimit = 2
  MaxQueue = 0
  QueueTable = 1
  MessageLimit = 2
  MaxTimer = 0
  TimerTable = 1
  MaxTimeout = 2
  Priorities = {1, 255}
  Counts = {1}
  Capacities = {0}
  Messages = {}
  Notices = {}
  Events = {}
  Modes <- OnlyPlain
  RootMode <- Plain
  Calls <- MutexCalls
  HandlerCalls <- MutexHandlerCalls
  Disciplined = TRUE
  Lock = 1
  Units = 1
INVARIANTS UnitsConserved
