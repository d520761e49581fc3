SPECIFICATION PreparedFairSpec
CONSTANTS
  MaxTask = 3
  TaskTable = 2
  MaxSemaphore = 0
  SemaphoreTable = 1
  CountLimit = 2
  MaxQueue = 0
  QueueTable = 1
  MessageLimit = 2
  MaxTimer = 1
  TimerTable = 1
  MaxTimeout = 2
  Priorities = {1, 255}
  Counts = {0}
  Capacities = {0}
  Messages = {}
  Notices = {}
  Events = {e1}
  Modes <- OnlyPlain
  RootMode <- Plain
  Calls <- ClockCalls
  HandlerCalls <- ClockHandlerCalls
  Disciplined = TRUE
PROPERTIES TimedWaitEnds PeriodicTimerWakes
