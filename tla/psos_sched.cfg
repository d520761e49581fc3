SPECIFICATION Spec
CONSTANTS
  MaxTask = 3
  TaskTable = 2
  MaxSemaphore = 0
  SemaphoreTable = 0
  CountLimit = 1
  MaxQueue = 0
  QueueTable = 0
  MessageLimit = 1
  MaxTimer = 0
  TimerTable = 0
  MaxTimeout = 1
  Priorities = {1, 255}
  Counts = {}
  Capacities = {}
  Messages = {}
  Notices = {}
  Events = {}
  Modes <- OnlyPlain
  RootMode <- Masked
  Calls <- SchedulingCalls
  HandlerCalls <- SchedulingHandlerCalls
  Disciplined = FALSE
INVARIANTS CpuOwnerRunnable HighestPriorityRuns
