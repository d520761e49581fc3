SPECIFICATION FairSpec
CONSTANTS
  Buses = {0, 2}
  InputLimit = 1
  EventLimit = 2
  MaxRequests = 1
  MaxHeard = 2
INVARIANT ReportsTrue
PROPERTY StnKept
PROPERTY StnSettles
CHECK_DEADLOCK FALSE
