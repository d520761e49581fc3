SPECIFICATION OperatingSpec
CONSTANTS
  Controllers = {0, 1, 2}
  Wired = {0, 2}
  MaxTicket = 1
  Ring = 4
  FifoLimit = 1
  InputLimit = 1
  EventLimit = 3
  Batch = 2
  StagingLimit = 2
  CommandTurn = 1
  MaxFrames = 2
  Modes = {}
  Guest = {"release", "request"}
INVARIANTS FramesInOrder
