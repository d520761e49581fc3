SPECIFICATION OperatingSpec
CONSTANTS
  Controllers = {0}
  Wired = {0}
  MaxTicket = 5
  Ring = 3
  FifoLimit = 1
  InputLimit = 1
  EventLimit = 1
  Batch = 1
  StagingLimit = 2
  CommandTurn = 1
  MaxFrames = 0
  Modes = {"reset", "on"}
  Guest = {"request", "abort", "mode", "device"}
INVARIANTS NoStaleCompletion
PROPERTIES KeepsPromise
