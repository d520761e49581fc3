SPECIFICATION OperatingFairSpec
CONSTANTS
  Controllers = {0}
  Wired = {0}
  MaxTicket = 1
  Ring = 3
  FifoLimit = 1
  InputLimit = 1
  EventLimit = 1
  Batch = 1
  StagingLimit = 1
  CommandTurn = 1
  MaxFrames = 2
  Modes = {"reset", "on", "listen", "deaf", "dual"}
  Guest = {"request", "abort", "mode", "irq", "release", "fault", "serial", "guard", "device"}
PROPERTIES RequestsEnd FailedLinksClose
