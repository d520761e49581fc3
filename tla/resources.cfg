SPECIFICATION MCSpec
CONSTANTS
  Heap <- HeapArea
  Areas <- GuestAreas
  Requests = {1, 3}
  Glue = 1
  FirstStack = 1
  FirstSuper = 1
  MaxTask = 4
  Savers = {"s1", "s2"}
  Texts <- SaverTexts
  FirstText = "first"
  Syncs = {TRUE, FALSE}
  Continuations = 2
  Slots = 2
  Turn = 2
  Batch = 1
  Capacity = 2
  MaxFrames = 3
  Buses = {2}
  Periodic = {p}
  MaxTicket = 2
INVARIANT RegionsTiled
INVARIANT StacksOwned
INVARIANT RequestsWhole
INVARIANT CompletionsTrue
INVARIANT ChannelsClosed
PROPERTY SavesKept
PROPERTY FramesAnswered
PROPERTY BridgeKept
PROPERTY ReadsEnd
CHECK_DEADLOCK FALSE
