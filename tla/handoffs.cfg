SPECIFICATION MCSpec
CONSTANTS
  QueueChunks = 2
  ReadChunks = 2
  MaxChunks = 4
  PumpCapacity = 2
  MaxPackets = 4
  Dirs = {a}
  MaxFrames = 2
  MaxEpoch = 2
  KeyCapacity = 1
  MaxKeys = 2
INVARIANT EndsWithItsCause
INVARIANT NothingOutstanding
INVARIANT NoStaleScreen
INVARIANT KeysKept
PROPERTY StreamKept
PROPERTY StreamSettles
PROPERTY PumpKept
PROPERTY PacketsSurface
PROPERTY LatestShown
PROPERTY StopKept
PROPERTY StopEnds
CHECK_DEADLOCK FALSE
