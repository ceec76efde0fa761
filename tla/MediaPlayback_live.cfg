SPECIFICATION SessionFairSpec
CONSTANTS
  Fds = {f1}
  NoFd = NoFd
  FdReuse = FALSE
  Speakers = {}
  Commands = {"playback.start", "playback.chunk", "playback.stop", "playback.clear"}
  BridgeHappens = {}
  ChunkSizes = {1}
  FillSize = 1
  kMaxOutboundFrames = 1
  kMaxQueuedPlaybackSamples = 1
  MaxFrames = 1
  Callers = {"reader", "writer", "stop"}
  Captures = {c1, c2}
  NoCapture = NoCapture
  Happens = {"open fails", "flags fail"}
INVARIANT MicRestoredApart
PROPERTY SwapEnds
 
CHECK_DEADLOCK FALSE
