SPECIFICATION FairSystemSpec
CONSTANTS
  Fds = {f1}
  NoFd = NoFd
  FdReuse = FALSE
  Speakers = {}
  Commands = {"playback.start", "playback.chunk", "playback.stop"}
  BridgeHappens = {}
  ChunkSizes = {1}
  FillSize = 1
  kMaxOutboundFrames = 1
  kMaxQueuedPlaybackSamples = 1
  MaxFrames = 2
  Callers = {"reader", "writer", "stop"}
  Captures = {c1, c2}
  NoCapture = NoCapture
  Happens = {"disconnect"}
PROPERTY DrainEnds
CHECK_DEADLOCK FALSE
