SPECIFICATION SystemSpec
CONSTANTS
  Fds = {f1}
  NoFd = NoFd
  FdReuse = FALSE
  Speakers = {}
  Commands = {"playback.start"}
  BridgeHappens = {"hang up"}
  ChunkSizes = {1}
  FillSize = 1
  kMaxOutboundFrames = 1
  kMaxQueuedPlaybackSamples = 1
  MaxFrames = 2
  Callers = {"reader", "writer", "stop"}
  Captures = {c1, c2}
  NoCapture = NoCapture
  Happens = {}
INVARIANT MicRestored
CHECK_DEADLOCK FALSE
