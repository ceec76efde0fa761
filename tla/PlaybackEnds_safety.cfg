SPECIFICATION EndsSpec
CONSTANTS
  Callers = {"reader", "writer", "stop"}
  Captures = {c1, c2, c3}
  NoCapture = NoCapture
  Happens = {"resolve fails", "register fails", "open fails", "flags fail", "restore fails",
             "process fails", "disconnect", "shutdown"}
  FileChunks = 4
  QueuedChunks = 2
  MaxReports = 4
  UnloadHappens = {"shutdown", "restore fails"}
  Fds = {f1}
  NoFd = NoFd
  FdReuse = FALSE
  Speakers = {}
  Commands = {"playback.start"}
  BridgeHappens = {"stop", "hang up"}
  ChunkSizes = {1}
  FillSize = 1
  kMaxOutboundFrames = 1
  kMaxQueuedPlaybackSamples = 1
  MaxFrames = 1
SYMMETRY CaptureSymmetry
INVARIANT CaptureOwnedOnce
INVARIANT ActiveHasFeeder
INVARIANT NoCircularWait
INVARIANT SentIsPlayed
INVARIANT HostAtRest
CHECK_DEADLOCK FALSE
