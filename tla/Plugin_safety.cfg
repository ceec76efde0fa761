SPECIFICATION PluginSpec
CONSTANTS
  Fds = {f1, f2}
  NoFd = NoFd
  FdReuse = FALSE
  Speakers = {s1}
  Commands = {"invalid", "status.request", "playback.start", "playback.chunk", "playback.stop", "playback.clear"}
  BridgeHappens = {"publish_audio_chunk", "hang up"}
  ChunkSizes = {1}
  FillSize = 1
  kMaxOutboundFrames = 1
  kMaxQueuedPlaybackSamples = 1
  MaxFrames = 2
  Callers = {"reader", "writer", "stop"}
  Plugins = {ts1, ts2}
  MaxBacklog = 2
  MaxRows = 2
  Tags = {v1, v2}
  InstallHappens = {"breaks", "reinstalls", "user edits config"}
SYMMETRY FdSymmetry
INVARIANT TypeOK
 
 
INVARIANT AudioBound
INVARIANT DrainPending
INVARIANT ConsumerHasReader
INVARIANT UnloadedLeavesNothing
INVARIANT LeftoversAreReplaced
INVARIANT StopWakesAccept
INVARIANT ExecutedAsAsked
INVARIANT AnswerIsBackends
INVARIANT WholeIsUnderstood
 
 
CHECK_DEADLOCK FALSE
