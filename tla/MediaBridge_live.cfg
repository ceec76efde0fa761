SPECIFICATION LiveSpec
CONSTANTS
  Fds = {f1, f2}
  NoFd = NoFd
  FdReuse = FALSE
  Speakers = {}
  Commands = {"playback.start", "playback.chunk", "playback.stop", "playback.clear"}
  VoiceCommands = {"invalid", "status.request"}
  VoiceHappens = {"stop", "hang up", "publish_audio_chunk"}
  BridgeHappens = {"stop", "hang up"}
  ChunkSizes = {1}
  FillSize = 1
  kMaxOutboundFrames = 1
  kMaxQueuedPlaybackSamples = 1
  MaxFrames = 1
  Callers = {"reader", "writer", "stop"}
INVARIANT StoppedClean
PROPERTY DrainEnds
 
CHECK_DEADLOCK FALSE
