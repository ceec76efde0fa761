-------------------------- MODULE MediaPlayback_proofs --------------------------
EXTENDS MediaPlayback, FiniteSetTheorems, SequenceTheorems, TLAPS

USE DEF clientVars

\* Every frame the bridge builds is one of the frames a queue may hold.
LEMMA FrameTypes ==
    /\ hello_frame \in Frames /\ status_frame \in Frames /\ error_frame \in Frames
    /\ audio_frame \in Frames /\ playback_started_frame \in Frames
    /\ playback_stopped_frame \in Frames
    /\ \A s \in Speakers, b \in BOOLEAN : speaker_frame(s, b) \in Frames
BY DEF hello_frame, status_frame, error_frame, audio_frame, playback_started_frame,
       playback_stopped_frame, speaker_frame, Frame, Frames, Topics

\* enqueue_frame_locked keeps a queue of frames a queue of frames.
LEMMA EnqueuedType ==
    ASSUME NEW q \in Seq(Frames), NEW frame \in Frames
    PROVE  Enqueued(q, frame) \in Seq(Frames)
BY DEF Enqueued

\* Waking, spawning or moving one worker keeps the other as it is typed.
LEMMA WorkerTypes ==
    ASSUME NEW w \in [{"reader", "writer"} -> Thread(WorkerPcs)],
           NEW t \in {"reader", "writer"}
    PROVE  /\ Notify(w) \in [{"reader", "writer"} -> Thread(WorkerPcs)]
           /\ Exits(w, t) \in [{"reader", "writer"} -> Thread(WorkerPcs)]
           /\ \A pc \in WorkerPcs : Goes(w, t, pc) \in [{"reader", "writer"} -> Thread(WorkerPcs)]
BY DEF Notify, Exits, Goes, Thread, WorkerPcs, NoThread

\* The reset playback record is an empty one within the queue limit.
LEMMA NoPlaybackType ==
    /\ NoPlayback \in [active : BOOLEAN, stopRequested : BOOLEAN, samples : Nat]
    /\ NoPlayback.samples = 0 /\ ~NoPlayback.active /\ ~NoPlayback.stopRequested
    /\ NoPlayback.samples <= kMaxQueuedPlaybackSamples
BY BridgeAssumption DEF NoPlayback

\* A bridge that was not started yet has its type.
LEMMA TypeInit == Init => TypeOK
<1> SUFFICES ASSUME Init PROVE TypeOK
  OBVIOUS
<1> USE DEF Init
<1>1. accept \in Thread(AcceptPcs) /\ worker \in [{"reader", "writer"} -> Thread(WorkerPcs)]
  BY DEF NoThread, Thread, AcceptPcs, WorkerPcs
<1>2. /\ playback \in [active : BOOLEAN, stopRequested : BOOLEAN, samples : Nat]
      /\ playback.samples <= kMaxQueuedPlaybackSamples
  BY BridgeAssumption DEF NoPlayback
<1>3. stopper \in [pc : StopperPcs, fd : Fds \cup {NoFd}]
  BY DEF StopperPcs
<1>4. CallTypeOK
  BY DEF CallInit, CallTypeOK, CallStates
<1>5. heard \in [Fds -> [Statements -> {"unheard", "on", "off"}]]
  BY DEF Unheard
<1>6. outboundFrames \in Seq(Frames) /\ writerFrame \in Frames
  BY FrameTypes
<1> QED BY <1>1, <1>2, <1>3, <1>4, <1>5, <1>6 DEF TypeOK

\* The frames a new consumer starts with make a queue of frames.
LEMMA GreetingType ==
    ASSUME TypeOK, NEW order \in Replays
    PROVE  Greeting(order) \in Seq(Frames)
<1>1. Cardinality(activeSpeakers) \in Nat
  BY BridgeAssumption, FS_Subset, FS_CardinalityType DEF TypeOK
<1>2. [i \in DOMAIN order |-> speaker_frame(order[i], TRUE)] \in Seq(Frames)
  <2> DEFINE n == Cardinality(activeSpeakers)
             starts == [i \in 1 .. n |-> speaker_frame(order[i], TRUE)]
  <2>1. DOMAIN order = 1 .. n
    BY DEF Replays
  <2>2. \A i \in 1 .. n : speaker_frame(order[i], TRUE) \in Frames
    BY FrameTypes DEF TypeOK, Replays
  <2>3. starts \in [1 .. n -> Frames]
    BY <2>2
  <2>4. starts \in Seq(Frames)
    <3> HIDE DEF starts, n
    <3> QED BY <1>1, <2>3 DEF n
  <2> QED BY <2>1, <2>4
<1>3. <<hello_frame, status_frame>> \in Seq(Frames)
  BY FrameTypes
<1> QED BY <1>2, <1>3 DEF Greeting

\* The accept loop keeps the types.
LEMMA AcceptingType == TypeOK /\ Accepting => TypeOK'
<1> SUFFICES ASSUME TypeOK, Accepting PROVE TypeOK'
  OBVIOUS
<1> USE DEF TypeOK, Thread, CallTypeOK
<1>1. CASE AcceptLoop
  BY <1>1 DEF AcceptLoop, AcceptGoes, AcceptPcs
<1>2. ASSUME NEW f \in Fds, AcceptConn(f) PROVE TypeOK'
  BY <1>2 DEF AcceptConn, AcceptPcs, Unheard
<1>3. CASE AcceptFails
  BY <1>3 DEF AcceptFails, AcceptGoes, AcceptPcs
<1>4. CASE AcceptBusy
  BY <1>4 DEF AcceptBusy, AcceptGoes, AcceptPcs
<1>5. CASE AcceptFree
  BY <1>5 DEF AcceptFree, AcceptGoes, AcceptPcs
<1>6. CASE AcceptInstall
  BY <1>6, GreetingType DEF AcceptInstall, AcceptGoes, AcceptPcs
<1>7. CASE AcceptSpawn
  BY <1>7 DEF AcceptSpawn, AcceptPcs, WorkerPcs
<1> QED BY <1>1, <1>2, <1>3, <1>4, <1>5, <1>6, <1>7 DEF Accepting

\* A control call that is begun, answered or returns keeps its type.
LEMMA CallTypes ==
    ASSUME CallTypeOK, NEW t
    PROVE  /\ \A request \in Requests : Invoke(t, request) => CallTypeOK'
           /\ \A result \in Results : Answer(t, result) => CallTypeOK'
           /\ \A result \in Results : Consume(t, result) => CallTypeOK'
BY DEF CallTypeOK, CallStates, Requests, Results, Invoke, Answer, Consume

\* A reader that answers with a frame and goes on keeps the types.
LEMMA RepliesType ==
    ASSUME TypeOK, NEW frame \in Frames, NEW pc \in WorkerPcs, Replies(frame, pc)
    PROVE  /\ outboundFrames' \in Seq(Frames)
           /\ worker' \in [{"reader", "writer"} -> Thread(WorkerPcs)]
<1>1. Notify(worker) \in [{"reader", "writer"} -> Thread(WorkerPcs)]
  BY WorkerTypes DEF TypeOK
<1> QED BY <1>1, WorkerTypes, EnqueuedType DEF TypeOK, Replies

\* The reader loop keeps the types; the chunk guard is what keeps the limit.
LEMMA ReadingType == TypeOK /\ Reading => TypeOK'
<1> SUFFICES ASSUME TypeOK, Reading PROVE TypeOK'
  OBVIOUS
<1> USE DEF TypeOK, Requests, Results
<1>0. \A pc \in {"loop", "read", "activate", "deactivate", "leave"} :
        /\ pc \in WorkerPcs
        /\ Goes(worker, "reader", pc) \in [{"reader", "writer"} -> Thread(WorkerPcs)]
  BY WorkerTypes DEF WorkerPcs
<1>1. CASE ReaderLoop
  BY <1>0, <1>1 DEF ReaderLoop, CallTypeOK
<1>2. CASE ReadInvalid
  BY <1>0, <1>2, FrameTypes, RepliesType DEF ReadInvalid, Reads, CallTypeOK
<1>3. CASE ReadStatus
  BY <1>0, <1>3, FrameTypes, RepliesType DEF ReadStatus, Reads, CallTypeOK
<1>4. CASE ReadStart
  BY <1>0, <1>4, CallTypes DEF ReadStart, Reads
<1>5. CASE StartReturns
  <2>1. CASE Consume("reader", "ok") /\ playback' = [NoPlayback EXCEPT !.active = TRUE]
                /\ Replies(playback_started_frame, "loop")
    <3>1. /\ playback' \in [active : BOOLEAN, stopRequested : BOOLEAN, samples : Nat]
          /\ playback'.samples <= kMaxQueuedPlaybackSamples
      BY <2>1, NoPlaybackType
    <3> QED BY <1>0, <1>5, <2>1, <3>1, FrameTypes, RepliesType, CallTypes DEF StartReturns
  <2>2. CASE Consume("reader", "failed") /\ UNCHANGED playback /\ Replies(error_frame, "loop")
    BY <1>0, <1>5, <2>2, FrameTypes, RepliesType, CallTypes DEF StartReturns
  <2> QED BY <1>5, <2>1, <2>2 DEF StartReturns
<1>6. ASSUME NEW n \in ChunkSizes, ReadChunk(n) PROVE TypeOK'
  <2>1. CASE playback' = [playback EXCEPT !.samples = @ + n] /\ UNCHANGED outboundFrames
                /\ worker' = Goes(worker, "reader", "loop")
                /\ playback.samples + n <= kMaxQueuedPlaybackSamples
    BY <1>0, <1>6, <2>1, BridgeAssumption DEF ReadChunk, Reads, CallTypeOK
  <2>2. CASE UNCHANGED playback /\ Replies(error_frame, "loop")
    BY <1>0, <1>6, <2>2, FrameTypes, RepliesType DEF ReadChunk, Reads, CallTypeOK
  <2>3. UNCHANGED call
    BY <1>6 DEF ReadChunk
  <2> QED BY <1>6, <2>1, <2>2, <2>3, Zenon DEF ReadChunk
<1>7. CASE ReadStop
  <2>1. CASE UNCHANGED <<playback, call>> /\ Replies(playback_stopped_frame, "loop")
    BY <1>0, <1>7, <2>1, FrameTypes, RepliesType DEF ReadStop, Reads, CallTypeOK
  <2>2. CASE playback' = NoPlayback /\ Replies(playback_stopped_frame, "deactivate")
                /\ Invoke("reader", "deactivate")
    BY <1>0, <1>7, <2>2, FrameTypes, RepliesType, CallTypes, BridgeAssumption
    DEF ReadStop, Reads, NoPlayback
  <2>3. CASE playback' = [playback EXCEPT !.stopRequested = TRUE]
                /\ worker' = Goes(worker, "reader", "loop") /\ UNCHANGED <<outboundFrames, call>>
    BY <1>0, <1>7, <2>3 DEF ReadStop, Reads, CallTypeOK
  <2> QED BY <1>7, <2>1, <2>2, <2>3 DEF ReadStop
<1>8. CASE ReadClear
  BY <1>0, <1>8, FrameTypes, RepliesType, CallTypes, BridgeAssumption
  DEF ReadClear, Reads, NoPlayback
<1>9. CASE DeactivateReturns
  BY <1>0, <1>9, CallTypes DEF DeactivateReturns
<1>10. CASE ReadEof
  BY <1>0, <1>10 DEF ReadEof, CallTypeOK
<1> QED BY <1>1, <1>2, <1>3, <1>4, <1>5, <1>6, <1>7, <1>8, <1>9, <1>10 DEF Reading

\* What a consumer heard stays one of the three things it can have heard.
LEMMA LearnsType ==
    ASSUME NEW h \in [Statements -> {"unheard", "on", "off"}], NEW frame \in Frames
    PROVE  Learns(h, frame) \in [Statements -> {"unheard", "on", "off"}]
BY DEF Learns

\* The writer loop keeps the types.
LEMMA WritingType == TypeOK /\ Writing => TypeOK'
<1> SUFFICES ASSUME TypeOK, Writing PROVE TypeOK'
  OBVIOUS
<1> USE DEF TypeOK, CallTypeOK
<1>0. /\ Exits(worker, "writer") \in [{"reader", "writer"} -> Thread(WorkerPcs)]
      /\ \A pc \in {"asleep", "write", "loop", "leave"} :
           Goes(worker, "writer", pc) \in [{"reader", "writer"} -> Thread(WorkerPcs)]
  BY WorkerTypes DEF WorkerPcs
<1>1. CASE WriterQuits
  BY <1>0, <1>1 DEF WriterQuits
<1>2. CASE WriterSleeps
  BY <1>0, <1>2 DEF WriterSleeps
<1>3. CASE WriterPops
  BY <1>0, <1>3 DEF WriterPops
<1>4. CASE WriterWrites
  <2>1. /\ worker["writer"].pc = "write" /\ worker' = Goes(worker, "writer", "loop")
        /\ heard' = [heard EXCEPT ![worker["writer"].fd] = Learns(@, writerFrame)]
        /\ writerFrame' = hello_frame
    BY <1>4 DEF WriterWrites
  <2>2. heard' \in [Fds -> [Statements -> {"unheard", "on", "off"}]]
    BY <2>1, LearnsType
  <2>3. worker' \in [{"reader", "writer"} -> Thread(WorkerPcs)] /\ writerFrame' \in Frames
    BY <1>0, <2>1, FrameTypes
  <2> QED BY <1>4, <2>2, <2>3 DEF WriterWrites
<1>5. CASE WriterFails
  BY <1>0, <1>5, FrameTypes DEF WriterFails
<1> QED BY <1>1, <1>2, <1>3, <1>4, <1>5 DEF Writing

\* handle_client_disconnect keeps the types in either thread.
LEMMA DisconnectingType ==
    ASSUME TypeOK, NEW t \in {"reader", "writer"}, Disconnecting(t)
    PROVE  TypeOK'
<1> USE DEF TypeOK, Requests, Results
<1>0. /\ Notify(worker) \in [{"reader", "writer"} -> Thread(WorkerPcs)]
      /\ Exits(worker, t) \in [{"reader", "writer"} -> Thread(WorkerPcs)]
      /\ "close" \in WorkerPcs /\ "teardown" \in WorkerPcs
  BY WorkerTypes DEF WorkerPcs
<1>1. CASE DisconnectLock(t)
  <2>1. worker' \in [{"reader", "writer"} -> Thread(WorkerPcs)]
    <3>1. Goes(Notify(worker), t, "close") \in [{"reader", "writer"} -> Thread(WorkerPcs)]
      BY <1>0, WorkerTypes
    <3> QED BY <1>0, <1>1, <3>1 DEF DisconnectLock
  <2>2. /\ playback' \in [active : BOOLEAN, stopRequested : BOOLEAN, samples : Nat]
        /\ playback'.samples <= kMaxQueuedPlaybackSamples
    BY <1>1, NoPlaybackType DEF DisconnectLock
  <2>3. outboundFrames' \in Seq(Frames) /\ clientFd' \in Fds \cup {NoFd}
        /\ clientConnected' \in BOOLEAN
    <3>1. <<>> \in Seq(Frames)
      OBVIOUS
    <3> QED BY <1>1, <3>1, Zenon DEF DisconnectLock
  <2> QED BY <1>1, <2>1, <2>2, <2>3 DEF DisconnectLock, CallTypeOK
<1>2. CASE DisconnectClose(t)
  BY <1>0, <1>2, WorkerTypes, CallTypes DEF DisconnectClose, Unheard
<1>3. CASE DisconnectReturns(t)
  BY <1>0, <1>3, CallTypes DEF DisconnectReturns
<1> QED BY <1>1, <1>2, <1>3 DEF Disconnecting

\* Publishing a frame to whoever is connected keeps queue and workers typed.
LEMMA EnqueueType ==
    ASSUME TypeOK, NEW frame \in Frames, EnqueueIfConnected(frame)
    PROVE  /\ outboundFrames' \in Seq(Frames)
           /\ worker' \in [{"reader", "writer"} -> Thread(WorkerPcs)]
BY SMTT(30), EnqueuedType, WorkerTypes DEF TypeOK, EnqueueIfConnected, enqueue_frame_locked

\* The host's calls into the bridge keep the types.
LEMMA BackendType == TypeOK /\ (Publishing \/ fill_playback_samples) => TypeOK'
<1> SUFFICES ASSUME TypeOK, Publishing \/ fill_playback_samples PROVE TypeOK'
  OBVIOUS
<1> USE DEF TypeOK, CallTypeOK
<1>1. ASSUME NEW s \in Speakers, publish_speaker_start(s) PROVE TypeOK'
  BY <1>1, FrameTypes, EnqueueType DEF publish_speaker_start
<1>2. ASSUME NEW s \in Speakers, publish_speaker_stop(s) PROVE TypeOK'
  BY <1>2, FrameTypes, EnqueueType DEF publish_speaker_stop
<1>3. CASE AudioBegin
  BY <1>3 DEF AudioBegin
<1>4. CASE AudioEnd
  BY <1>4, FrameTypes, EnqueueType DEF AudioEnd
<1>5. CASE fill_playback_samples
  <2>1. Rest(playback.samples) \in Nat /\ Rest(playback.samples) <= playback.samples
    BY BridgeAssumption DEF Rest
  <2>2. CASE playback' = NoPlayback /\ EnqueueIfConnected(playback_stopped_frame)
    BY <1>5, <2>2, FrameTypes, EnqueueType, BridgeAssumption DEF fill_playback_samples, NoPlayback
  <2>3. CASE playback' = [playback EXCEPT !.samples = Rest(@)]
                /\ UNCHANGED <<outboundFrames, worker>>
    BY <1>5, <2>1, <2>3, BridgeAssumption DEF fill_playback_samples
  <2> QED BY <1>5, <2>2, <2>3 DEF fill_playback_samples
<1> QED BY <1>1, <1>2, <1>3, <1>4, <1>5 DEF Publishing

\* stop() keeps the types.
LEMMA StoppingType == TypeOK /\ Stopping => TypeOK'
<1> SUFFICES ASSUME TypeOK, Stopping PROVE TypeOK'
  OBVIOUS
<1> USE DEF TypeOK, StopGoes, StopperPcs, Requests, Results
<1>1. CASE StopBegin
  BY <1>1, WorkerTypes DEF StopBegin, CallTypeOK
<1>2. CASE StopRequest
  <2>1. worker' \in [{"reader", "writer"} -> Thread(WorkerPcs)]
    BY <1>2 DEF StopRequest, Thread
  <2>2. accept' \in Thread(AcceptPcs)
    BY <1>2 DEF StopRequest, Thread
  <2> QED BY <1>2, <2>1, <2>2 DEF StopRequest, CallTypeOK
<1>3. CASE StopShutdown
  BY <1>3 DEF StopShutdown, CallTypeOK, HungUp
<1>4. CASE StopJoins
  BY SMTT(30), <1>4 DEF StopJoins, CallTypeOK
<1>5. CASE StopReset
  <2>1. /\ playback' \in [active : BOOLEAN, stopRequested : BOOLEAN, samples : Nat]
        /\ playback'.samples <= kMaxQueuedPlaybackSamples
    BY <1>5, NoPlaybackType DEF StopReset
  <2>2. link' \in [Fds -> {"unused", "open", "hungup", "closed"}]
    BY <1>5 DEF StopReset
  <2>3. CallTypeOK' /\ outboundFrames' \in Seq(Frames) /\ activeSpeakers' \in SUBSET Speakers
    BY <1>5, CallTypes DEF StopReset
  <2> QED BY <1>5, <2>1, <2>2, <2>3 DEF StopReset
<1>6. CASE StopReturns
  BY <1>6, CallTypes DEF StopReturns
<1> QED BY <1>1, <1>2, <1>3, <1>4, <1>5, <1>6 DEF Stopping

\* The types are inductive.
LEMMA TypeStep == TypeOK /\ [Next]_vars => TypeOK'
<1> SUFFICES ASSUME TypeOK, [Next]_vars PROVE TypeOK'
  OBVIOUS
<1>1. CASE Start
  BY <1>1 DEF Start, TypeOK, CallTypeOK, Thread, AcceptPcs
<1>2. ASSUME NEW f \in Fds, PeerHangsUp(f) PROVE TypeOK'
  BY <1>2 DEF PeerHangsUp, TypeOK, CallTypeOK, HungUp
<1>3. ASSUME NEW t \in {"reader", "writer", "stop"}, ControlAnswers(t) PROVE TypeOK'
  BY <1>3, CallTypes DEF ControlAnswers, TypeOK
<1>4. CASE UNCHANGED vars
  BY <1>4 DEF vars, TypeOK, CallTypeOK
<1> QED
  BY <1>1, <1>2, <1>3, <1>4, AcceptingType, ReadingType, WritingType, DisconnectingType,
     BackendType, StoppingType DEF Next, BridgeNext

\* Every reachable state of the bridge has its type, whatever the descriptors,
\* speakers, limits and commands, and the playback queue its limit.
THEOREM TypeCorrect == Spec => []TypeOK
BY TypeInit, TypeStep, PTL DEF Spec

-----------------------------------------------------------------------------
(* DrainPending is inductive together with the types: only the reader and  *)
(* the capture thread's tick write the playback record.                    *)

\* DrainPending is inductive relative to the types.
LEMMA DrainStep == TypeOK /\ DrainPending /\ [Next]_vars => DrainPending'
<1> SUFFICES ASSUME TypeOK, DrainPending, [Next]_vars PROVE DrainPending'
  OBVIOUS
<1> USE DEF DrainPending
<1>0. UNCHANGED playback => DrainPending'
  OBVIOUS
<1>1. playback' = NoPlayback => DrainPending'
  BY NoPlaybackType
<1>2. CASE Accepting
  BY <1>0, <1>2 DEF Accepting, AcceptLoop, AcceptConn, AcceptFails, AcceptBusy, AcceptFree,
     AcceptInstall, AcceptSpawn
<1>3. CASE Reading
  <2>1. CASE StartReturns
    <3>1. playback' = [NoPlayback EXCEPT !.active = TRUE] => DrainPending'
      BY NoPlaybackType
    <3> QED BY <1>0, <2>1, <3>1 DEF StartReturns
  <2>2. ASSUME NEW n \in ChunkSizes, ReadChunk(n) PROVE DrainPending'
    <3>1. playback.active /\ playback' = [playback EXCEPT !.samples = @ + n] => DrainPending'
      <4>1. n \in Nat /\ playback.samples \in Nat
        BY BridgeAssumption DEF TypeOK
      <4>2. playback.samples > 0 => playback.samples + n > 0
        BY <4>1
      <4> QED BY <4>2 DEF TypeOK
    <3> QED BY <1>0, <2>2, <3>1 DEF ReadChunk
  <2>3. CASE ReadStop
    <3>1. playback.active /\ playback.samples > 0
          /\ playback' = [playback EXCEPT !.stopRequested = TRUE] => DrainPending'
      BY DEF TypeOK
    <3> QED BY <1>0, <1>1, <2>3, <3>1 DEF ReadStop
  <2>4. CASE ReadClear
    BY <1>1, <2>4 DEF ReadClear
  <2>5. CASE ReaderLoop \/ ReadInvalid \/ ReadStatus \/ ReadStart \/ DeactivateReturns \/ ReadEof
    BY <1>0, <2>5 DEF ReaderLoop, ReadInvalid, ReadStatus, ReadStart, DeactivateReturns, ReadEof
  <2> QED BY <1>3, <2>1, <2>2, <2>3, <2>4, <2>5 DEF Reading
<1>4. CASE Writing
  BY <1>0, <1>4 DEF Writing, WriterQuits, WriterSleeps, WriterPops, WriterWrites, WriterFails
<1>5. ASSUME NEW t \in {"reader", "writer"}, Disconnecting(t) PROVE DrainPending'
  BY <1>0, <1>1, <1>5 DEF Disconnecting, DisconnectLock, DisconnectClose, DisconnectReturns
<1>6. CASE Publishing
  BY <1>0, <1>6 DEF Publishing, publish_speaker_start, publish_speaker_stop, AudioBegin, AudioEnd
<1>7. CASE Stopping
  BY <1>0, <1>1, <1>7 DEF Stopping, StopBegin, StopRequest, StopShutdown, StopJoins, StopReset,
     StopReturns
<1>8. CASE fill_playback_samples
  <2>1. Rest(playback.samples) \in Nat
    BY BridgeAssumption DEF Rest, TypeOK
  <2>2. playback.active /\ ~(playback.stopRequested /\ Rest(playback.samples) = 0)
        /\ playback' = [playback EXCEPT !.samples = Rest(@)] => DrainPending'
    BY <2>1 DEF TypeOK
  <2> QED BY <1>1, <1>8, <2>2 DEF fill_playback_samples
<1>9. CASE Start \/ (\E f \in Fds : PeerHangsUp(f))
           \/ (\E t \in {"reader", "writer", "stop"} : ControlAnswers(t)) \/ UNCHANGED vars
  BY <1>0, <1>9 DEF Start, PeerHangsUp, ControlAnswers, vars
<1> QED BY <1>2, <1>3, <1>4, <1>5, <1>6, <1>7, <1>8, <1>9 DEF Next, BridgeNext

\* Samples are queued only in an open session and a requested stop always has
\* samples left to drain, for every limit, chunk size and tick.
THEOREM DrainCorrect == Spec => []DrainPending
<1>1. Init => DrainPending
  BY NoPlaybackType DEF Init, DrainPending
<1> QED BY <1>1, DrainStep, TypeCorrect, PTL DEF Spec

-----------------------------------------------------------------------------
(* AudioBound: every change of the queue is an append, a pop, a clearing   *)
(* or a greeting, and each keeps the droppable frames within the limit.    *)

AudioWithin(queue) ==
    \A i \in DOMAIN queue : queue[i].topic = "audio" => i <= kMaxOutboundFrames

\* Queueing a frame puts no voice beyond the limit.
LEMMA EnqueuedWithin ==
    ASSUME NEW q \in Seq(Frames), NEW frame \in Frames, AudioWithin(q)
    PROVE  AudioWithin(Enqueued(q, frame))
<1>1. CASE Droppable(frame) /\ Len(q) >= kMaxOutboundFrames
  BY <1>1 DEF Enqueued
<1>2. CASE ~(Droppable(frame) /\ Len(q) >= kMaxOutboundFrames)
  <2>1. Enqueued(q, frame) = Append(q, frame)
    BY <1>2 DEF Enqueued
  <2>2. ASSUME NEW i \in 1 .. Len(q) + 1, Append(q, frame)[i].topic = "audio"
        PROVE  i <= kMaxOutboundFrames
    BY <1>2, <2>2, BridgeAssumption DEF AudioWithin, Droppable
  <2> QED BY <2>1, <2>2 DEF AudioWithin
<1> QED BY <1>1, <1>2

\* Popping a frame moves every voice frame towards the front.
LEMMA TailWithin ==
    ASSUME NEW q \in Seq(Frames), q # <<>>, AudioWithin(q)
    PROVE  AudioWithin(Tail(q))
<1> SUFFICES ASSUME NEW i \in DOMAIN Tail(q), Tail(q)[i].topic = "audio"
             PROVE  i <= kMaxOutboundFrames
  BY DEF AudioWithin
<1>1. i \in 1 .. Len(q) - 1 /\ Tail(q)[i] = q[i + 1] /\ i + 1 \in DOMAIN q
  BY HeadTailProperties
<1> QED BY <1>1, BridgeAssumption DEF AudioWithin

\* The frames a new consumer starts with hold no voice.
LEMMA GreetingWithin ==
    ASSUME TypeOK, NEW order \in Replays
    PROVE  AudioWithin(Greeting(order))
<1> DEFINE starts == [i \in DOMAIN order |-> speaker_frame(order[i], TRUE)]
           n == Cardinality(activeSpeakers)
<1>1. n \in Nat
  BY BridgeAssumption, FS_Subset, FS_CardinalityType DEF TypeOK
<1>2. DOMAIN order = 1 .. n /\ \A i \in 1 .. n : order[i] \in Speakers
  BY DEF Replays, TypeOK
<1>3. \A s \in Speakers : speaker_frame(s, TRUE).topic # "audio"
  BY BridgeAssumption DEF speaker_frame, Frame
<1>4. starts \in [1 .. n -> Frames] /\ \A i \in 1 .. n : starts[i].topic # "audio"
  BY <1>2, <1>3, FrameTypes
<1>5. starts \in Seq(Frames) /\ Len(starts) = n
  <2> HIDE DEF starts, n
  <2> QED BY <1>1, <1>4
<1>6. \A i \in DOMAIN Greeting(order) : Greeting(order)[i].topic # "audio"
  <2> HIDE DEF starts
  <2>1. Greeting(order) = <<hello_frame, status_frame>> \o starts
    BY DEF Greeting, starts
  <2>2. <<hello_frame, status_frame>> \in Seq(Frames) /\ Len(<<hello_frame, status_frame>>) = 2
    BY FrameTypes
  <2>3. \A i \in 1 .. 2 : <<hello_frame, status_frame>>[i].topic # "audio"
    BY DEF hello_frame, status_frame, Frame
  <2> QED BY <1>1, <1>4, <1>5, <2>1, <2>2, <2>3, ConcatProperties
<1> QED BY <1>6 DEF AudioWithin

\* AudioBound is inductive relative to the types.
LEMMA AudioStep == TypeOK /\ AudioBound /\ [Next]_vars => AudioBound'
<1> SUFFICES ASSUME TypeOK, AudioBound, [Next]_vars PROVE AudioWithin(outboundFrames')
  BY DEF AudioBound, AudioWithin
<1>0. AudioWithin(outboundFrames) /\ AudioWithin(<<>>) /\ outboundFrames \in Seq(Frames)
  BY DEF AudioBound, AudioWithin, TypeOK
<1>1. ASSUME NEW frame \in Frames, outboundFrames' = Enqueued(outboundFrames, frame)
      PROVE  AudioWithin(outboundFrames')
  BY <1>0, <1>1, EnqueuedWithin
<1>2. ASSUME NEW frame \in Frames, EnqueueIfConnected(frame) PROVE AudioWithin(outboundFrames')
  BY <1>0, <1>1, <1>2 DEF EnqueueIfConnected, enqueue_frame_locked
<1>3. CASE Accepting
  <2>1. CASE AcceptInstall
    BY <2>1, GreetingWithin DEF AcceptInstall
  <2> QED BY <1>0, <1>3, <2>1 DEF Accepting, AcceptLoop, AcceptConn, AcceptFails, AcceptBusy,
             AcceptFree, AcceptSpawn
<1>4. CASE Reading
  BY <1>0, <1>1, <1>4, FrameTypes DEF Reading, ReaderLoop, ReadInvalid, ReadStatus, ReadStart,
     StartReturns, ReadChunk, ReadStop, ReadClear, DeactivateReturns, ReadEof, Replies
<1>5. CASE Writing
  BY <1>0, <1>5, TailWithin DEF Writing, WriterQuits, WriterSleeps, WriterPops, WriterWrites,
     WriterFails
<1>6. ASSUME NEW t \in {"reader", "writer"}, Disconnecting(t) PROVE AudioWithin(outboundFrames')
  BY <1>0, <1>6 DEF Disconnecting, DisconnectLock, DisconnectClose, DisconnectReturns
<1>7. CASE Publishing
  BY <1>0, <1>2, <1>7, FrameTypes DEF Publishing, publish_speaker_start, publish_speaker_stop,
     AudioBegin, AudioEnd
<1>8. CASE Stopping
  BY <1>0, <1>8 DEF Stopping, StopBegin, StopRequest, StopShutdown, StopJoins, StopReset,
     StopReturns
<1>9. CASE fill_playback_samples
  BY <1>0, <1>2, <1>9, FrameTypes DEF fill_playback_samples
<1>10. CASE Start \/ (\E f \in Fds : PeerHangsUp(f))
            \/ (\E t \in {"reader", "writer", "stop"} : ControlAnswers(t)) \/ UNCHANGED vars
  BY <1>0, <1>10 DEF Start, PeerHangsUp, ControlAnswers, vars
<1> QED BY <1>3, <1>4, <1>5, <1>6, <1>7, <1>8, <1>9, <1>10 DEF Next, BridgeNext

\* Voice never makes the outbound queue longer than kMaxOutboundFrames.
THEOREM AudioCorrect == Spec => []AudioBound
<1>1. Init => AudioBound
  BY DEF Init, AudioBound
<1> QED BY <1>1, AudioStep, TypeCorrect, PTL DEF Spec
-----------------------------------------------------------------------------
(* Who holds what.  A connection belongs to the accept thread until it is   *)
(* installed, to clientFd while it is served, and to the thread that is to  *)
(* close it after that; stop() relies on it when it joins.                  *)

Workers == {"reader", "writer"}
Leaving == {"close", "teardown"}
Busy == WorkerPcs \ ({"off"} \cup Leaving)

\* clientFd is the connection in service: it waits for its threads or has a
\* reader, and none of its threads has left it.
ConsumerInv ==
    /\ clientConnected =>
         /\ clientFd \in Fds
         /\ accept.pc = "spawn" => accept.fd = clientFd
         /\ accept.pc # "spawn" =>
              /\ worker["reader"].fd = clientFd
              /\ worker["reader"].pc \in Busy
              /\ worker["writer"].pc \notin Leaving
    /\ ~clientConnected => clientFd = NoFd /\ accept.pc # "spawn"
    /\ accept.pc \in {"check", "install", "spawn"} => accept.fd \in Fds
    /\ accept.pc = "spawn" => \A t \in Workers : worker[t].pc = "off"

\* The two threads serve one connection, and at most one of them closes it.
WorkersInv ==
    /\ \A t \in Workers : worker[t].pc # "off" => worker[t].fd \in Fds
    /\ worker["reader"].pc # "off" /\ worker["writer"].pc # "off" =>
         worker["reader"].fd = worker["writer"].fd
    /\ ~(worker["reader"].pc = "close" /\ worker["writer"].pc = "close")

\* An open connection has somebody who will close it.
LinkInv ==
    \A f \in Fds : link[f] \in {"open", "hungup"} =>
        \/ accept.pc \in {"check", "install"} /\ accept.fd = f
        \/ clientConnected /\ clientFd = f
        \/ \E t \in Workers : worker[t].pc = "close" /\ worker[t].fd = f

\* A thread is inside a control call only where the code makes one.
CallInv ==
    /\ call["reader"] # "none" => worker["reader"].pc \in {"activate", "deactivate", "teardown"}
    /\ call["writer"] # "none" => worker["writer"].pc = "teardown"
    /\ call["stop"] # "none" => stopper.pc = "deactivate"
    /\ \A t \in Callers \ (Workers \cup {"stop"}) : call[t] = "none"

\* What stop() has shut down and joined stays so.
StopInv ==
    /\ stopper.pc \notin {"idle", "request", "shutdown"} => ~listening
    /\ stopper.pc \in {"joinReader", "joinWriter", "reset", "deactivate", "done"} =>
         accept.pc = "exited"
    /\ stopper.pc \in {"joinWriter", "reset", "deactivate", "done"} => worker["reader"].pc = "off"
    /\ stopper.pc \in {"reset", "deactivate", "done"} => worker["writer"].pc = "off"
    /\ stopper.pc \in {"deactivate", "done"} => ~clientConnected /\ playback = NoPlayback
    /\ ~running /\ stopper.pc = "idle" => accept.pc = "off"

OwnersInv == ConsumerInv /\ WorkersInv /\ LinkInv /\ CallInv /\ StopInv

\* Nobody owns anything yet.
LEMMA OwnersInit == Init => OwnersInv
<1> SUFFICES ASSUME Init PROVE OwnersInv
  OBVIOUS
<1> USE DEF Init, NoThread, Workers, Leaving
<1>1. ConsumerInv /\ WorkersInv /\ LinkInv
  BY DEF ConsumerInv, WorkersInv, LinkInv
<1>2. CallInv
  BY BridgeCallers DEF CallInv, CallInit
<1>3. StopInv
  BY DEF StopInv
<1> QED BY <1>1, <1>2, <1>3 DEF OwnersInv

\* What moving, waking or ending a worker does to the two of them.
LEMMA WorkerMoves ==
    ASSUME NEW w \in [{"reader", "writer"} -> Thread(WorkerPcs)],
           NEW t \in Workers, NEW u \in Workers, NEW pc \in WorkerPcs
    PROVE  /\ Goes(w, t, pc)[u].fd = w[u].fd /\ Notify(w)[u].fd = w[u].fd
           /\ Goes(w, t, pc)[u].pc = IF u = t THEN pc ELSE w[u].pc
           /\ Notify(w)[u].pc = w[u].pc \/ {w[u].pc, Notify(w)[u].pc} \subseteq Busy
           /\ Notify(w)["reader"] = w["reader"]
           /\ Exits(w, t)[t].pc = "off"
           /\ u # t => Exits(w, t)[u] = w[u]
BY DEF Goes, Notify, Exits, Thread, WorkerPcs, NoThread, Workers, Busy, Leaving

\* A worker that ends, or goes on, leaves the other where it is.
LEMMA WorkerEnds ==
    ASSUME NEW w \in [Workers -> Thread(WorkerPcs)], NEW t \in Workers
    PROVE  Exits(w, t)[t].pc = "off" /\ \A u \in Workers : u # t => Exits(w, t)[u] = w[u]
BY DEF Exits, NoThread, Workers

LEMMA WorkerGoes ==
    ASSUME NEW w \in [Workers -> Thread(WorkerPcs)], NEW t \in Workers, NEW pc
    PROVE  /\ Goes(w, t, pc)[t].pc = pc /\ Goes(w, t, pc)[t].fd = w[t].fd
           /\ \A u \in Workers : u # t => Goes(w, t, pc)[u] = w[u]
BY DEF Goes, Thread, Workers

\* Waking the writer starts nobody.
LEMMA WorkerWakes ==
    ASSUME NEW w \in [Workers -> Thread(WorkerPcs)], NEW u \in Workers
    PROVE  /\ Notify(w)[u].fd = w[u].fd
           /\ Notify(w)[u].pc # "off" => w[u].pc # "off"
BY DEF Notify, Thread, Workers

\* The workers go on with their connection, and nobody else does anything.
MovesOn ==
    /\ UNCHANGED <<running, clientFd, clientConnected, listening, accept, stopper, link>>
    /\ \A t \in Workers :
        /\ worker'[t].fd = worker[t].fd
        /\ worker'[t].pc = worker[t].pc \/ {worker[t].pc, worker'[t].pc} \subseteq Busy

\* As long as the workers go on, everything keeps its owner.
LEMMA MovesOnInv ==
    ASSUME TypeOK, OwnersInv, MovesOn,
           stopper.pc \in {"deactivate", "done"} => playback' = playback
    PROVE  ConsumerInv' /\ WorkersInv' /\ LinkInv' /\ StopInv'
<1> USE DEF OwnersInv, MovesOn, Workers, Busy, Leaving
<1>1. ConsumerInv'
  BY DEF ConsumerInv
<1>2. WorkersInv'
  BY DEF WorkersInv
<1>3. LinkInv'
  BY DEF LinkInv
<1>4. StopInv'
  BY DEF StopInv
<1> QED BY <1>1, <1>2, <1>3, <1>4

\* Who is not where a control call is made makes none.
LEMMA CallKept ==
    ASSUME CallInv, UNCHANGED call, stopper'.pc = stopper.pc,
           worker["reader"].pc \in {"activate", "deactivate", "teardown"} =>
               worker'["reader"].pc = worker["reader"].pc,
           worker["writer"].pc = "teardown" => worker'["writer"].pc = "teardown"
    PROVE  CallInv'
BY DEF CallInv

\* Entering, being answered in, and leaving a call changes the caller's entry only.
LEMMA CallMoves ==
    ASSUME CallTypeOK, NEW t \in Callers
    PROVE  /\ \A r : Invoke(t, r) => call[t] = "none" /\ call'[t] = r
                                     /\ \A u \in Callers \ {t} : call'[u] = call[u]
           /\ \A r \in Results : Answer(t, r) => call[t] # "none" /\ call'[t] = r
                                     /\ \A u \in Callers \ {t} : call'[u] = call[u]
           /\ \A r : Consume(t, r) => call[t] = r /\ call'[t] = "none"
                                     /\ \A u \in Callers \ {t} : call'[u] = call[u]
BY DEF CallTypeOK, CallStates, Requests, Results, Invoke, Answer, Consume

\* The accept loop hands a connection on and never drops one.
LEMMA AcceptingOwners == TypeOK /\ OwnersInv /\ Accepting => OwnersInv'
<1> SUFFICES ASSUME TypeOK, OwnersInv, Accepting PROVE OwnersInv'
  OBVIOUS
<1> USE DEF AcceptGoes, Workers, Leaving, Busy
<1>1. accept \in Thread(AcceptPcs) /\ worker \in [Workers -> Thread(WorkerPcs)]
      /\ link \in [Fds -> {"unused", "open", "hungup", "closed"}] /\ clientFd \in Fds \cup {NoFd}
  BY DEF TypeOK
<1>2. UNCHANGED <<call, stopper, running, playback>> /\ listening' = listening
  BY DEF Accepting, AcceptLoop, AcceptConn, AcceptFails, AcceptBusy, AcceptFree, AcceptInstall,
     AcceptSpawn
<1>3. CASE AcceptLoop \/ AcceptFails \/ AcceptFree
  <2>1. /\ UNCHANGED <<clientFd, clientConnected, worker, link>>
        /\ accept.pc \in {"loop", "accept", "check"} /\ accept'.pc # "spawn"
        /\ accept'.fd = accept.fd
        /\ accept'.pc = IF accept.pc = "check" THEN "install" ELSE accept'.pc
        /\ accept'.pc \in {"check", "install"} => accept.pc = "check"
    BY <1>1, <1>3 DEF AcceptLoop, AcceptFails, AcceptFree, Thread
  <2>2. ConsumerInv' /\ WorkersInv'
    BY <1>1, <2>1 DEF OwnersInv, ConsumerInv, WorkersInv
  <2>3. LinkInv'
    BY <2>1 DEF OwnersInv, LinkInv
  <2>4. CallInv' /\ StopInv'
    BY <1>2, <2>1 DEF OwnersInv, CallInv, StopInv
  <2> QED BY <2>2, <2>3, <2>4 DEF OwnersInv
<1>4. ASSUME NEW f \in Fds, AcceptConn(f) PROVE OwnersInv'
  <2>1. /\ UNCHANGED <<clientFd, clientConnected, worker>>
        /\ accept.pc = "accept" /\ accept'.pc = "check" /\ accept'.fd = f
        /\ \A g \in Fds \ {f} : link'[g] = link[g]
    BY <1>1, <1>4 DEF AcceptConn, Thread
  <2>2. ConsumerInv' /\ WorkersInv'
    BY <2>1 DEF OwnersInv, ConsumerInv, WorkersInv
  <2>3. LinkInv'
    BY <2>1 DEF OwnersInv, LinkInv
  <2>4. CallInv' /\ StopInv'
    BY <1>2, <2>1 DEF OwnersInv, CallInv, StopInv
  <2> QED BY <2>2, <2>3, <2>4 DEF OwnersInv
<1>5. CASE AcceptBusy
  <2>1. /\ UNCHANGED <<clientFd, clientConnected, worker>>
        /\ accept.pc = "check" /\ accept'.pc = "loop"
        /\ link' = [link EXCEPT ![accept.fd] = "closed"]
    BY <1>1, <1>5 DEF AcceptBusy, Thread
  <2>2. ConsumerInv' /\ WorkersInv'
    BY <2>1 DEF OwnersInv, ConsumerInv, WorkersInv
  <2>3. LinkInv'
    BY <1>1, <2>1 DEF OwnersInv, LinkInv
  <2>4. CallInv' /\ StopInv'
    BY <1>2, <2>1 DEF OwnersInv, CallInv, StopInv
  <2> QED BY <2>2, <2>3, <2>4 DEF OwnersInv
<1>6. CASE AcceptInstall
  <2>1. /\ clientFd' = accept.fd /\ clientConnected' /\ UNCHANGED <<worker, link>>
        /\ accept.pc = "install" /\ accept'.pc = "spawn" /\ accept'.fd = accept.fd
        /\ \A t \in Workers : worker[t].pc = "off"
    BY <1>1, <1>6 DEF AcceptInstall, Thread
  <2>2. ~clientConnected
    BY <2>1 DEF OwnersInv, ConsumerInv
  <2>3. ConsumerInv' /\ WorkersInv'
    BY <2>1 DEF OwnersInv, ConsumerInv, WorkersInv
  <2>4. LinkInv'
    BY <2>1, <2>2 DEF OwnersInv, LinkInv
  <2>5. CallInv' /\ StopInv'
    BY <1>2, <2>1 DEF OwnersInv, CallInv, StopInv
  <2> QED BY <2>3, <2>4, <2>5 DEF OwnersInv
<1>7. CASE AcceptSpawn
  <2>1. /\ UNCHANGED <<clientFd, clientConnected, link>>
        /\ accept.pc = "spawn" /\ accept'.pc = "loop"
        /\ \A t \in Workers : worker'[t].pc = "loop" /\ worker'[t].fd = accept.fd
    BY <1>1, <1>7 DEF AcceptSpawn, Thread
  <2>2. ConsumerInv' /\ WorkersInv'
    BY <2>1 DEF OwnersInv, ConsumerInv, WorkersInv, WorkerPcs
  <2>3. LinkInv'
    BY <2>1 DEF OwnersInv, LinkInv, ConsumerInv
  <2>4. CallInv' /\ StopInv'
    BY <1>2, <2>1 DEF OwnersInv, CallInv, StopInv, ConsumerInv
  <2> QED BY <2>2, <2>3, <2>4 DEF OwnersInv
<1> QED BY <1>3, <1>4, <1>5, <1>6, <1>7 DEF Accepting

\* A reader that answers goes on with its connection.
LEMMA RepliesMoves ==
    ASSUME TypeOK, NEW frame, NEW pc \in Busy, Replies(frame, pc), worker["reader"].pc \in Busy
    PROVE  /\ worker'["reader"].pc = pc
           /\ \A t \in Workers :
                /\ worker'[t].fd = worker[t].fd
                /\ worker'[t].pc = worker[t].pc \/ {worker[t].pc, worker'[t].pc} \subseteq Busy
<1>1. Notify(worker) \in [{"reader", "writer"} -> Thread(WorkerPcs)]
  BY WorkerTypes DEF TypeOK
<1> QED BY <1>1, WorkerMoves DEF TypeOK, Replies, Workers, Busy

\* A reader that reads, answers or calls goes on with its connection.
LEMMA ReaderGoes ==
    ASSUME TypeOK, Reading, NEW pc \in {"loop", "read", "activate", "deactivate", "leave"},
           \/ worker' = Goes(worker, "reader", pc)
           \/ \E frame \in Frames : Replies(frame, pc)
    PROVE  worker'["reader"].pc = pc /\ MovesOn
<1> USE DEF Workers
<1>1. worker \in [Workers -> Thread(WorkerPcs)]
  BY DEF TypeOK
<1>2. UNCHANGED <<running, clientFd, clientConnected, listening, accept, stopper, link>>
  BY DEF Reading, ReaderLoop, ReadInvalid, ReadStatus, ReadStart, StartReturns, ReadChunk,
     ReadStop, ReadClear, DeactivateReturns, ReadEof, Reads
<1>3. worker["reader"].pc \in {"loop", "read", "activate", "deactivate"}
  BY DEF Reading, ReaderLoop, ReadInvalid, ReadStatus, ReadStart, StartReturns, ReadChunk,
     ReadStop, ReadClear, DeactivateReturns, ReadEof, Reads
<1>4. {"loop", "read", "activate", "deactivate", "leave"} \subseteq Busy
  BY DEF Busy, Leaving, WorkerPcs
<1>5. pc \in Busy /\ pc \in WorkerPcs
  BY <1>4 DEF Busy
<1>6. CASE worker' = Goes(worker, "reader", pc)
  BY <1>1, <1>2, <1>3, <1>4, <1>5, <1>6, WorkerMoves DEF MovesOn
<1>7. ASSUME NEW frame \in Frames, Replies(frame, pc)
      PROVE  worker'["reader"].pc = pc /\ MovesOn
  BY <1>2, <1>3, <1>4, <1>5, <1>7, RepliesMoves DEF MovesOn
<1> QED BY <1>6, <1>7

LEMMA ReadingMoves == TypeOK /\ Reading => MovesOn
BY ReaderGoes, FrameTypes DEF Reading, ReaderLoop, ReadInvalid, ReadStatus, ReadStart, StartReturns,
   ReadChunk, ReadStop, ReadClear, DeactivateReturns, ReadEof

\* The reader loop changes no owner, and calls only where CallInv says.
LEMMA ReadingOwners == TypeOK /\ OwnersInv /\ Reading => OwnersInv'
<1> SUFFICES ASSUME TypeOK, OwnersInv, Reading PROVE OwnersInv'
  OBVIOUS
<1> USE DEF Workers
<1>2. UNCHANGED <<running, clientFd, clientConnected, listening, accept, stopper, link>>
  BY DEF Reading, ReaderLoop, ReadInvalid, ReadStatus, ReadStart, StartReturns, ReadChunk,
     ReadStop, ReadClear, DeactivateReturns, ReadEof, Reads
<1>3. worker["reader"].pc \in {"loop", "read", "activate", "deactivate"}
  BY DEF Reading, ReaderLoop, ReadInvalid, ReadStatus, ReadStart, StartReturns, ReadChunk,
     ReadStop, ReadClear, DeactivateReturns, ReadEof, Reads
<1>5. ASSUME NEW pc \in {"activate", "deactivate"},
             \/ worker' = Goes(worker, "reader", pc)
             \/ \E frame \in Frames : Replies(frame, pc)
      PROVE  worker'["reader"].pc = pc
  BY <1>5, ReaderGoes
<1>6. MovesOn
  BY ReadingMoves
<1>7. ConsumerInv' /\ WorkersInv' /\ LinkInv' /\ StopInv'
  <2>1. stopper.pc \notin {"deactivate", "done"}
    BY <1>3 DEF OwnersInv, StopInv
  <2> QED BY <1>6, <2>1, MovesOnInv
<1>8. worker["writer"].pc = "teardown" => worker'["writer"].pc = "teardown"
  BY <1>6 DEF MovesOn, Busy, Leaving
<1>9. CallInv'
  <2>1. CASE UNCHANGED call /\ worker["reader"].pc \in {"loop", "read"}
    BY <1>2, <1>8, <2>1, CallKept DEF OwnersInv
  <2>2. ASSUME NEW r \in Requests, Invoke("reader", r), worker'["reader"].pc = r
        PROVE  CallInv'
    BY <1>2, <1>8, <2>2, CallMoves, BridgeCallers DEF OwnersInv, CallInv, Requests, TypeOK
  <2>3. ASSUME NEW r \in Results, Consume("reader", r) PROVE CallInv'
    BY <1>2, <1>8, <2>3, CallMoves, BridgeCallers DEF OwnersInv, CallInv, TypeOK
  <2>4. "activate" \in Requests /\ "deactivate" \in Requests /\ "ok" \in Results
        /\ "failed" \in Results
    BY DEF Requests, Results
  <2>5. CASE ReadStart \/ ReadClear
    BY <1>5, <2>2, <2>4, <2>5, FrameTypes DEF ReadStart, ReadClear
  <2>6. CASE StartReturns \/ DeactivateReturns
    BY <2>3, <2>4, <2>6 DEF StartReturns, DeactivateReturns
  <2>7. CASE ReadStop
    BY <1>5, <2>1, <2>2, <2>4, <2>7, FrameTypes DEF ReadStop, Reads
  <2>8. CASE ReaderLoop \/ ReadInvalid \/ ReadStatus \/ (\E n \in ChunkSizes : ReadChunk(n)) \/ ReadEof
    BY <2>1, <2>8 DEF ReaderLoop, ReadInvalid, ReadStatus, ReadChunk, ReadEof, Reads
  <2> QED BY <2>5, <2>6, <2>7, <2>8 DEF Reading
<1> QED BY <1>7, <1>9 DEF OwnersInv

\* The writer loop changes no owner, whether it writes, sleeps or quits.
LEMMA WritingOwners == TypeOK /\ OwnersInv /\ Writing => OwnersInv'
<1> SUFFICES ASSUME TypeOK, OwnersInv, Writing PROVE OwnersInv'
  OBVIOUS
<1> USE DEF Workers
<1>1. /\ worker \in [Workers -> Thread(WorkerPcs)]
      /\ UNCHANGED <<running, clientFd, clientConnected, listening, accept, stopper, link, call,
                     playback>>
      /\ worker["writer"].pc \in {"loop", "write"}
  BY DEF TypeOK, Writing, WriterQuits, WriterSleeps, WriterPops, WriterWrites, WriterFails
<1>2. CASE WriterQuits
  <2>1. worker'["writer"].pc = "off" /\ worker'["reader"] = worker["reader"]
    <3>1. worker' = Exits(worker, "writer") /\ "writer" \in Workers /\ "reader" \in Workers
      BY <1>2 DEF WriterQuits
    <3> QED BY <1>1, <3>1, WorkerEnds
  <2>2. ConsumerInv' /\ WorkersInv'
    BY <1>1, <2>1 DEF OwnersInv, ConsumerInv, WorkersInv, Leaving
  <2>3. LinkInv'
    BY <1>1, <2>1 DEF OwnersInv, LinkInv
  <2>4. CallInv' /\ StopInv'
    BY <1>1, <2>1 DEF OwnersInv, CallInv, StopInv
  <2> QED BY <2>2, <2>3, <2>4 DEF OwnersInv
<1>3. CASE WriterSleeps \/ WriterPops \/ WriterWrites \/ WriterFails
  <2>1. PICK pc \in {"asleep", "write", "loop", "leave"} : worker' = Goes(worker, "writer", pc)
    BY <1>3 DEF WriterSleeps, WriterPops, WriterWrites, WriterFails
  <2>2. MovesOn /\ worker'["reader"].pc = worker["reader"].pc
    <3>1. pc \in WorkerPcs
      BY DEF WorkerPcs
    <3>2. /\ \A t \in Workers : worker'[t].fd = worker[t].fd
          /\ worker'["reader"].pc = worker["reader"].pc /\ worker'["writer"].pc = pc
      BY <1>1, <2>1, <3>1, WorkerMoves
    <3>3. {worker["writer"].pc, pc} \subseteq Busy
      BY <1>1, <2>1 DEF Busy, Leaving, WorkerPcs
    <3> QED BY <1>1, <3>2, <3>3 DEF MovesOn
  <2>3. worker["writer"].pc # "teardown"
    BY <1>1
  <2> QED BY <1>1, <2>2, <2>3, MovesOnInv, CallKept DEF OwnersInv
<1> QED BY <1>2, <1>3 DEF Writing

\* Whoever disconnects becomes the owner of the connection, closes it, and tells
\* the backend; the other thread of the connection finds it gone.
LEMMA DisconnectingOwners ==
    ASSUME TypeOK, OwnersInv, NEW t \in Workers, Disconnecting(t)
    PROVE  OwnersInv'
<1> USE DEF Workers
<1> DEFINE other == IF t = "reader" THEN "writer" ELSE "reader"
<1>1. /\ worker \in [Workers -> Thread(WorkerPcs)]
      /\ link \in [Fds -> {"unused", "open", "hungup", "closed"}]
      /\ UNCHANGED <<running, listening, accept, stopper>>
  BY DEF TypeOK, Disconnecting, DisconnectLock, DisconnectClose, DisconnectReturns
<1>2. CASE DisconnectLock(t)
  <2>0. worker[t].pc = "leave" /\ UNCHANGED <<link, call>>
    BY <1>2 DEF DisconnectLock
  <2>1. CASE clientFd # worker[t].fd
    <3>1. /\ UNCHANGED <<clientFd, clientConnected, playback>>
          /\ worker'[t].pc = "off" /\ worker'[other] = worker[other]
      <4>1. UNCHANGED <<clientFd, clientConnected, playback>> /\ worker' = Exits(worker, t)
        BY <1>2, <2>1 DEF DisconnectLock
      <4>2. other \in Workers /\ other # t
        OBVIOUS
      <4> HIDE DEF other
      <4> QED BY <1>1, <4>1, <4>2, WorkerEnds
    <3>2. ConsumerInv' /\ WorkersInv'
      BY <1>1, <2>0, <2>1, <3>1 DEF OwnersInv, ConsumerInv, WorkersInv, Leaving
    <3>3. LinkInv'
      BY <1>1, <2>0, <3>1 DEF OwnersInv, LinkInv
    <3>4. CallInv' /\ StopInv'
      BY <1>1, <2>0, <3>1 DEF OwnersInv, CallInv, StopInv
    <3> QED BY <3>2, <3>3, <3>4 DEF OwnersInv
  <2>2. CASE clientFd = worker[t].fd
    <3>1. Notify(worker) \in [Workers -> Thread(WorkerPcs)] /\ "close" \in WorkerPcs
      BY <1>1, WorkerTypes DEF WorkerPcs
    <3>2. /\ ~clientConnected' /\ clientFd' = NoFd /\ playback' = NoPlayback
          /\ worker'[t].pc = "close" /\ worker'[t].fd = worker[t].fd
          /\ worker'[other].fd = worker[other].fd
          /\ \/ worker'[other].pc = worker[other].pc
             \/ {worker[other].pc, worker'[other].pc} \subseteq Busy
          /\ t = "writer" => worker'["reader"].pc = worker["reader"].pc
      BY <1>1, <1>2, <2>2, <3>1, WorkerMoves DEF DisconnectLock
    <3>3. clientConnected /\ clientFd \in Fds
      BY <2>0, <2>2, BridgeAssumption DEF OwnersInv, ConsumerInv, WorkersInv
    <3>4. accept.pc # "spawn" /\ worker[other].pc \notin {"close", "teardown"}
      BY <2>0, <3>3 DEF OwnersInv, ConsumerInv, Busy, Leaving
    <3>5. ConsumerInv' /\ WorkersInv'
      BY <1>1, <2>0, <3>2, <3>4 DEF OwnersInv, ConsumerInv, WorkersInv, Busy, Leaving
    <3>6. LinkInv'
      BY <1>1, <2>0, <2>2, <3>2, <3>4 DEF OwnersInv, LinkInv
    <3>7. CallInv' /\ StopInv'
      BY <1>1, <2>0, <3>2, <3>4 DEF OwnersInv, CallInv, StopInv, Busy, Leaving
    <3> QED BY <3>5, <3>6, <3>7 DEF OwnersInv
  <2> QED BY <2>1, <2>2
<1>3. CASE DisconnectClose(t)
  <2>1. /\ worker[t].pc = "close" /\ worker'[t].pc = "teardown" /\ worker'[t].fd = worker[t].fd
        /\ worker'[other].fd = worker[other].fd /\ worker'[other].pc = worker[other].pc
        /\ UNCHANGED <<clientFd, clientConnected, playback>>
        /\ link' = [link EXCEPT ![worker[t].fd] = "closed"]
        /\ worker[other].pc # "close"
    <3>1. /\ worker[t].pc = "close" /\ worker' = Goes(worker, t, "teardown")
          /\ UNCHANGED <<clientFd, clientConnected, playback>>
          /\ link' = [link EXCEPT ![worker[t].fd] = "closed"]
      BY <1>3 DEF DisconnectClose
    <3>2. "teardown" \in WorkerPcs /\ other \in Workers /\ other # t
      BY DEF WorkerPcs
    <3> HIDE DEF other
    <3>3. /\ worker'[t].pc = "teardown" /\ worker'[t].fd = worker[t].fd
          /\ worker'[other].fd = worker[other].fd /\ worker'[other].pc = worker[other].pc
      BY <1>1, <3>1, <3>2, WorkerMoves
    <3>4. worker[other].pc # "close"
      BY <3>1, <3>2 DEF OwnersInv, WorkersInv
    <3> QED BY <3>1, <3>3, <3>4
  <2>2. ConsumerInv' /\ WorkersInv'
    BY <1>1, <2>1 DEF OwnersInv, ConsumerInv, WorkersInv, Busy, Leaving
  <2>3. LinkInv'
    BY <1>1, <2>1 DEF OwnersInv, LinkInv
  <2>4. /\ call[t] = "none" /\ call'[t] = "deactivate"
        /\ \A u \in Callers \ {t} : call'[u] = call[u]
    BY <1>3, CallMoves, BridgeCallers DEF DisconnectClose, TypeOK
  <2>5. CallInv'
    BY <1>1, <2>1, <2>4, BridgeCallers DEF OwnersInv, CallInv
  <2>6. StopInv'
    BY <1>1, <2>1 DEF OwnersInv, StopInv
  <2> QED BY <2>2, <2>3, <2>5, <2>6 DEF OwnersInv
<1>4. CASE DisconnectReturns(t)
  <2>1. /\ worker[t].pc = "teardown" /\ worker'[t].pc = "off" /\ worker'[other] = worker[other]
        /\ UNCHANGED <<clientFd, clientConnected, playback, link>>
    <3>1. /\ worker[t].pc = "teardown" /\ worker' = Exits(worker, t)
          /\ UNCHANGED <<clientFd, clientConnected, playback, link>>
      BY <1>4 DEF DisconnectReturns
    <3>2. other \in Workers /\ other # t
      OBVIOUS
    <3> HIDE DEF other
    <3> QED BY <1>1, <3>1, <3>2, WorkerEnds
  <2>2. ConsumerInv' /\ WorkersInv'
    BY <1>1, <2>1 DEF OwnersInv, ConsumerInv, WorkersInv, Busy, Leaving
  <2>3. LinkInv'
    BY <1>1, <2>1 DEF OwnersInv, LinkInv
  <2>4. call'[t] = "none" /\ \A u \in Callers \ {t} : call'[u] = call[u]
    BY <1>4, CallMoves, BridgeCallers DEF DisconnectReturns, TypeOK
  <2>5. CallInv'
    BY <1>1, <2>1, <2>4, BridgeCallers DEF OwnersInv, CallInv
  <2>6. StopInv'
    BY <1>1, <2>1 DEF OwnersInv, StopInv
  <2> QED BY <2>2, <2>3, <2>5, <2>6 DEF OwnersInv
<1> QED BY <1>2, <1>3, <1>4 DEF Disconnecting

\* What the bridge is told by the backend's threads only wakes the writer.
LEMMA BackendMoves == TypeOK /\ (Publishing \/ fill_playback_samples) => MovesOn
<1> SUFFICES ASSUME TypeOK, Publishing \/ fill_playback_samples PROVE MovesOn
  OBVIOUS
<1>1. worker' = worker \/ worker' = Notify(worker)
  BY DEF Publishing, publish_speaker_start, publish_speaker_stop, AudioBegin, AudioEnd,
     fill_playback_samples, EnqueueIfConnected, enqueue_frame_locked
<1>2. UNCHANGED <<running, clientFd, clientConnected, listening, accept, stopper, link>>
  BY DEF Publishing, publish_speaker_start, publish_speaker_stop, AudioBegin, AudioEnd,
     fill_playback_samples
<1>3. worker \in [{"reader", "writer"} -> Thread(WorkerPcs)] /\ "off" \in WorkerPcs
  BY DEF TypeOK, WorkerPcs
<1> QED BY <1>1, <1>2, <1>3, WorkerMoves DEF MovesOn, Workers

\* The backend's threads change no owner: they only wake the writer.
LEMMA BackendOwners == TypeOK /\ OwnersInv /\ (Publishing \/ fill_playback_samples) => OwnersInv'
<1> SUFFICES ASSUME TypeOK, OwnersInv, Publishing \/ fill_playback_samples PROVE OwnersInv'
  OBVIOUS
<1> USE DEF Workers
<1>1. worker' = worker \/ worker' = Notify(worker)
  BY DEF Publishing, publish_speaker_start, publish_speaker_stop, AudioBegin, AudioEnd,
     fill_playback_samples, EnqueueIfConnected, enqueue_frame_locked
<1>2. UNCHANGED <<running, clientFd, clientConnected, listening, accept, stopper, link, call>>
  BY DEF Publishing, publish_speaker_start, publish_speaker_stop, AudioBegin, AudioEnd,
     fill_playback_samples
<1>3. /\ MovesOn /\ worker'["reader"].pc = worker["reader"].pc
      /\ worker["writer"].pc = "teardown" => worker'["writer"].pc = "teardown"
  <2>1. worker \in [Workers -> Thread(WorkerPcs)] /\ "off" \in WorkerPcs
    BY DEF TypeOK, WorkerPcs
  <2> QED BY <1>1, <2>1, BackendMoves, WorkerMoves DEF Busy, Leaving
<1>4. CallInv'
  BY <1>2, <1>3, CallKept DEF OwnersInv
<1>5. CASE playback' = playback
  BY <1>3, <1>4, <1>5, MovesOnInv DEF OwnersInv
<1>6. CASE fill_playback_samples
  <2>1. stopper.pc \notin {"deactivate", "done"}
    BY <1>6, NoPlaybackType DEF fill_playback_samples, OwnersInv, StopInv
  <2>2. ConsumerInv' /\ WorkersInv' /\ LinkInv' /\ StopInv'
    BY <1>3, <2>1, MovesOnInv
  <2> QED BY <1>4, <2>2 DEF OwnersInv
<1> QED BY <1>5, <1>6 DEF Publishing, publish_speaker_start, publish_speaker_stop, AudioBegin, AudioEnd

\* stop() takes nobody's connection away: it joins who owns one first.
LEMMA StoppingOwners == TypeOK /\ OwnersInv /\ Stopping => OwnersInv'
<1> SUFFICES ASSUME TypeOK, OwnersInv, Stopping PROVE OwnersInv'
  OBVIOUS
<1> USE DEF StopGoes, Workers
<1>1. /\ worker \in [Workers -> Thread(WorkerPcs)] /\ accept \in Thread(AcceptPcs)
      /\ stopper \in [pc : StopperPcs, fd : Fds \cup {NoFd}]
      /\ link \in [Fds -> {"unused", "open", "hungup", "closed"}]
  BY DEF TypeOK
<1>2. CASE StopBegin
  <2>1. /\ UNCHANGED <<clientFd, clientConnected, playback, listening, accept, link, call>>
        /\ worker' = Notify(worker) /\ stopper.pc = "idle" /\ stopper'.pc = "request"
    BY <1>2 DEF StopBegin
  <2>2. /\ \A t \in Workers :
             /\ worker'[t].fd = worker[t].fd
             /\ worker'[t].pc = worker[t].pc \/ {worker[t].pc, worker'[t].pc} \subseteq Busy
        /\ worker'["reader"].pc = worker["reader"].pc
    <3>1. "off" \in WorkerPcs
      BY DEF WorkerPcs
    <3> QED BY <1>1, <2>1, <3>1, WorkerMoves
  <2>3. ConsumerInv' /\ WorkersInv' /\ LinkInv'
    BY <2>1, <2>2 DEF OwnersInv, ConsumerInv, WorkersInv, LinkInv, Busy, Leaving
  <2>4. CallInv' /\ StopInv'
    BY <2>1, <2>2 DEF OwnersInv, CallInv, StopInv, Busy, Leaving
  <2> QED BY <2>3, <2>4 DEF OwnersInv
<1>3. CASE StopRequest \/ StopShutdown
  <2>1. /\ UNCHANGED <<running, clientFd, clientConnected, playback, call>>
        /\ accept'.pc = accept.pc /\ accept'.fd = accept.fd
        /\ \A t \in Workers : worker'[t].fd = worker[t].fd /\ worker'[t].pc = worker[t].pc
        /\ \/ stopper.pc = "request" /\ stopper'.pc = "shutdown"
           \/ stopper.pc = "shutdown" /\ stopper'.pc = "joinAccept" /\ ~listening'
    BY <1>1, <1>3 DEF StopRequest, StopShutdown, Thread
  <2>2. \A f \in Fds : link'[f] \in {"open", "hungup"} => link[f] \in {"open", "hungup"}
    BY <1>1, <1>3 DEF StopRequest, StopShutdown, HungUp
  <2>3. ConsumerInv' /\ WorkersInv'
    BY <2>1 DEF OwnersInv, ConsumerInv, WorkersInv
  <2>4. LinkInv'
    BY <2>1, <2>2 DEF OwnersInv, LinkInv
  <2>5. CallInv' /\ StopInv'
    BY <2>1 DEF OwnersInv, CallInv, StopInv
  <2> QED BY <2>3, <2>4, <2>5 DEF OwnersInv
<1>4. CASE StopJoins
  <2>1. UNCHANGED <<running, clientFd, clientConnected, playback, call, accept, worker, link, listening>>
    BY <1>4 DEF StopJoins
  <2>2. /\ stopper.pc \in {"joinAccept", "joinReader", "joinWriter"}
        /\ stopper'.pc \in {"joinReader", "joinWriter", "reset"}
        /\ stopper'.pc = "joinReader" => accept.pc = "exited"
        /\ stopper'.pc = "joinWriter" => stopper.pc = "joinReader" /\ worker["reader"].pc = "off"
        /\ stopper'.pc = "reset" => stopper.pc = "joinWriter" /\ worker["writer"].pc = "off"
    BY <1>1, <1>4 DEF StopJoins
  <2>3. ConsumerInv' /\ WorkersInv' /\ LinkInv'
    BY <2>1 DEF OwnersInv, ConsumerInv, WorkersInv, LinkInv
  <2>4. CallInv' /\ StopInv'
    BY <2>1, <2>2 DEF OwnersInv, CallInv, StopInv
  <2> QED BY <2>3, <2>4 DEF OwnersInv
<1>5. CASE StopReset
  <2>1. /\ UNCHANGED <<running, accept, worker, listening>>
        /\ ~clientConnected' /\ clientFd' = NoFd /\ playback' = NoPlayback
        /\ stopper.pc = "reset" /\ stopper'.pc = "deactivate"
    BY <1>1, <1>5 DEF StopReset
  <2>2. /\ accept.pc = "exited" /\ worker["reader"].pc = "off" /\ worker["writer"].pc = "off"
        /\ ~listening
    BY <2>1 DEF OwnersInv, StopInv
  <2>3. \A f \in Fds : link[f] \notin {"open", "hungup"}
    BY <2>2 DEF OwnersInv, LinkInv, ConsumerInv, Busy
  <2>4. ConsumerInv' /\ WorkersInv' /\ StopInv'
    BY <2>1, <2>2 DEF OwnersInv, ConsumerInv, WorkersInv, StopInv
  <2>5. LinkInv'
    BY <1>1, <1>5, <2>3 DEF StopReset, LinkInv
  <2>6. call'["stop"] = "deactivate" /\ \A u \in Callers \ {"stop"} : call'[u] = call[u]
    BY <1>5, CallMoves, BridgeCallers DEF StopReset, TypeOK
  <2>7. CallInv'
    BY <2>1, <2>6, BridgeCallers DEF OwnersInv, CallInv
  <2> QED BY <2>4, <2>5, <2>7 DEF OwnersInv
<1>6. CASE StopReturns
  <2>1. /\ UNCHANGED <<running, clientFd, clientConnected, playback, accept, worker, link, listening>>
        /\ stopper.pc = "deactivate" /\ stopper'.pc = "done"
    BY <1>1, <1>6 DEF StopReturns
  <2>2. call'["stop"] = "none" /\ \A u \in Callers \ {"stop"} : call'[u] = call[u]
    BY <1>6, CallMoves, BridgeCallers DEF StopReturns, TypeOK
  <2>3. ConsumerInv' /\ WorkersInv' /\ LinkInv'
    BY <2>1 DEF OwnersInv, ConsumerInv, WorkersInv, LinkInv
  <2>4. CallInv' /\ StopInv'
    BY <2>1, <2>2, BridgeCallers DEF OwnersInv, CallInv, StopInv
  <2> QED BY <2>3, <2>4 DEF OwnersInv
<1> QED BY <1>2, <1>3, <1>4, <1>5, <1>6 DEF Stopping

\* Everything has its one owner after every step.
LEMMA OwnersStep == TypeOK /\ OwnersInv /\ [Next]_vars => OwnersInv'
<1> SUFFICES ASSUME TypeOK, OwnersInv, [Next]_vars PROVE OwnersInv'
  OBVIOUS
<1>1. CASE Start
  <2>1. /\ UNCHANGED <<clientFd, clientConnected, playback, worker, stopper, link, call>>
        /\ ~running /\ stopper.pc = "idle" /\ running' /\ accept'.pc = "loop"
        /\ accept'.fd = accept.fd
    BY <1>1 DEF Start, TypeOK, Thread
  <2>2. accept.pc = "off"
    BY <2>1 DEF OwnersInv, StopInv
  <2>3. ConsumerInv' /\ WorkersInv' /\ LinkInv'
    BY <2>1, <2>2 DEF OwnersInv, ConsumerInv, WorkersInv, LinkInv
  <2>4. CallInv' /\ StopInv'
    BY <2>1 DEF OwnersInv, CallInv, StopInv
  <2> QED BY <2>3, <2>4 DEF OwnersInv
<1>2. ASSUME NEW f \in Fds, PeerHangsUp(f) PROVE OwnersInv'
  <2>1. /\ UNCHANGED <<running, clientFd, clientConnected, playback, accept, worker, stopper,
                       listening, call>>
        /\ \A g \in Fds : link'[g] \in {"open", "hungup"} => link[g] \in {"open", "hungup"}
    BY <1>2 DEF PeerHangsUp, HungUp, TypeOK
  <2>2. ConsumerInv' /\ WorkersInv' /\ CallInv' /\ StopInv'
    BY <2>1 DEF OwnersInv, ConsumerInv, WorkersInv, CallInv, StopInv
  <2>3. LinkInv'
    BY <2>1 DEF OwnersInv, LinkInv
  <2> QED BY <2>2, <2>3 DEF OwnersInv
<1>3. ASSUME NEW t \in {"reader", "writer", "stop"}, ControlAnswers(t) PROVE OwnersInv'
  <2>1. UNCHANGED <<running, clientFd, clientConnected, playback, accept, worker, stopper,
                    listening, link>>
    BY <1>3 DEF ControlAnswers
  <2>2. call[t] # "none" /\ \A u \in Callers \ {t} : call'[u] = call[u]
    BY <1>3, CallMoves, BridgeCallers DEF ControlAnswers, TypeOK
  <2>3. ConsumerInv' /\ WorkersInv' /\ LinkInv' /\ StopInv'
    BY <2>1 DEF OwnersInv, ConsumerInv, WorkersInv, LinkInv, StopInv
  <2>4. CallInv'
    BY <2>1, <2>2, BridgeCallers DEF OwnersInv, CallInv, Workers
  <2> QED BY <2>3, <2>4 DEF OwnersInv
<1>4. CASE UNCHANGED vars
  BY <1>4 DEF vars, OwnersInv, ConsumerInv, WorkersInv, LinkInv, CallInv, StopInv
<1> QED
  BY <1>1, <1>2, <1>3, <1>4, AcceptingOwners, ReadingOwners, WritingOwners, DisconnectingOwners,
     BackendOwners, StoppingOwners DEF Next, BridgeNext, Workers

\* Every connection, thread and control call of the bridge has one owner, whatever
\* the consumers send, whoever hangs up and whenever stop() is called.
THEOREM OwnersCorrect == Spec => []OwnersInv
BY OwnersInit, OwnersStep, TypeCorrect, PTL DEF Spec

\* A consumer that counts as connected has a reader that will notice its hang-up.
THEOREM ConsumersAreServed == Spec => []ConsumerHasReader
<1>1. OwnersInv => ConsumerHasReader
  BY DEF OwnersInv, ConsumerInv, ConsumerHasReader, Busy, Leaving
<1> QED BY <1>1, OwnersCorrect, PTL

\* After stop() no thread, connection, session or control call is left.
THEOREM StopLeavesNoOne == Spec => []StoppedClean
<1>1. TypeOK /\ OwnersInv => StoppedClean
  <2> SUFFICES ASSUME TypeOK, OwnersInv, stopper.pc = "done"
               PROVE  /\ ~clientConnected /\ ~listening /\ playback = NoPlayback
                      /\ accept.pc = "exited" /\ \A t \in DOMAIN worker : worker[t].pc = "off"
                      /\ \A f \in Fds : link[f] \in {"unused", "closed"}
                      /\ \A t \in Callers : call[t] = "none"
    BY DEF StoppedClean
  <2>1. /\ ~clientConnected /\ ~listening /\ playback = NoPlayback /\ accept.pc = "exited"
        /\ worker["reader"].pc = "off" /\ worker["writer"].pc = "off"
    BY DEF OwnersInv, StopInv
  <2>2. DOMAIN worker = Workers /\ link \in [Fds -> {"unused", "open", "hungup", "closed"}]
    BY DEF TypeOK, Workers
  <2>3. \A f \in Fds : link[f] \in {"unused", "closed"}
    BY <2>1, <2>2 DEF OwnersInv, LinkInv, Workers
  <2>4. \A t \in Callers : call[t] = "none"
    BY <2>1 DEF OwnersInv, CallInv, Workers
  <2> QED BY <2>1, <2>2, <2>3, <2>4 DEF Workers
<1> QED BY <1>1, OwnersCorrect, TypeCorrect, PTL

-----------------------------------------------------------------------------
(* What a consumer is told.  As long as no number is handed out twice, who *)
(* has one in hand and who is behind it cannot change under a thread: this *)
(* section assumes ~FdReuse, without which a writer that is late for its   *)
(* consumer can write to the next one.                                     *)

\* A number that serves, is served or is in hand was handed out, and the accept
\* thread has one of its own in hand, to which nothing was written yet.
NumbersInv ==
    /\ \A t \in Workers : worker[t].pc # "off" => link[worker[t].fd] # "unused"
    /\ clientConnected => link[clientFd] # "unused"
    /\ accept.pc \in {"check", "install", "spawn"} =>
         link[accept.fd] # "unused" /\ heard[accept.fd] = Unheard
    /\ accept.pc \in {"check", "install"} =>
         /\ clientConnected => clientFd # accept.fd
         /\ \A t \in Workers : worker[t].pc # "off" => worker[t].fd # accept.fd

\* The number in service, once its threads run, is theirs, and none has left it.
LEMMA InService ==
    ASSUME OwnersInv, clientConnected
    PROVE  /\ clientFd \in Fds
           /\ \A t \in Workers : worker[t].pc # "off" =>
                /\ worker[t].fd = clientFd /\ worker[t].pc \notin Leaving
                /\ accept.pc # "spawn"
BY DEF OwnersInv, ConsumerInv, WorkersInv, Workers, Busy, Leaving

\* The workers that run after a step of theirs ran before it, with their numbers.
WorkersStay ==
    \A t \in Workers : worker'[t].pc # "off" =>
        worker[t].pc # "off" /\ worker'[t].fd = worker[t].fd

\* A step of the workers that leaves links and accepting alone keeps the numbers.
LEMMA NumbersKept ==
    ASSUME TypeOK, NumbersInv, WorkersStay,
           \A f \in Fds : link'[f] = "unused" => link[f] = "unused",
           link' \in [Fds -> {"unused", "open", "hungup", "closed"}],
           accept'.pc = accept.pc, accept'.fd = accept.fd,
           accept.pc \in {"check", "install", "spawn"} =>
               accept.fd \in Fds /\ heard'[accept.fd] = heard[accept.fd],
           \A t \in Workers : worker'[t].pc # "off" => worker'[t].fd \in Fds,
           clientConnected' => clientConnected /\ clientFd' = clientFd /\ clientFd \in Fds
    PROVE  NumbersInv'
BY DEF NumbersInv, WorkersStay

\* The writer runs on with its connection or ends.
LEMMA WritingMoves ==
    ASSUME TypeOK, Writing
    PROVE  /\ WorkersStay
           /\ UNCHANGED <<clientFd, clientConnected, accept, link>>
           /\ \/ UNCHANGED heard
              \/ /\ worker["writer"].pc = "write"
                 /\ heard' = [heard EXCEPT ![worker["writer"].fd] = Learns(@, writerFrame)]
<1> USE DEF Workers
<1>1. /\ worker \in [Workers -> Thread(WorkerPcs)]
      /\ worker["writer"].pc \in {"loop", "write"}
      /\ \/ worker' = Exits(worker, "writer")
         \/ \E pc \in {"asleep", "write", "loop", "leave"} : worker' = Goes(worker, "writer", pc)
  BY DEF TypeOK, Writing, WriterQuits, WriterSleeps, WriterPops, WriterWrites, WriterFails
<1>2. WorkersStay
  <2>1. {"asleep", "write", "loop", "leave", "off"} \subseteq WorkerPcs
    BY DEF WorkerPcs
  <2> QED BY <1>1, <2>1, WorkerMoves DEF WorkersStay
<1> QED BY <1>2 DEF Writing, WriterQuits, WriterSleeps, WriterPops, WriterWrites, WriterFails

\* A thread that disconnects runs on with its number or ends.
LEMMA DisconnectingMoves ==
    ASSUME TypeOK, NEW t \in Workers, Disconnecting(t)
    PROVE  /\ WorkersStay
           /\ UNCHANGED accept
           /\ \A f \in Fds : link'[f] = "unused" => link[f] = "unused"
           /\ clientConnected' => clientConnected /\ clientFd' = clientFd
           /\ \/ UNCHANGED heard
              \/ /\ worker[t].pc = "close"
                 /\ heard' = [heard EXCEPT ![worker[t].fd] = Unheard]
<1> USE DEF Workers
<1>1. /\ worker \in [Workers -> Thread(WorkerPcs)] /\ Notify(worker) \in [Workers -> Thread(WorkerPcs)]
      /\ {"close", "teardown", "off"} \subseteq WorkerPcs
      /\ worker[t].pc # "off"
  BY WorkerTypes DEF TypeOK, WorkerPcs, Disconnecting, DisconnectLock, DisconnectClose, DisconnectReturns
<1>2. \/ worker' = Exits(worker, t) \/ worker' = Goes(Notify(worker), t, "close")
      \/ worker' = Goes(worker, t, "teardown")
  BY DEF Disconnecting, DisconnectLock, DisconnectClose, DisconnectReturns
<1>3. WorkersStay
  <2>1. ASSUME NEW u \in Workers
        PROVE  /\ Notify(worker)[u].fd = worker[u].fd
               /\ worker[u].pc = "off" => Notify(worker)[u].pc = "off"
    BY <1>1, WorkerMoves DEF Busy
  <2> QED BY <1>1, <1>2, <2>1, WorkerMoves DEF WorkersStay
<1>4. \A f \in Fds : link'[f] = "unused" => link[f] = "unused"
  BY DEF TypeOK, Disconnecting, DisconnectLock, DisconnectClose, DisconnectReturns
<1>5. /\ UNCHANGED accept
      /\ clientConnected' => clientConnected /\ clientFd' = clientFd
      /\ \/ UNCHANGED heard
         \/ /\ worker[t].pc = "close"
            /\ heard' = [heard EXCEPT ![worker[t].fd] = Unheard]
  BY DEF Disconnecting, DisconnectLock, DisconnectClose, DisconnectReturns
<1> QED BY <1>3, <1>4, <1>5

\* Every number in use is accounted for after every step, if none is reused.
LEMMA NumbersStep ==
    ASSUME ~FdReuse, TypeOK, OwnersInv, NumbersInv, [Next]_vars
    PROVE  NumbersInv'
<1> USE DEF Workers
<1>0. /\ TypeOK' /\ worker \in [Workers -> Thread(WorkerPcs)] /\ accept \in Thread(AcceptPcs)
      /\ link \in [Fds -> {"unused", "open", "hungup", "closed"}]
      /\ link' \in [Fds -> {"unused", "open", "hungup", "closed"}]
      /\ heard \in [Fds -> [Statements -> {"unheard", "on", "off"}]]
  BY TypeStep DEF TypeOK
<1>1. /\ accept.pc \in {"check", "install", "spawn"} => accept.fd \in Fds
      /\ clientConnected => clientFd \in Fds
      /\ \A t \in Workers : worker[t].pc # "off" => worker[t].fd \in Fds
      /\ accept.pc = "spawn" => \A t \in Workers : worker[t].pc = "off"
  BY DEF OwnersInv, ConsumerInv, WorkersInv
<1>2. ASSUME WorkersStay,
             \A f \in Fds : link'[f] = "unused" => link[f] = "unused",
             accept'.pc = accept.pc, accept'.fd = accept.fd,
             accept.pc \in {"check", "install", "spawn"} => heard'[accept.fd] = heard[accept.fd],
             clientConnected' => clientConnected /\ clientFd' = clientFd
      PROVE  NumbersInv'
  BY <1>0, <1>1, <1>2 DEF NumbersInv, WorkersStay
<1>3. CASE Accepting
  <2>1. CASE AcceptLoop \/ AcceptFails \/ AcceptFree
    <3>1. /\ UNCHANGED <<clientFd, clientConnected, worker, link, heard>>
          /\ accept'.fd = accept.fd
          /\ accept'.pc \in {"check", "install", "spawn"} => accept.pc = "check" /\ accept'.pc = "install"
      BY <1>0, <2>1 DEF AcceptLoop, AcceptFails, AcceptFree, AcceptGoes, Thread
    <3> QED BY <3>1 DEF NumbersInv
  <2>2. ASSUME NEW f \in Fds, AcceptConn(f) PROVE NumbersInv'
    <3>1. /\ UNCHANGED <<clientFd, clientConnected, worker>>
          /\ accept'.pc = "check" /\ accept'.fd = f /\ link[f] = "unused"
          /\ link'[f] = "open" /\ \A g \in Fds \ {f} : link'[g] = link[g]
          /\ heard'[f] = Unheard
      BY <1>0, <2>2 DEF AcceptConn, Thread
    <3>2. /\ clientConnected => clientFd # f
          /\ \A t \in Workers : worker[t].pc # "off" => worker[t].fd # f
      BY <3>1 DEF NumbersInv
    <3> QED BY <1>1, <3>1, <3>2 DEF NumbersInv
  <2>3. CASE AcceptBusy
    <3>1. /\ UNCHANGED <<clientFd, clientConnected, worker>>
          /\ accept.pc = "check" /\ accept'.pc = "loop" /\ link' = [link EXCEPT ![accept.fd] = "closed"]
      BY <1>0, <2>3 DEF AcceptBusy, Thread
    <3>2. \A g \in Fds : link'[g] = "unused" => link[g] = "unused"
      BY <1>0, <3>1
    <3> QED BY <1>1, <3>1, <3>2 DEF NumbersInv
  <2>4. CASE AcceptInstall
    <3>1. /\ UNCHANGED <<worker, link, heard>>
          /\ clientFd' = accept.fd /\ accept.pc = "install" /\ accept'.pc = "spawn"
          /\ accept'.fd = accept.fd
      BY <1>0, <2>4 DEF AcceptInstall, AcceptGoes, Thread
    <3> QED BY <1>1, <3>1 DEF NumbersInv
  <2>5. CASE AcceptSpawn
    <3>1. /\ UNCHANGED <<clientFd, clientConnected, link>>
          /\ accept.pc = "spawn" /\ accept'.pc = "loop"
          /\ \A t \in Workers : worker'[t].fd = accept.fd
      BY <1>0, <2>5 DEF AcceptSpawn, Thread
    <3> QED BY <1>1, <3>1 DEF NumbersInv
  <2> QED BY <1>3, <2>1, <2>2, <2>3, <2>4, <2>5 DEF Accepting
<1>4. CASE Reading \/ Publishing \/ fill_playback_samples
  <2>1. MovesOn
    BY <1>4, ReadingMoves, BackendMoves
  <2>2. WorkersStay
    BY <2>1 DEF MovesOn, WorkersStay, Busy
  <2>3. UNCHANGED heard
    BY <1>4 DEF Reading, ReaderLoop, ReadInvalid, ReadStatus, ReadStart, StartReturns, ReadChunk,
       ReadStop, ReadClear, DeactivateReturns, ReadEof, Reads, Publishing, publish_speaker_start,
       publish_speaker_stop, AudioBegin, AudioEnd, fill_playback_samples
  <2> QED BY <1>2, <2>1, <2>2, <2>3 DEF MovesOn
<1>5. CASE Writing
  <2>1. accept.pc \in {"check", "install", "spawn"} => heard'[accept.fd] = heard[accept.fd]
    BY <1>0, <1>1, <1>5, WritingMoves DEF NumbersInv
  <2> QED BY <1>2, <1>5, <2>1, WritingMoves
<1>6. ASSUME NEW t \in Workers, Disconnecting(t) PROVE NumbersInv'
  <2>1. accept.pc \in {"check", "install", "spawn"} => heard'[accept.fd] = heard[accept.fd]
    BY <1>0, <1>1, <1>6, DisconnectingMoves DEF NumbersInv
  <2>2. /\ WorkersStay /\ UNCHANGED accept
        /\ \A f \in Fds : link'[f] = "unused" => link[f] = "unused"
        /\ clientConnected' => clientConnected /\ clientFd' = clientFd
    BY <1>6, DisconnectingMoves, Zenon
  <2>3. accept'.pc = accept.pc /\ accept'.fd = accept.fd
    BY <2>2
  <2> QED BY <1>2, <2>1, <2>2, <2>3, Zenon
<1>7. CASE Stopping
  <2>0. UNCHANGED heard
    BY <1>7 DEF Stopping, StopBegin, StopRequest, StopShutdown, StopJoins, StopReset, StopReturns
  <2>1. WorkersStay
    <3>1. \/ worker' = worker \/ worker' = Notify(worker)
          \/ worker' = [u \in DOMAIN worker |-> [worker[u] EXCEPT !.stop = TRUE]]
      BY <1>7 DEF Stopping, StopBegin, StopRequest, StopShutdown, StopJoins, StopReset, StopReturns
    <3>2. CASE worker' = Notify(worker)
      <4>1. \A u \in Workers :
              /\ worker'[u].fd = worker[u].fd
              /\ worker'[u].pc # "off" => worker[u].pc # "off"
        BY <1>0, <3>2, WorkerWakes
      <4> QED BY <4>1 DEF WorkersStay
    <3>3. CASE worker' = [u \in DOMAIN worker |-> [worker[u] EXCEPT !.stop = TRUE]]
      BY <1>0, <3>3 DEF WorkersStay, Thread
    <3> QED BY <3>1, <3>2, <3>3 DEF WorkersStay
  <2>2. /\ accept'.pc = accept.pc /\ accept'.fd = accept.fd
        /\ clientConnected' => clientConnected /\ clientFd' = clientFd
    BY <1>0, <1>7 DEF Stopping, StopBegin, StopRequest, StopShutdown, StopJoins, StopReset,
       StopReturns, Thread
  <2>3. \A f \in Fds : link'[f] = "unused" => link[f] = "unused"
    BY <1>0, <1>7 DEF Stopping, StopBegin, StopRequest, StopShutdown, StopJoins, StopReset,
       StopReturns, HungUp
  <2> QED BY <1>2, <2>0, <2>1, <2>2, <2>3
<1>8. CASE Start
  <2>1. /\ UNCHANGED <<clientFd, clientConnected, worker, link, heard>> /\ accept'.pc = "loop"
    BY <1>0, <1>8 DEF Start, Thread
  <2> QED BY <2>1 DEF NumbersInv
<1>9. CASE (\E f \in Fds : PeerHangsUp(f))
            \/ (\E t \in {"reader", "writer", "stop"} : ControlAnswers(t)) \/ UNCHANGED vars
  <2>1. UNCHANGED <<clientFd, clientConnected, worker, accept, heard>>
    BY <1>9 DEF PeerHangsUp, ControlAnswers, vars
  <2>2. \A f \in Fds : link'[f] = "unused" => link[f] = "unused"
    BY <1>0, <1>9 DEF PeerHangsUp, ControlAnswers, vars, HungUp
  <2> QED BY <1>2, <2>1, <2>2 DEF WorkersStay
<1> QED BY <1>3, <1>4, <1>5, <1>6, <1>7, <1>8, <1>9 DEF Next, BridgeNext
-----------------------------------------------------------------------------
(* What a queue, a frame in hand and what was heard add up to.             *)

Says(queue, t) == \E i \in DOMAIN queue : queue[i].topic = t

SaysLast(queue, t, b) ==
    \E i \in DOMAIN queue :
        /\ queue[i] = Frame(t, b)
        /\ \A j \in DOMAIN queue : j > i => queue[j].topic # t

\* What who heard h believes on t in the end, after the frame that is being
\* written to it, if held, and the queue: WillHear over any of these.
Told(queue, held, frame, h, t, b) ==
    \/ SaysLast(queue, t, b)
    \/ ~Says(queue, t) /\ held /\ frame.topic = t /\ frame.on = b
    \/ ~Says(queue, t) /\ ~(held /\ frame.topic = t) /\ h[t] = IF b THEN "on" ELSE "off"

\* A frame that is queued has the last word on its topic, and none on another.
LEMMA ToldAppend ==
    ASSUME NEW q \in Seq(Frames), NEW new \in Frames, NEW held \in BOOLEAN, NEW frame,
           NEW h, NEW t, NEW b \in BOOLEAN
    PROVE  Told(Append(q, new), held, frame, h, t, b) <=>
               IF new.topic = t THEN new.on = b ELSE Told(q, held, frame, h, t, b)
<1> DEFINE n == Len(q)
           r == Append(q, new)
<1>1. /\ n \in Nat /\ DOMAIN q = 1 .. n /\ DOMAIN r = 1 .. n + 1 /\ n + 1 \in DOMAIN r
      /\ r[n + 1] = new /\ \A i \in 1 .. n : r[i] = q[i]
  OBVIOUS
<1>2. \A i \in 1 .. n + 1 : i = n + 1 \/ (i \in 1 .. n /\ n + 1 > i)
  BY <1>1
<1>3. \A i \in 1 .. n : n + 1 > i
  BY <1>1
<1>4. \A i \in 1 .. n + 1 : ~(i > n + 1)
  BY <1>1
<1> HIDE DEF n, r
<1>5. CASE new.topic = t
  <2>1. Says(r, t)
    BY <1>1, <1>5 DEF Says
  <2>2. SaysLast(r, t, b) <=> new = Frame(t, b)
    BY <1>1, <1>2, <1>3, <1>4, <1>5 DEF SaysLast
  <2>3. new = Frame(t, b) <=> new.on = b
    BY <1>5 DEF Frame, Frames
  <2> QED BY <1>5, <2>1, <2>2, <2>3 DEF Told, r
<1>6. CASE new.topic # t
  <2>1. Says(r, t) <=> Says(q, t)
    BY <1>1, <1>2, <1>6 DEF Says
  <2>2. new # Frame(t, b)
    BY <1>6 DEF Frame
  <2>3. SaysLast(r, t, b) <=> SaysLast(q, t, b)
    BY <1>1, <1>2, <1>6, <2>2 DEF SaysLast
  <2> QED BY <1>6, <2>1, <2>3 DEF Told, r
<1> QED BY <1>5, <1>6

\* A frame that is popped is in hand instead, and says what it said.
LEMMA ToldPop ==
    ASSUME NEW q \in Seq(Frames), q # <<>>, NEW frame, NEW h, NEW t, NEW b \in BOOLEAN
    PROVE  Told(Tail(q), TRUE, Head(q), h, t, b) <=> Told(q, FALSE, frame, h, t, b)
<1> DEFINE n == Len(q)
           r == Tail(q)
           top == Head(q)
<1>1. /\ n \in Nat /\ n > 0 /\ DOMAIN q = 1 .. n /\ DOMAIN r = 1 .. n - 1 /\ top = q[1]
      /\ 1 \in DOMAIN q /\ \A i \in 1 .. n - 1 : r[i] = q[i + 1]
      /\ top \in Frames
  BY HeadTailProperties
<1>2. \A i \in 1 .. n : i = 1 \/ (i - 1 \in 1 .. n - 1 /\ i = (i - 1) + 1 /\ i > 1)
  BY <1>1
<1>3. \A i \in 1 .. n - 1 : i + 1 \in 1 .. n /\ i + 1 > 1
  BY <1>1
<1> HIDE DEF n, r, top
<1>4. \A i \in 1 .. n : i = 1 \/ (i - 1 \in DOMAIN r /\ q[i] = r[i - 1])
  BY <1>1, <1>2
<1>5. Says(q, t) <=> Says(r, t) \/ top.topic = t
  <2>1. Says(r, t) \/ top.topic = t => Says(q, t)
    BY <1>1, <1>3 DEF Says
  <2>2. Says(q, t) => Says(r, t) \/ top.topic = t
    BY <1>1, <1>4 DEF Says
  <2> QED BY <2>1, <2>2
<1>6. SaysLast(r, t, b) => SaysLast(q, t, b)
  <2> SUFFICES ASSUME NEW i \in 1 .. n - 1, r[i] = Frame(t, b),
                      \A j \in 1 .. n - 1 : j > i => r[j].topic # t
               PROVE  SaysLast(q, t, b)
    BY <1>1 DEF SaysLast
  <2>1. i + 1 \in 1 .. n /\ q[i + 1] = Frame(t, b)
    BY <1>1, <1>3
  <2>2. ASSUME NEW j \in 1 .. n, j > i + 1 PROVE q[j].topic # t
    <3>1. j - 1 \in 1 .. n - 1 /\ j - 1 > i /\ j = (j - 1) + 1
      BY <1>1, <2>2
    <3> QED BY <1>1, <3>1
  <2> QED BY <1>1, <2>1, <2>2 DEF SaysLast
<1>7. SaysLast(q, t, b) => SaysLast(r, t, b) \/ (~Says(r, t) /\ top = Frame(t, b))
  <2> SUFFICES ASSUME NEW i \in 1 .. n, q[i] = Frame(t, b),
                      \A j \in 1 .. n : j > i => q[j].topic # t
               PROVE  SaysLast(r, t, b) \/ (~Says(r, t) /\ top = Frame(t, b))
    BY <1>1 DEF SaysLast
  <2>1. CASE i = 1
    BY <1>1, <1>3, <2>1 DEF Says
  <2>2. CASE i # 1
    <3>1. i - 1 \in 1 .. n - 1 /\ r[i - 1] = Frame(t, b)
      BY <1>1, <1>2, <2>2
    <3>2. ASSUME NEW j \in 1 .. n - 1, j > i - 1 PROVE r[j].topic # t
      <4>1. j + 1 \in 1 .. n /\ j + 1 > i
        BY <1>1, <3>2
      <4> QED BY <1>1, <4>1
    <3> QED BY <1>1, <3>1, <3>2 DEF SaysLast
  <2> QED BY <2>1, <2>2
<1>8. top = Frame(t, b) <=> top.topic = t /\ top.on = b
  BY <1>1 DEF Frame, Frames
<1>9. ~Says(r, t) /\ top = Frame(t, b) => SaysLast(q, t, b)
  <2> SUFFICES ASSUME ~Says(r, t), top = Frame(t, b) PROVE SaysLast(q, t, b)
    OBVIOUS
  <2>1. \A j \in 1 .. n : j > 1 => q[j].topic # t
    <3> SUFFICES ASSUME NEW j \in 1 .. n, j > 1 PROVE q[j].topic # t
      OBVIOUS
    <3>1. j - 1 \in DOMAIN r /\ q[j] = r[j - 1]
      BY <1>1, <1>4
    <3> QED BY <3>1 DEF Says
  <2> QED BY <1>1, <2>1 DEF SaysLast
<1>10. SaysLast(q, t, b) <=> SaysLast(r, t, b) \/ (~Says(r, t) /\ top.topic = t /\ top.on = b)
  BY <1>6, <1>7, <1>8, <1>9
<1> QED BY <1>5, <1>10 DEF Told, r, top

\* A frame that is written was in hand, and says what it said.
LEMMA ToldWrite ==
    ASSUME NEW q, NEW frame \in Frames, NEW other, NEW h \in [Statements -> {"unheard", "on", "off"}],
           NEW t \in Statements, NEW b \in BOOLEAN
    PROVE  Told(q, FALSE, other, Learns(h, frame), t, b) <=> Told(q, TRUE, frame, h, t, b)
<1>1. frame.topic = t => (Learns(h, frame)[t] = (IF b THEN "on" ELSE "off") <=> frame.on = b)
  BY DEF Learns, Frames
<1>2. frame.topic # t => Learns(h, frame)[t] = h[t]
  BY DEF Learns
<1> QED BY <1>1, <1>2 DEF Told
\* Only the first frame of a greeting is a hello.
SaysHello(frame) == frame.topic = "hello" => frame = hello_frame

\* A greeting says hello first, then of each active speaker once that it talks,
\* and of playback nothing.
LEMMA ToldGreeting ==
    ASSUME TypeOK, NEW order \in Replays, NEW frame
    PROVE  /\ \A s \in Speakers :
                Told(Greeting(order), FALSE, frame, Unheard, s, TRUE) <=> s \in activeSpeakers
           /\ \A b \in BOOLEAN : ~Told(Greeting(order), FALSE, frame, Unheard, "playback", b)
           /\ Greeting(order) # <<>> /\ Head(Greeting(order)) = hello_frame
           /\ \A i \in DOMAIN Greeting(order) : SaysHello(Greeting(order)[i])
<1> DEFINE n == Cardinality(activeSpeakers)
           starts == [i \in DOMAIN order |-> speaker_frame(order[i], TRUE)]
           greeting == Greeting(order)
<1>1. n \in Nat /\ IsFiniteSet(activeSpeakers)
  BY BridgeAssumption, FS_Subset, FS_CardinalityType DEF TypeOK
<1>2. /\ order \in [1 .. n -> activeSpeakers] /\ DOMAIN order = 1 .. n
      /\ \A s \in activeSpeakers : \E i \in 1 .. n : order[i] = s
  BY DEF Replays
<1>3. \A i, j \in 1 .. n : order[i] = order[j] => i = j
  <2>1. IsFiniteSet(1 .. n) /\ Cardinality(1 .. n) = n
    <3> HIDE DEF n
    <3> QED BY <1>1, FS_Interval
  <2>2. order \in Surjection(1 .. n, activeSpeakers)
    BY <1>2 DEF Surjection
  <2>3. order \in Injection(1 .. n, activeSpeakers)
    BY <1>1, <2>1, <2>2, FS_SurjSameCardinalityImpliesInj
  <2> HIDE DEF n
  <2> QED BY <2>3 DEF Injection, IsInjective
<1>4. /\ starts \in [1 .. n -> Frames]
      /\ \A i \in 1 .. n : starts[i] = Frame(order[i], TRUE) /\ order[i] \in Speakers
  BY <1>2, FrameTypes DEF TypeOK, speaker_frame
<1>5. starts \in Seq(Frames) /\ Len(starts) = n
  <2> HIDE DEF starts, n
  <2> QED BY <1>1, <1>4
<1>6. greeting = <<hello_frame, status_frame>> \o starts
  BY DEF Greeting
<1> HIDE DEF starts, n, greeting
<1>7. /\ DOMAIN greeting = 1 .. n + 2 /\ greeting[1] = hello_frame /\ greeting[2] = status_frame
      /\ \A i \in 1 .. n : greeting[i + 2] = starts[i]
      /\ Len(greeting) = n + 2
  <2>1. <<hello_frame, status_frame>> \in Seq(Frames) /\ Len(<<hello_frame, status_frame>>) = 2
        /\ <<hello_frame, status_frame>>[1] = hello_frame
        /\ <<hello_frame, status_frame>>[2] = status_frame
    BY FrameTypes
  <2> QED BY <1>1, <1>5, <1>6, <2>1, ConcatProperties
<1>8. /\ 1 \in DOMAIN greeting /\ 2 \in DOMAIN greeting
      /\ \A i \in 1 .. n : i + 2 \in DOMAIN greeting
      /\ \A i \in DOMAIN greeting : i = 1 \/ i = 2 \/ (i - 2 \in 1 .. n /\ i = (i - 2) + 2)
  BY <1>1, <1>7
<1>9. /\ hello_frame.topic = "hello" /\ status_frame.topic = "status"
      /\ \A x \in Speakers : Frame(x, TRUE).topic = x
      /\ \A x \in Speakers : x # "hello" /\ x # "status" /\ x # "playback"
  BY BridgeAssumption DEF hello_frame, status_frame, Frame
<1>10. \A i \in DOMAIN greeting :
         \/ greeting[i] = hello_frame \/ greeting[i] = status_frame
         \/ greeting[i].topic \in activeSpeakers
  <2> SUFFICES ASSUME NEW i \in DOMAIN greeting, i # 1, i # 2
               PROVE  greeting[i].topic \in activeSpeakers
    BY <1>7
  <2>1. i - 2 \in 1 .. n /\ i = (i - 2) + 2
    BY <1>8
  <2>2. greeting[i] = Frame(order[i - 2], TRUE) /\ order[i - 2] \in activeSpeakers
    BY <1>2, <1>4, <1>7, <2>1
  <2>3. order[i - 2] \in Speakers
    BY <2>2 DEF TypeOK
  <2> QED BY <1>9, <2>2, <2>3
<1>11. ASSUME NEW s \in Speakers
       PROVE  Told(greeting, FALSE, frame, Unheard, s, TRUE) <=> s \in activeSpeakers
  <2>1. CASE s \notin activeSpeakers
    <3>1. ~Says(greeting, s)
      BY <1>9, <1>10, <2>1 DEF Says
    <3>2. ~SaysLast(greeting, s, TRUE)
      BY <1>9, <3>1 DEF SaysLast, Says
    <3>3. Unheard[s] = "unheard"
      BY DEF Unheard, Statements
    <3> QED BY <2>1, <3>1, <3>2, <3>3 DEF Told
  <2>2. CASE s \in activeSpeakers
    <3>1. PICK i \in 1 .. n : order[i] = s
      BY <1>2, <2>2
    <3>2. i + 2 \in DOMAIN greeting /\ greeting[i + 2] = Frame(s, TRUE)
      BY <1>4, <1>7, <1>8, <3>1
    <3>3. ASSUME NEW j \in DOMAIN greeting, j > i + 2 PROVE greeting[j].topic # s
      <4>1. j - 2 \in 1 .. n /\ j = (j - 2) + 2 /\ j - 2 # i
        BY <1>1, <1>7, <3>3
      <4>2. greeting[j] = Frame(order[j - 2], TRUE) /\ order[j - 2] \in Speakers
        BY <1>4, <1>7, <4>1
      <4>3. order[j - 2] # s
        BY <1>3, <3>1, <4>1
      <4> QED BY <1>9, <4>2, <4>3
    <3> QED BY <2>2, <3>2, <3>3 DEF Told, SaysLast
  <2> QED BY <2>1, <2>2
<1>12. ASSUME NEW b \in BOOLEAN PROVE ~Told(greeting, FALSE, frame, Unheard, "playback", b)
  <2>1. ~Says(greeting, "playback")
    BY <1>9, <1>10 DEF Says, TypeOK
  <2>2. ~SaysLast(greeting, "playback", b)
    BY <2>1 DEF SaysLast, Says, Frame
  <2>3. Unheard["playback"] = "unheard"
    BY DEF Unheard, Statements
  <2> QED BY <2>1, <2>2, <2>3 DEF Told
<1>13. greeting # <<>> /\ Head(greeting) = hello_frame
  BY <1>1, <1>7
<1>14. \A i \in DOMAIN greeting : SaysHello(greeting[i])
  BY <1>9, <1>10 DEF SaysHello, TypeOK
<1> QED BY <1>11, <1>12, <1>13, <1>14 DEF greeting
\* The writer is writing to the consumer in service.
Held == worker["writer"].pc = "write" /\ worker["writer"].fd = clientFd

\* A step of which the consumer in service sees at most that its queue grows.
Still ==
    /\ Attached /\ clientFd' = clientFd /\ heard'[clientFd] = heard[clientFd]
    /\ Held' <=> Held
    /\ Held => writerFrame' = writerFrame

\* What wakes the writer or moves the reader neither begins nor ends a write.
LEMMA WritesOn ==
    ASSUME NEW w \in [{"reader", "writer"} -> Thread(WorkerPcs)], NEW pc
    PROVE  /\ Notify(w)["writer"].pc = "write" <=> w["writer"].pc = "write"
           /\ Notify(w)["writer"].fd = w["writer"].fd
           /\ Goes(w, "reader", pc)["writer"] = w["writer"]
           /\ Exits(w, "reader")["writer"] = w["writer"]
BY DEF Notify, Goes, Exits, Thread, WorkerPcs

\* The accept thread disturbs no consumer in service.
LEMMA AcceptingStill ==
    ASSUME ~FdReuse, TypeOK, OwnersInv, NumbersInv, Accepting, ~AcceptInstall, Attached'
    PROVE  Still /\ UNCHANGED <<outboundFrames, activeSpeakers, playback>>
<1>1. UNCHANGED <<clientFd, clientConnected, outboundFrames, activeSpeakers, playback, writerFrame>>
  BY DEF Accepting, AcceptLoop, AcceptConn, AcceptFails, AcceptBusy, AcceptFree, AcceptSpawn
<1>2. clientConnected /\ clientFd \in Fds /\ link[clientFd] # "unused"
  BY <1>1, InService DEF Attached, NumbersInv
<1>3. /\ link \in [Fds -> {"unused", "open", "hungup", "closed"}]
      /\ heard \in [Fds -> [Statements -> {"unheard", "on", "off"}]]
  BY DEF TypeOK
<1>4. link[clientFd] = "open" /\ heard'[clientFd] = heard[clientFd]
  <2>1. CASE AcceptLoop \/ AcceptFails \/ AcceptFree \/ AcceptSpawn
    BY <1>1, <2>1 DEF Attached, AcceptLoop, AcceptFails, AcceptFree, AcceptSpawn
  <2>2. ASSUME NEW f \in Fds, AcceptConn(f) PROVE link[clientFd] = "open" /\ heard'[clientFd] = heard[clientFd]
    <3>1. f # clientFd
      BY <1>2, <2>2 DEF AcceptConn
    <3> QED BY <1>1, <1>2, <1>3, <2>2, <3>1 DEF Attached, AcceptConn
  <2>3. CASE AcceptBusy
    BY <1>1, <1>2, <1>3, <2>3 DEF Attached, AcceptBusy
  <2> QED BY <2>1, <2>2, <2>3 DEF Accepting
<1>5. Held' <=> Held
  <2>1. CASE AcceptSpawn
    BY <2>1 DEF AcceptSpawn, Held, OwnersInv, ConsumerInv, Workers
  <2>2. CASE ~AcceptSpawn
    BY <1>1, <2>2 DEF Accepting, AcceptLoop, AcceptConn, AcceptFails, AcceptBusy, AcceptFree, Held
  <2> QED BY <2>1, <2>2
<1> QED BY <1>1, <1>2, <1>4, <1>5 DEF Still, Attached

\* Nor do the reader and the backend's threads, but for what they queue.
LEMMA CallersStill ==
    ASSUME TypeOK, OwnersInv, Reading \/ Publishing \/ fill_playback_samples, Attached'
    PROVE  Still
<1>1. MovesOn
  BY ReadingMoves, BackendMoves
<1>2. UNCHANGED <<writerFrame, heard>>
  BY DEF Reading, ReaderLoop, ReadInvalid, ReadStatus, ReadStart, StartReturns, ReadChunk,
     ReadStop, ReadClear, DeactivateReturns, ReadEof, Reads, Publishing, publish_speaker_start,
     publish_speaker_stop, AudioBegin, AudioEnd, fill_playback_samples
<1>3. worker'["writer"].pc = "write" <=> worker["writer"].pc = "write"
  <2>1. PICK pc \in WorkerPcs :
          \/ worker' = worker \/ worker' = Notify(worker) \/ worker' = Goes(worker, "reader", pc)
          \/ worker' = Goes(Notify(worker), "reader", pc)
    <3>1. {"loop", "read", "activate", "deactivate", "leave"} \subseteq WorkerPcs
      BY DEF WorkerPcs
    <3>2. CASE Reading
      BY <3>1, <3>2 DEF Reading, ReaderLoop, ReadInvalid, ReadStatus, ReadStart, StartReturns,
         ReadChunk, ReadStop, ReadClear, DeactivateReturns, ReadEof, Replies
    <3>3. CASE Publishing \/ fill_playback_samples
      BY <3>1, <3>3 DEF Publishing, publish_speaker_start, publish_speaker_stop, AudioBegin,
         AudioEnd, fill_playback_samples, EnqueueIfConnected, enqueue_frame_locked
    <3> QED BY <3>2, <3>3
  <2>2. /\ worker \in [{"reader", "writer"} -> Thread(WorkerPcs)]
        /\ Notify(worker) \in [{"reader", "writer"} -> Thread(WorkerPcs)]
    BY WorkerTypes DEF TypeOK
  <2> QED BY <2>1, <2>2, WritesOn
<1> QED BY <1>1, <1>2, <1>3 DEF MovesOn, Still, Attached, Held, Workers

\* Whoever closes or hangs up a connection does so to a consumer out of service,
\* or ends the service.
LEMMA OthersStill ==
    ASSUME TypeOK, OwnersInv, Attached',
           \/ Start \/ WriterQuits \/ WriterSleeps \/ Stopping
           \/ \E t \in Workers : Disconnecting(t)
           \/ \E f \in Fds : PeerHangsUp(f)
           \/ \E t \in {"reader", "writer", "stop"} : ControlAnswers(t)
           \/ UNCHANGED vars
    PROVE  Still /\ UNCHANGED <<outboundFrames, activeSpeakers, playback>>
<1> USE DEF Workers
<1>0. /\ worker \in [Workers -> Thread(WorkerPcs)]
      /\ Notify(worker) \in [Workers -> Thread(WorkerPcs)]
      /\ link \in [Fds -> {"unused", "open", "hungup", "closed"}]
      /\ heard \in [Fds -> [Statements -> {"unheard", "on", "off"}]]
      /\ clientFd' \in Fds
  <2>1. OwnersInv'
    BY OwnersStep DEF Next, BridgeNext, Writing
  <2> QED BY <2>1, WorkerTypes DEF TypeOK, Attached, OwnersInv, ConsumerInv
<1>1. CASE Start \/ (\E t \in {"reader", "writer", "stop"} : ControlAnswers(t)) \/ UNCHANGED vars
  BY <1>1 DEF Start, ControlAnswers, vars, Still, Attached, Held
<1>2. CASE WriterQuits \/ WriterSleeps
  <2>1. /\ UNCHANGED <<clientFd, clientConnected, link, heard, writerFrame, outboundFrames,
                       activeSpeakers, playback>>
        /\ worker["writer"].pc = "loop"
        /\ worker' = Exits(worker, "writer") \/ worker' = Goes(worker, "writer", "asleep")
    BY <1>2 DEF WriterQuits, WriterSleeps
  <2>2. worker'["writer"].pc # "write"
    <3>1. "writer" \in Workers
      OBVIOUS
    <3> QED BY <1>0, <2>1, <3>1, WorkerEnds, WorkerGoes
  <2> QED BY <2>1, <2>2 DEF Still, Attached, Held
<1>3. CASE Stopping
  <2>1. ~StopReset
    BY DEF StopReset, Attached
  <2>2. UNCHANGED <<clientFd, clientConnected, heard, writerFrame, outboundFrames,
                    activeSpeakers, playback>>
    BY <1>3, <2>1 DEF Stopping, StopBegin, StopRequest, StopShutdown, StopJoins, StopReturns
  <2>3. link'[clientFd] = "open" => link[clientFd] = "open"
    BY <1>0, <1>3, <2>1, <2>2 DEF Stopping, StopBegin, StopRequest, StopShutdown, StopJoins,
       StopReturns, HungUp
  <2>4. Held' <=> Held
    <3>1. \/ worker' = worker \/ worker' = Notify(worker)
          \/ worker' = [u \in DOMAIN worker |-> [worker[u] EXCEPT !.stop = TRUE]]
      BY <1>3, <2>1 DEF Stopping, StopBegin, StopRequest, StopShutdown, StopJoins, StopReturns
    <3>2. CASE worker' = Notify(worker)
      BY <1>0, <2>2, <3>2, WritesOn DEF Held
    <3>3. CASE worker' = [u \in DOMAIN worker |-> [worker[u] EXCEPT !.stop = TRUE]]
      BY <1>0, <2>2, <3>3 DEF Held, Thread
    <3> QED BY <2>2, <3>1, <3>2, <3>3 DEF Held
  <2> QED BY <2>2, <2>3, <2>4 DEF Still, Attached
<1>4. ASSUME NEW t \in Workers, Disconnecting(t)
      PROVE  Still /\ UNCHANGED <<outboundFrames, activeSpeakers, playback>>
  <2>1. clientConnected /\ clientFd' = clientFd
    BY <1>4, DisconnectingMoves DEF Attached
  <2>2. worker[t].pc \notin Leaving
    BY <2>1, InService DEF Leaving
  <2>3. DisconnectLock(t)
    BY <1>4, <2>2 DEF Disconnecting, DisconnectClose, DisconnectReturns, Leaving
  <2>4. /\ UNCHANGED <<clientFd, clientConnected, link, heard, writerFrame, outboundFrames,
                       activeSpeakers, playback>>
        /\ worker[t].pc = "leave" /\ worker' = Exits(worker, t)
    BY <2>3 DEF DisconnectLock, Attached
  <2>5. Held' <=> Held
    <3>1. "writer" \in Workers
      OBVIOUS
    <3>2. t = "writer" => worker'["writer"].pc = "off"
      BY <1>0, <2>4, WorkerEnds
    <3>3. t # "writer" => worker'["writer"] = worker["writer"]
      BY <1>0, <2>4, <3>1, WorkerEnds
    <3> QED BY <2>4, <3>2, <3>3 DEF Held
  <2> QED BY <2>4, <2>5 DEF Still, Attached
<1>5. ASSUME NEW f \in Fds, PeerHangsUp(f)
      PROVE  Still /\ UNCHANGED <<outboundFrames, activeSpeakers, playback>>
  <2>1. /\ UNCHANGED <<clientFd, clientConnected, heard, writerFrame, worker, outboundFrames,
                       activeSpeakers, playback>>
        /\ link' = [link EXCEPT ![f] = "hungup"]
    BY <1>5 DEF PeerHangsUp, HungUp
  <2>2. link'[clientFd] = "open" => link[clientFd] = "open"
    BY <1>0, <2>1
  <2> QED BY <2>1, <2>2 DEF Still, Attached, Held
<1> QED BY <1>1, <1>2, <1>3, <1>4, <1>5
\* A pop takes the first frame of the consumer in service in hand.
LEMMA Popping ==
    ASSUME TypeOK, OwnersInv, WriterPops, Attached'
    PROVE  /\ Attached /\ clientFd' = clientFd /\ heard' = heard /\ ~Held /\ Held'
           /\ outboundFrames # <<>> /\ writerFrame' = Head(outboundFrames)
           /\ outboundFrames' = Tail(outboundFrames)
           /\ UNCHANGED <<activeSpeakers, playback>>
<1>1. /\ UNCHANGED <<clientFd, clientConnected, link, heard, activeSpeakers, playback>>
      /\ worker["writer"].pc = "loop" /\ worker' = Goes(worker, "writer", "write")
      /\ outboundFrames # <<>> /\ writerFrame' = Head(outboundFrames)
      /\ outboundFrames' = Tail(outboundFrames)
  BY DEF WriterPops
<1>2. worker'["writer"].pc = "write" /\ worker'["writer"].fd = worker["writer"].fd
  <2>1. worker \in [Workers -> Thread(WorkerPcs)] /\ "writer" \in Workers
    BY DEF TypeOK, Workers
  <2> QED BY <1>1, <2>1, WorkerGoes
<1>3. worker["writer"].fd = clientFd
  BY <1>1, InService DEF Attached, Workers
<1> QED BY <1>1, <1>2, <1>3 DEF Attached, Held

\* A write tells the consumer in service what the writer has in hand.
LEMMA Telling ==
    ASSUME TypeOK, OwnersInv, WriterWrites, Attached'
    PROVE  /\ Attached /\ clientFd' = clientFd /\ Held /\ ~Held'
           /\ heard'[clientFd] = Learns(heard[clientFd], writerFrame)
           /\ UNCHANGED <<outboundFrames, activeSpeakers, playback>>
<1>1. /\ UNCHANGED <<clientFd, clientConnected, link, outboundFrames, activeSpeakers, playback>>
      /\ worker["writer"].pc = "write" /\ worker' = Goes(worker, "writer", "loop")
      /\ heard' = [heard EXCEPT ![worker["writer"].fd] = Learns(@, writerFrame)]
  BY DEF WriterWrites
<1>2. worker'["writer"].pc = "loop"
  <2>1. worker \in [Workers -> Thread(WorkerPcs)] /\ "writer" \in Workers
    BY DEF TypeOK, Workers
  <2> QED BY <1>1, <2>1, WorkerGoes
<1>3. worker["writer"].fd = clientFd /\ clientFd \in Fds
  BY <1>1, InService DEF Attached, Workers
<1>4. heard'[clientFd] = Learns(heard[clientFd], writerFrame)
  BY <1>1, <1>3 DEF TypeOK
<1> QED BY <1>1, <1>2, <1>3, <1>4 DEF Attached, Held

\* A write fails only to a consumer whose connection is gone.
LEMMA Failing ==
    ASSUME TypeOK, OwnersInv, WriterFails
    PROVE  ~Attached'
BY InService DEF WriterFails, Attached, Workers

\* A write begins with a pop, and the writer keeps its frame until it is over.
LEMMA OnlyPopsBegin ==
    ASSUME TypeOK, [Next]_vars, ~WriterPops, worker'["writer"].pc = "write"
    PROVE  /\ worker["writer"].pc = "write" /\ worker'["writer"].fd = worker["writer"].fd
           /\ UNCHANGED writerFrame /\ ~WriterWrites /\ ~AcceptSpawn
           /\ \A t \in Workers : DisconnectClose(t) => t = "reader"
<1> USE DEF Workers
<1>0. /\ worker \in [Workers -> Thread(WorkerPcs)]
      /\ Notify(worker) \in [Workers -> Thread(WorkerPcs)]
      /\ {"off", "loop", "read", "activate", "deactivate", "asleep", "leave", "close", "teardown"}
            \subseteq WorkerPcs
  BY WorkerTypes DEF TypeOK, WorkerPcs
<1>1. ~Writing
  <2>1. \A pc \in {"off", "asleep", "loop", "leave"} :
          worker' = Goes(worker, "writer", pc) \/ worker' = Exits(worker, "writer")
            => worker'["writer"].pc # "write"
    BY <1>0, WorkerMoves
  <2> QED BY <2>1 DEF Writing, WriterQuits, WriterSleeps, WriterWrites, WriterFails
<1>2. ~AcceptSpawn
  BY DEF AcceptSpawn
<1>3. ~Disconnecting("writer")
  <2>1. \A pc \in {"close", "teardown"} : \A w \in {worker, Notify(worker)} :
          worker' = Goes(w, "writer", pc) \/ worker' = Exits(worker, "writer")
            => worker'["writer"].pc # "write"
    BY <1>0, WorkerMoves
  <2> QED BY <2>1 DEF Disconnecting, DisconnectLock, DisconnectClose, DisconnectReturns
<1>4. UNCHANGED writerFrame
  BY <1>1, <1>3 DEF Next, BridgeNext, Start, Accepting, AcceptLoop, AcceptConn, AcceptFails,
     AcceptBusy, AcceptFree, AcceptInstall, AcceptSpawn, Reading, ReaderLoop, ReadInvalid,
     ReadStatus, ReadStart, StartReturns, ReadChunk, ReadStop, ReadClear, DeactivateReturns,
     ReadEof, Reads, Disconnecting, DisconnectLock, DisconnectClose, DisconnectReturns, Publishing,
     publish_speaker_start, publish_speaker_stop, AudioBegin, AudioEnd, fill_playback_samples,
     Stopping, StopBegin, StopRequest, StopShutdown, StopJoins, StopReset, StopReturns,
     PeerHangsUp, ControlAnswers, vars
<1>5. PICK pc \in WorkerPcs : \E w \in {worker, Notify(worker)} :
        \/ worker' = w \/ worker' = Goes(w, "reader", pc) \/ worker' = Exits(w, "reader")
        \/ worker' = [u \in DOMAIN worker |-> [worker[u] EXCEPT !.stop = TRUE]]
  <2>1. CASE Accepting \/ Start \/ (\E f \in Fds : PeerHangsUp(f))
             \/ (\E t \in {"reader", "writer", "stop"} : ControlAnswers(t)) \/ UNCHANGED vars
    BY <1>0, <1>2, <2>1 DEF Start, Accepting, AcceptLoop, AcceptConn, AcceptFails, AcceptBusy,
       AcceptFree, AcceptInstall, PeerHangsUp, ControlAnswers, vars
  <2>2. CASE Reading
    BY <1>0, <2>2 DEF Reading, ReaderLoop, ReadInvalid, ReadStatus, ReadStart, StartReturns,
       ReadChunk, ReadStop, ReadClear, DeactivateReturns, ReadEof, Replies
  <2>3. CASE Publishing \/ fill_playback_samples
    BY <1>0, <2>3 DEF Publishing, publish_speaker_start, publish_speaker_stop, AudioBegin,
       AudioEnd, fill_playback_samples, EnqueueIfConnected, enqueue_frame_locked
  <2>4. CASE Disconnecting("reader")
    BY <1>0, <2>4 DEF Disconnecting, DisconnectLock, DisconnectClose, DisconnectReturns
  <2>5. CASE Stopping
    BY <1>0, <2>5 DEF Stopping, StopBegin, StopRequest, StopShutdown, StopJoins, StopReset,
       StopReturns
  <2> QED BY <1>1, <1>3, <2>1, <2>2, <2>3, <2>4, <2>5 DEF Next, BridgeNext
<1>6. worker["writer"].pc = "write" /\ worker'["writer"].fd = worker["writer"].fd
  <2>1. CASE worker' = [u \in DOMAIN worker |-> [worker[u] EXCEPT !.stop = TRUE]]
    BY <1>0, <2>1 DEF Thread
  <2>2. CASE worker' # [u \in DOMAIN worker |-> [worker[u] EXCEPT !.stop = TRUE]]
    BY <1>0, <1>5, <2>2, WritesOn
  <2> QED BY <2>1, <2>2
<1> QED BY <1>1, <1>2, <1>3, <1>4, <1>6 DEF Writing, Disconnecting
\* A consumer in service was just installed, or was in service before the step
\* and sees it pop a frame, write one, or at most queue one.
LEMMA ViewSteps ==
    ASSUME ~FdReuse, TypeOK, OwnersInv, NumbersInv, [Next]_vars, Attached'
    PROVE  AcceptInstall \/ WriterPops \/ WriterWrites \/ Still
BY AcceptingStill, CallersStill, OthersStill, Failing DEF Next, BridgeNext, Writing, Workers

\* The queue at most grows, by a frame on one of the topics.
Grows(topics) ==
    \/ UNCHANGED outboundFrames
    \/ \E frame \in Frames :
        frame.topic \in topics /\ outboundFrames' = Append(outboundFrames, frame)

ReportTopics == {"status", "error", "audio"}

\* Who starts, stops or drains a session, and so says so.
PlaybackSteps == StartReturns \/ ReadStop \/ ReadClear \/ fill_playback_samples

\* The queue grows at its end by what is no hello, unless a consumer comes, goes
\* or is written to: about playback by the steps of a session, and about a speaker
\* by what publishes it.
LEMMA Queueing ==
    ASSUME TypeOK, [Next]_vars
    PROVE  \/ AcceptInstall \/ WriterPops
           \/ outboundFrames' = <<>> /\ ~clientConnected'
           \/ PlaybackSteps /\ Grows(ReportTopics \cup {"playback"})
           \/ (\E s \in Speakers : publish_speaker_start(s) \/ publish_speaker_stop(s))
                /\ Grows(Speakers)
           \/ /\ Grows(ReportTopics)
              /\ UNCHANGED activeSpeakers \/ ~clientConnected'
              /\ (playback'.active = playback.active) \/ ~clientConnected'
<1>1. ASSUME NEW frame \in Frames, NEW topics, frame.topic \in topics,
             outboundFrames' = Enqueued(outboundFrames, frame)
      PROVE  Grows(topics)
  BY <1>1 DEF Enqueued, Grows
<1>2. ASSUME NEW frame \in Frames, NEW topics, frame.topic \in topics, EnqueueIfConnected(frame)
      PROVE  Grows(topics)
  BY <1>1, <1>2 DEF EnqueueIfConnected, enqueue_frame_locked, Grows
<1>3. /\ status_frame.topic = "status" /\ error_frame.topic = "error"
      /\ audio_frame.topic = "audio" /\ playback_started_frame.topic = "playback"
      /\ playback_stopped_frame.topic = "playback"
      /\ \A s \in Speakers, b \in BOOLEAN : speaker_frame(s, b).topic = s
  BY DEF status_frame, error_frame, playback_started_frame, playback_stopped_frame, audio_frame,
     speaker_frame, Frame
<1>4. \A topics : UNCHANGED outboundFrames => Grows(topics)
  BY DEF Grows
<1>5. ASSUME PlaybackSteps PROVE Grows(ReportTopics \cup {"playback"})
  BY <1>1, <1>2, <1>3, <1>4, <1>5, FrameTypes DEF PlaybackSteps, StartReturns, ReadStop, ReadClear,
     fill_playback_samples, Replies, ReportTopics
<1>6. ASSUME NEW s \in Speakers, publish_speaker_start(s) \/ publish_speaker_stop(s)
      PROVE  Grows(Speakers)
  BY <1>2, <1>3, <1>6, FrameTypes DEF publish_speaker_start, publish_speaker_stop
<1>7. ASSUME Reading, ~PlaybackSteps
      PROVE  Grows(ReportTopics) /\ UNCHANGED activeSpeakers /\ playback'.active = playback.active
  <2>1. Grows(ReportTopics)
    BY <1>1, <1>3, <1>4, <1>7, FrameTypes DEF PlaybackSteps, Reading, ReaderLoop, ReadInvalid,
       ReadStatus, ReadStart, ReadChunk, DeactivateReturns, ReadEof, Replies, ReportTopics
  <2>2. UNCHANGED activeSpeakers
    BY <1>7 DEF PlaybackSteps, Reading, ReaderLoop, ReadInvalid, ReadStatus, ReadStart,
       ReadChunk, DeactivateReturns, ReadEof, Reads
  <2>3. playback'.active = playback.active
    BY <1>7 DEF PlaybackSteps, Reading, ReaderLoop, ReadInvalid, ReadStatus, ReadStart,
       ReadChunk, DeactivateReturns, ReadEof, TypeOK
  <2> QED BY <2>1, <2>2, <2>3
<1>8. ASSUME AudioBegin \/ AudioEnd
      PROVE  Grows(ReportTopics) /\ UNCHANGED <<activeSpeakers, playback>>
  BY <1>2, <1>3, <1>4, <1>8, FrameTypes DEF AudioBegin, AudioEnd, ReportTopics
<1>9. ASSUME (\E t \in Workers : Disconnecting(t)) \/ Stopping
      PROVE  \/ outboundFrames' = <<>> /\ ~clientConnected'
             \/ UNCHANGED <<outboundFrames, activeSpeakers, playback>>
  BY <1>9 DEF Disconnecting, DisconnectLock, DisconnectClose, DisconnectReturns, Stopping,
     StopBegin, StopRequest, StopShutdown, StopJoins, StopReset, StopReturns
<1>10. Accepting => AcceptInstall \/ UNCHANGED <<outboundFrames, activeSpeakers, playback>>
  BY DEF Accepting, AcceptLoop, AcceptConn, AcceptFails, AcceptBusy, AcceptFree, AcceptSpawn
<1>11. Writing => WriterPops \/ UNCHANGED <<outboundFrames, activeSpeakers, playback>>
  BY DEF Writing, WriterQuits, WriterSleeps, WriterWrites, WriterFails
<1>12. Start \/ (\E f \in Fds : PeerHangsUp(f))
           \/ (\E t \in {"reader", "writer", "stop"} : ControlAnswers(t)) \/ UNCHANGED vars
         => UNCHANGED <<outboundFrames, activeSpeakers, playback>>
  BY DEF Start, PeerHangsUp, ControlAnswers, vars
<1>13. UNCHANGED <<outboundFrames, activeSpeakers, playback>>
         => Grows(ReportTopics) /\ UNCHANGED activeSpeakers /\ playback'.active = playback.active
  BY <1>4
<1>14. CASE PlaybackSteps
  BY <1>5, <1>14
<1>15. CASE \E s \in Speakers : publish_speaker_start(s) \/ publish_speaker_stop(s)
  BY <1>6, <1>15
<1>16. CASE /\ ~PlaybackSteps
            /\ ~\E s \in Speakers : publish_speaker_start(s) \/ publish_speaker_stop(s)
  <2>1. \/ Reading \/ AudioBegin \/ AudioEnd \/ (\E t \in Workers : Disconnecting(t)) \/ Stopping
        \/ Accepting \/ Writing \/ Start \/ (\E f \in Fds : PeerHangsUp(f))
        \/ (\E t \in {"reader", "writer", "stop"} : ControlAnswers(t)) \/ UNCHANGED vars
    BY <1>16 DEF Next, BridgeNext, Publishing, PlaybackSteps, Workers
  <2> QED BY <1>7, <1>8, <1>9, <1>10, <1>11, <1>12, <1>13, <1>16, <2>1
<1> QED BY <1>14, <1>15, <1>16

\* Every hello is the hello, and the consumer in service was told it, is being
\* told it, or will be before anything else.
HelloInv ==
    /\ \A i \in DOMAIN outboundFrames : SaysHello(outboundFrames[i])
    /\ SaysHello(writerFrame)
    /\ HelloFirst
    /\ Attached /\ heard[clientFd]["hello"] # "on" =>
         \/ Held /\ writerFrame = hello_frame
         \/ outboundFrames # <<>> /\ Head(outboundFrames) = hello_frame

\* Nothing is said to a consumer before its hello, if no number is reused.
LEMMA HelloStep ==
    ASSUME ~FdReuse, TypeOK, OwnersInv, NumbersInv, HelloInv, [Next]_vars
    PROVE  HelloInv'
<1>0. /\ outboundFrames \in Seq(Frames) /\ writerFrame \in Frames
      /\ link \in [Fds -> {"unused", "open", "hungup", "closed"}]
      /\ heard \in [Fds -> [Statements -> {"unheard", "on", "off"}]]
      /\ hello_frame \in Frames /\ hello_frame.topic = "hello" /\ hello_frame.on = TRUE
      /\ "hello" \in Statements
  BY FrameTypes DEF TypeOK, hello_frame, Frame, Statements
<1>1. \A i \in DOMAIN outboundFrames' : SaysHello(outboundFrames'[i])
  <2>1. CASE AcceptInstall
    BY <2>1, ToldGreeting DEF AcceptInstall
  <2>2. CASE WriterPops
    <3>1. outboundFrames' = Tail(outboundFrames) /\ outboundFrames # <<>>
      BY <2>2 DEF WriterPops
    <3>2. \A i \in DOMAIN Tail(outboundFrames) :
            i + 1 \in DOMAIN outboundFrames /\ Tail(outboundFrames)[i] = outboundFrames[i + 1]
      BY <1>0, <3>1, HeadTailProperties
    <3> QED BY <3>1, <3>2 DEF HelloInv
  <2>3. CASE UNCHANGED outboundFrames \/ outboundFrames' = <<>>
    BY <2>3 DEF HelloInv
  <2>4. ASSUME NEW frame \in Frames, frame.topic # "hello",
               outboundFrames' = Append(outboundFrames, frame)
        PROVE  \A i \in DOMAIN outboundFrames' : SaysHello(outboundFrames'[i])
    <3>1. \A i \in DOMAIN outboundFrames' : outboundFrames'[i] = frame
            \/ (i \in DOMAIN outboundFrames /\ outboundFrames'[i] = outboundFrames[i])
      BY <1>0, <2>4
    <3> QED BY <2>4, <3>1 DEF HelloInv, SaysHello
  <2>5. \A frame \in Frames :
          frame.topic \in ReportTopics \cup {"playback"} \cup Speakers => frame.topic # "hello"
    BY BridgeAssumption DEF ReportTopics
  <2> QED BY <2>1, <2>2, <2>3, <2>4, <2>5, Queueing DEF Grows
<1>2. SaysHello(writerFrame')
  <2>1. CASE WriterPops
    <3>1. Head(outboundFrames) = outboundFrames[1] /\ 1 \in DOMAIN outboundFrames
      BY <1>0, <2>1, HeadTailProperties DEF WriterPops
    <3> QED BY <2>1, <3>1 DEF WriterPops, HelloInv
  <2>2. CASE ~WriterPops
    <3>1. UNCHANGED writerFrame \/ writerFrame' = hello_frame
      BY <2>2 DEF Next, BridgeNext, Start, Accepting, AcceptLoop, AcceptConn, AcceptFails,
         AcceptBusy, AcceptFree, AcceptInstall, AcceptSpawn, Reading, ReaderLoop, ReadInvalid,
         ReadStatus, ReadStart, StartReturns, ReadChunk, ReadStop, ReadClear, DeactivateReturns,
         ReadEof, Reads, Writing, WriterQuits, WriterSleeps, WriterWrites, WriterFails,
         Disconnecting, DisconnectLock, DisconnectClose, DisconnectReturns, Publishing,
         publish_speaker_start, publish_speaker_stop, AudioBegin, AudioEnd, fill_playback_samples,
         Stopping, StopBegin, StopRequest, StopShutdown, StopJoins, StopReset, StopReturns,
         PeerHangsUp, ControlAnswers, vars
    <3> QED BY <3>1 DEF HelloInv, SaysHello
  <2> QED BY <2>1, <2>2
<1>3. HelloFirst'
  <2> SUFFICES ASSUME NEW f \in Fds, worker'["writer"].pc = "write", worker'["writer"].fd = f,
                      link'[f] = "open"
               PROVE  heard'[f]["hello"] = "on" \/ writerFrame' = hello_frame
    BY DEF HelloFirst
  <2>1. CASE WriterPops
    <3>1. /\ clientConnected /\ clientFd = f /\ link[f] = "open"
          /\ worker["writer"].pc = "loop"
      <4>1. worker["writer"].pc = "loop" /\ clientConnected /\ UNCHANGED link
            /\ worker' = Goes(worker, "writer", "write")
        BY <2>1 DEF WriterPops
      <4>2. worker'["writer"].fd = worker["writer"].fd
        <5>1. worker \in [Workers -> Thread(WorkerPcs)] /\ "writer" \in Workers
          BY DEF TypeOK, Workers
        <5> QED BY <4>1, <5>1, WorkerGoes
      <4> QED BY <4>1, <4>2, InService DEF Workers
    <3>2. Attached /\ ~Held
      BY <3>1 DEF Attached, Held
    <3> QED BY <2>1, <3>1, <3>2 DEF WriterPops, HelloInv
  <2>2. CASE ~WriterPops
    <3>1. /\ worker["writer"].pc = "write" /\ worker["writer"].fd = f
          /\ UNCHANGED writerFrame /\ ~WriterWrites
          /\ \A t \in Workers : DisconnectClose(t) => t = "reader"
      BY <2>2, OnlyPopsBegin
    <3>2. link[f] # "unused"
      BY <3>1 DEF NumbersInv, Workers
    <3>3. /\ \A g \in Fds : ~(AcceptConn(g) /\ g = f)
          /\ \A t \in Workers : DisconnectClose(t) => worker[t].fd # f
      BY <1>0, <3>2 DEF AcceptConn, DisconnectClose
    <3>4. link[f] = "open" /\ heard'[f] = heard[f]
      <4>1. CASE \E g \in Fds : AcceptConn(g)
        BY <1>0, <3>3, <4>1 DEF AcceptConn
      <4>2. CASE \E t \in Workers : DisconnectClose(t)
        BY <1>0, <3>3, <4>2 DEF DisconnectClose
      <4>3. CASE ~(\E g \in Fds : AcceptConn(g)) /\ ~(\E t \in Workers : DisconnectClose(t))
        <5>1. UNCHANGED heard
          BY <3>1, <4>3 DEF Next, BridgeNext, Start, Accepting, AcceptLoop, AcceptFails,
             AcceptBusy, AcceptFree, AcceptInstall, AcceptSpawn, Reading, ReaderLoop, ReadInvalid,
             ReadStatus, ReadStart, StartReturns, ReadChunk, ReadStop, ReadClear, DeactivateReturns,
             ReadEof, Reads, Writing, WriterQuits, WriterSleeps, WriterPops, WriterFails,
             Disconnecting, DisconnectLock, DisconnectReturns, Publishing, publish_speaker_start,
             publish_speaker_stop, AudioBegin, AudioEnd, fill_playback_samples, Stopping,
             StopBegin, StopRequest, StopShutdown, StopJoins, StopReset, StopReturns,
             PeerHangsUp, ControlAnswers, vars, Workers
        <5>2. \/ UNCHANGED link
              \/ \E g : link' = [link EXCEPT ![g] = "closed"] \/ link' = [link EXCEPT ![g] = "hungup"]
          BY <3>1, <4>3 DEF Next, BridgeNext, Start, Accepting, AcceptLoop, AcceptFails,
             AcceptBusy, AcceptFree, AcceptInstall, AcceptSpawn, Reading, ReaderLoop, ReadInvalid,
             ReadStatus, ReadStart, StartReturns, ReadChunk, ReadStop, ReadClear, DeactivateReturns,
             ReadEof, Reads, Writing, WriterQuits, WriterSleeps, WriterPops, WriterFails,
             Disconnecting, DisconnectLock, DisconnectReturns, Publishing, publish_speaker_start,
             publish_speaker_stop, AudioBegin, AudioEnd, fill_playback_samples, Stopping,
             StopBegin, StopRequest, StopShutdown, StopJoins, StopReset, StopReturns,
             PeerHangsUp, ControlAnswers, vars, Workers, HungUp
        <5> QED BY <1>0, <5>1, <5>2
      <4> QED BY <4>1, <4>2, <4>3
    <3> QED BY <3>1, <3>4 DEF HelloInv, HelloFirst
  <2> QED BY <2>1, <2>2
<1>4. ASSUME Attached', heard'[clientFd']["hello"] # "on"
      PROVE  \/ Held' /\ writerFrame' = hello_frame
             \/ outboundFrames' # <<>> /\ Head(outboundFrames') = hello_frame
  <2>1. CASE AcceptInstall
    BY <2>1, ToldGreeting DEF AcceptInstall
  <2>2. CASE WriterPops
    BY <1>4, <2>2, Popping DEF HelloInv
  <2>3. CASE WriterWrites
    <3>1. /\ Attached /\ clientFd' = clientFd /\ Held
          /\ heard'[clientFd] = Learns(heard[clientFd], writerFrame) /\ UNCHANGED outboundFrames
      BY <1>4, <2>3, Telling
    <3>2. heard[clientFd] \in [Statements -> {"unheard", "on", "off"}]
      BY <1>0, <3>1, InService DEF Attached
    <3>3. CASE writerFrame.topic = "hello"
      BY <1>0, <1>4, <3>1, <3>2, <3>3 DEF HelloInv, SaysHello, Learns
    <3>4. CASE writerFrame.topic # "hello"
      <4>1. heard'[clientFd]["hello"] = heard[clientFd]["hello"]
        BY <1>0, <3>1, <3>2, <3>4 DEF Learns
      <4> QED BY <1>0, <1>4, <3>1, <3>4, <4>1 DEF HelloInv
    <3> QED BY <3>3, <3>4
  <2>4. CASE Still /\ ~AcceptInstall /\ ~WriterPops
    <3>1. \/ UNCHANGED outboundFrames
          \/ \E frame \in Frames : outboundFrames' = Append(outboundFrames, frame)
      BY <1>4, <2>4, Queueing DEF Attached, Grows
    <3>2. outboundFrames # <<>> => outboundFrames' # <<>> /\ Head(outboundFrames') = Head(outboundFrames)
      BY <1>0, <3>1
    <3> QED BY <1>4, <2>4, <3>2 DEF HelloInv, Still
  <2> QED BY <1>4, <2>1, <2>2, <2>3, <2>4, ViewSteps
<1> QED BY <1>1, <1>2, <1>3, <1>4 DEF HelloInv
\* WillHear is what the queue, the frame in hand and what was heard add up to.
LEMMA WillHearIsTold ==
    ASSUME NEW t, NEW b
    PROVE  /\ WillHear(t, b) <=> Told(outboundFrames, Held, writerFrame, heard[clientFd], t, b)
           /\ WillHear(t, b)' <=>
                Told(outboundFrames', Held', writerFrame', heard'[clientFd'], t, b)
BY DEF WillHear, QueuedLast, Queued, InHand, Held, Told, Says, SaysLast

\* The writer changes nothing of what the consumer in service will have heard,
\* and nothing that is queued does but on its own topic.
LEMMA HearsOn ==
    ASSUME ~FdReuse, TypeOK, OwnersInv, NumbersInv, [Next]_vars, Attached', ~AcceptInstall,
           NEW topics, NEW t \in Statements, t \notin topics, NEW b \in BOOLEAN,
           WriterPops \/ Grows(topics)
    PROVE  Attached /\ (WillHear(t, b)' <=> WillHear(t, b))
<1>0. outboundFrames \in Seq(Frames) /\ writerFrame \in Frames
  BY DEF TypeOK
<1>1. CASE WriterPops
  <2>1. /\ Attached /\ clientFd' = clientFd /\ heard' = heard /\ Held = FALSE /\ Held' = TRUE
        /\ outboundFrames # <<>> /\ writerFrame' = Head(outboundFrames)
        /\ outboundFrames' = Tail(outboundFrames)
    BY <1>1, Popping DEF Held
  <2>2. Told(Tail(outboundFrames), TRUE, Head(outboundFrames), heard[clientFd], t, b)
          <=> Told(outboundFrames, FALSE, writerFrame, heard[clientFd], t, b)
    BY <1>0, <2>1, ToldPop
  <2> QED BY <2>1, <2>2, WillHearIsTold
<1>2. CASE WriterWrites
  <2>1. /\ Attached /\ clientFd' = clientFd /\ Held = TRUE /\ Held' = FALSE
        /\ heard'[clientFd] = Learns(heard[clientFd], writerFrame) /\ UNCHANGED outboundFrames
    BY <1>2, Telling DEF Held
  <2>2. heard[clientFd] \in [Statements -> {"unheard", "on", "off"}]
    BY <2>1, InService DEF Attached, TypeOK
  <2>3. Told(outboundFrames, FALSE, writerFrame', Learns(heard[clientFd], writerFrame), t, b)
          <=> Told(outboundFrames, TRUE, writerFrame, heard[clientFd], t, b)
    <3> DEFINE h == heard[clientFd]
    <3> HIDE DEF h
    <3>1. h \in [Statements -> {"unheard", "on", "off"}]
      BY <2>2 DEF h
    <3>2. \A q, other : Told(q, FALSE, other, Learns(h, writerFrame), t, b)
                          <=> Told(q, TRUE, writerFrame, h, t, b)
      BY <1>0, <3>1, ToldWrite, ZenonT(60)
    <3> QED BY <3>2 DEF h
  <2> QED BY <2>1, <2>3, WillHearIsTold
<1>3. CASE Still /\ ~WriterPops
  <2>1. Told(outboundFrames', Held', writerFrame', heard'[clientFd'], t, b)
          <=> Told(outboundFrames', Held, writerFrame, heard[clientFd], t, b)
    BY <1>3 DEF Still, Told
  <2>2. CASE UNCHANGED outboundFrames
    BY <1>3, <2>1, <2>2, WillHearIsTold DEF Still
  <2>3. ASSUME NEW frame \in Frames, frame.topic \in topics,
               outboundFrames' = Append(outboundFrames, frame)
        PROVE  Attached /\ (WillHear(t, b)' <=> WillHear(t, b))
    <3>1. Held \in BOOLEAN
      BY DEF Held
    <3>2. Told(Append(outboundFrames, frame), Held, writerFrame, heard[clientFd], t, b)
            <=> Told(outboundFrames, Held, writerFrame, heard[clientFd], t, b)
      BY <1>0, <2>3, <3>1, ToldAppend
    <3> QED BY <1>3, <2>1, <2>3, <3>2, WillHearIsTold DEF Still
  <2> QED BY <1>3, <2>2, <2>3 DEF Grows
<1> QED BY <1>1, <1>2, <1>3, ViewSteps

\* What is queued has the last word on its topic.
LEMMA HearsNew ==
    ASSUME TypeOK, Still, NEW frame \in Frames, outboundFrames' = Append(outboundFrames, frame),
           NEW b \in BOOLEAN
    PROVE  WillHear(frame.topic, b)' <=> frame.on = b
<1>1. outboundFrames \in Seq(Frames) /\ Held' \in BOOLEAN
  BY DEF TypeOK, Held
<1>2. Told(Append(outboundFrames, frame), Held', writerFrame', heard'[clientFd'], frame.topic, b)
        <=> frame.on = b
  BY <1>1, ToldAppend
<1> QED BY <1>2, WillHearIsTold

\* A consumer that was just installed will hear the greeting and nothing else.
LEMMA HearsGreeting ==
    ASSUME TypeOK, OwnersInv, NumbersInv, AcceptInstall
    PROVE  /\ \A s \in Speakers : WillHear(s, TRUE)' <=> s \in activeSpeakers
           /\ \A b \in BOOLEAN : ~WillHear("playback", b)'
<1>1. /\ accept.pc = "install" /\ clientFd' = accept.fd /\ heard' = heard /\ worker' = worker
      /\ worker["writer"].pc = "off"
  BY DEF AcceptInstall, AcceptGoes
<1>2. heard'[clientFd'] = Unheard /\ Held' = FALSE
  BY <1>1 DEF NumbersInv, Held
<1>3. PICK order \in Replays : outboundFrames' = Greeting(order)
  BY DEF AcceptInstall
<1> QED BY <1>2, <1>3, ToldGreeting, WillHearIsTold

\* Who talks, and what the consumer in service will have heard of it.
SpeakersKnown == Attached => \A s \in Speakers : s \in activeSpeakers <=> WillHear(s, TRUE)

LEMMA SpeakersStep ==
    ASSUME ~FdReuse, TypeOK, OwnersInv, NumbersInv, SpeakersKnown, [Next]_vars
    PROVE  SpeakersKnown'
<1> SUFFICES ASSUME Attached', NEW s \in Speakers
             PROVE  s \in activeSpeakers' <=> WillHear(s, TRUE)'
  BY DEF SpeakersKnown
<1>0. s \in Statements
  BY DEF Statements
<1>1. CASE AcceptInstall
  <2>1. UNCHANGED activeSpeakers
    BY <1>1 DEF AcceptInstall
  <2> QED BY <1>1, <2>1, HearsGreeting
<1>2. ASSUME NEW topics, s \notin topics, WriterPops \/ Grows(topics), ~AcceptInstall,
             s \in activeSpeakers' <=> s \in activeSpeakers
      PROVE  s \in activeSpeakers' <=> WillHear(s, TRUE)'
  BY <1>0, <1>2, HearsOn DEF SpeakersKnown
<1>3. CASE WriterPops
  <2>1. UNCHANGED activeSpeakers /\ ~AcceptInstall
    BY <1>3 DEF WriterPops, AcceptInstall, AcceptGoes, Goes, TypeOK, Thread
  <2>2. s \notin {}
    OBVIOUS
  <2> QED BY <1>2, <1>3, <2>1, <2>2
<1>4. CASE \E u \in Speakers : publish_speaker_start(u) \/ publish_speaker_stop(u)
  <2>1. PICK u \in Speakers : publish_speaker_start(u) \/ publish_speaker_stop(u)
    BY <1>4
  <2>2. PICK b \in BOOLEAN :
          /\ EnqueueIfConnected(speaker_frame(u, b))
          /\ activeSpeakers' = IF b THEN activeSpeakers \cup {u} ELSE activeSpeakers \ {u}
    BY <2>1 DEF publish_speaker_start, publish_speaker_stop
  <2>3. Still /\ clientConnected /\ ~AcceptInstall
    <3>1. Still
      BY <2>1, CallersStill DEF Publishing
    <3>2. UNCHANGED accept
      BY <2>1 DEF publish_speaker_start, publish_speaker_stop
    <3> QED BY <3>1, <3>2 DEF Still, Attached, AcceptInstall, AcceptGoes, TypeOK, Thread
  <2>4. /\ speaker_frame(u, b) \in Frames /\ speaker_frame(u, b).topic = u
        /\ speaker_frame(u, b).on = b /\ ~Droppable(speaker_frame(u, b))
    BY BridgeAssumption, FrameTypes DEF speaker_frame, Frame, Droppable
  <2>5. outboundFrames' = Append(outboundFrames, speaker_frame(u, b))
    BY <2>2, <2>3, <2>4 DEF EnqueueIfConnected, enqueue_frame_locked, Enqueued
  <2>6. CASE s = u
    BY <2>2, <2>3, <2>4, <2>5, <2>6, HearsNew
  <2>7. CASE s # u
    <3>1. Grows({u})
      BY <2>4, <2>5 DEF Grows
    <3> QED BY <1>2, <2>2, <2>3, <2>7, <3>1
  <2> QED BY <2>6, <2>7
<1>5. CASE /\ ~AcceptInstall /\ ~WriterPops
           /\ ~\E u \in Speakers : publish_speaker_start(u) \/ publish_speaker_stop(u)
  <2>1. s \notin ReportTopics \cup {"playback"} /\ s \notin ReportTopics
    BY BridgeAssumption DEF ReportTopics
  <2>2. UNCHANGED activeSpeakers \/ ~clientConnected'
    BY <1>5, Queueing DEF PlaybackSteps, StartReturns, ReadStop, ReadClear, Reads,
       fill_playback_samples
  <2>3. Grows(ReportTopics \cup {"playback"}) \/ Grows(ReportTopics)
    BY <1>5, Queueing DEF Attached
  <2> QED BY <1>2, <1>5, <2>1, <2>2, <2>3 DEF Attached
<1> QED BY <1>1, <1>3, <1>4, <1>5

\* A consumer that was told of playback last was told what is so.
LEMMA PlaybackStep ==
    ASSUME ~FdReuse, TypeOK, OwnersInv, NumbersInv, PlaybackView, [Next]_vars
    PROVE  PlaybackView'
<1> SUFFICES ASSUME Attached', NEW b \in BOOLEAN, WillHear("playback", b)'
             PROVE  playback'.active <=> b
  <2>1. PlaybackView' <=> (Attached' => \A b \in BOOLEAN : WillHear("playback", b)' => (playback'.active <=> b))
    BY DEF PlaybackView
  <2> QED BY <2>1
<1>0. "playback" \in Statements /\ (Attached /\ WillHear("playback", b) => (playback.active <=> b))
  BY DEF Statements, PlaybackView
<1>1. CASE AcceptInstall
  BY <1>1, HearsGreeting
<1>2. ASSUME NEW topics, "playback" \notin topics, WriterPops \/ Grows(topics), ~AcceptInstall,
             playback'.active = playback.active
      PROVE  playback'.active <=> b
  BY <1>0, <1>2, HearsOn
<1>3. CASE WriterPops
  <2>1. UNCHANGED playback /\ ~AcceptInstall
    BY <1>3 DEF WriterPops, AcceptInstall, AcceptGoes, Goes, TypeOK, Thread
  <2>2. "playback" \notin {}
    OBVIOUS
  <2> QED BY <1>2, <1>3, <2>1, <2>2
<1>4. CASE PlaybackSteps
  <2>1. Still /\ clientConnected /\ ~AcceptInstall
    <3>1. Still
      BY <1>4, CallersStill DEF PlaybackSteps, Reading
    <3>2. UNCHANGED accept
      BY <1>4 DEF PlaybackSteps, StartReturns, ReadStop, ReadClear, Reads, fill_playback_samples
    <3> QED BY <3>1, <3>2 DEF Still, Attached, AcceptInstall, AcceptGoes, TypeOK, Thread
  <2>2. ASSUME NEW frame \in Frames, frame.topic = "playback",
               outboundFrames' = Enqueued(outboundFrames, frame), playback'.active <=> frame.on
        PROVE  playback'.active <=> b
    <3>1. outboundFrames' = Append(outboundFrames, frame)
      BY <2>2 DEF Enqueued, Droppable
    <3>2. frame.on = b
      BY <2>1, <2>2, <3>1, HearsNew
    <3> QED BY <2>2, <3>2
  <2>3. ASSUME NEW topics, "playback" \notin topics, Grows(topics), playback'.active = playback.active
        PROVE  playback'.active <=> b
    BY <1>2, <2>1, <2>3
  <2>4. /\ playback_started_frame.topic = "playback" /\ playback_started_frame.on = TRUE
        /\ playback_stopped_frame.topic = "playback" /\ playback_stopped_frame.on = FALSE
        /\ error_frame.topic = "error"
    BY DEF playback_started_frame, playback_stopped_frame, error_frame, Frame
  <2>5. CASE StartReturns
    <3>1. CASE playback' = [NoPlayback EXCEPT !.active = TRUE] /\ Replies(playback_started_frame, "loop")
      <4>1. playback'.active = TRUE
        BY <3>1 DEF NoPlayback
      <4> QED BY <2>2, <2>4, <3>1, <4>1, FrameTypes DEF Replies
    <3>2. CASE UNCHANGED playback /\ Replies(error_frame, "loop")
      <4>1. Grows({"error"})
        BY <2>4, <3>2, FrameTypes DEF Replies, Enqueued, Grows
      <4> QED BY <2>3, <3>2, <4>1
    <3> QED BY <2>5, <3>1, <3>2 DEF StartReturns
  <2>6. CASE ReadStop \/ ReadClear
    <3>1. CASE outboundFrames' = Enqueued(outboundFrames, playback_stopped_frame) /\ ~playback'.active
      BY <2>2, <2>4, <3>1, FrameTypes
    <3>2. CASE UNCHANGED outboundFrames /\ playback'.active = playback.active
      <4>1. Grows({}) /\ "playback" \notin {}
        BY <3>2 DEF Grows
      <4> QED BY <2>3, <3>2, <4>1
    <3> QED BY <2>6, <3>1, <3>2, NoPlaybackType DEF ReadStop, ReadClear, Replies, TypeOK
  <2>7. CASE fill_playback_samples
    <3>1. CASE outboundFrames' = Enqueued(outboundFrames, playback_stopped_frame) /\ ~playback'.active
      BY <2>2, <2>4, <3>1, FrameTypes
    <3>2. CASE UNCHANGED outboundFrames /\ playback'.active = playback.active
      <4>1. Grows({}) /\ "playback" \notin {}
        BY <3>2 DEF Grows
      <4> QED BY <2>3, <3>2, <4>1
    <3> QED BY <2>1, <2>7, <3>1, <3>2, NoPlaybackType DEF fill_playback_samples,
               EnqueueIfConnected, enqueue_frame_locked, TypeOK
  <2> QED BY <1>4, <2>5, <2>6, <2>7 DEF PlaybackSteps
<1>5. CASE ~AcceptInstall /\ ~WriterPops /\ ~PlaybackSteps
  <2>1. "playback" \notin ReportTopics /\ "playback" \notin Speakers
    BY BridgeAssumption DEF ReportTopics
  <2>2. (playback'.active = playback.active) \/ ~clientConnected'
    BY <1>5, Queueing DEF publish_speaker_start, publish_speaker_stop
  <2>3. Grows(Speakers) \/ Grows(ReportTopics)
    BY <1>5, Queueing DEF Attached
  <2> QED BY <1>2, <1>5, <2>1, <2>2, <2>3 DEF Attached
<1> QED BY <1>1, <1>3, <1>4, <1>5

\* Numbers, hellos, speakers and playback: what a consumer is told, as one invariant.
ViewInv == NumbersInv /\ HelloInv /\ SpeakersKnown /\ PlaybackView

\* Nobody is connected yet.
LEMMA ViewInit == Init => ViewInv
<1> SUFFICES ASSUME Init PROVE ViewInv
  OBVIOUS
<1> USE DEF Init, NoThread
<1>1. ~Attached /\ (\A t \in Workers : worker[t].pc = "off") /\ accept.pc = "off"
  BY DEF Attached, Workers
<1>2. NumbersInv
  BY <1>1 DEF NumbersInv
<1>3. HelloInv
  BY <1>1 DEF HelloInv, HelloFirst, SaysHello, Workers
<1> QED BY <1>1, <1>2, <1>3 DEF ViewInv, SpeakersKnown, PlaybackView

\* What the consumer in service will have heard is so after every step.
LEMMA ViewStep ==
    ASSUME ~FdReuse
    PROVE  TypeOK /\ OwnersInv /\ ViewInv /\ [Next]_vars => ViewInv'
BY NumbersStep, HelloStep, SpeakersStep, PlaybackStep DEF ViewInv

\* ViewInv holds as long as no number is handed out twice, whoever connects and
\* hangs up, whatever is published or asked, and whenever stop() is called.
THEOREM ViewCorrect ==
    ASSUME ~FdReuse
    PROVE  Spec => []ViewInv
BY ViewInit, ViewStep, TypeCorrect, OwnersCorrect, PTL DEF Spec

\* Once its queue is written, a consumer believes exactly the active speakers are
\* talking, and it hears nothing before its hello, if no number is reused.
THEOREM SpeakersAreHeard ==
    ASSUME ~FdReuse
    PROVE  Spec => []SpeakerView
<1>1. ViewInv => SpeakerView
  BY DEF ViewInv, HelloInv, SpeakersKnown, SpeakerView
<1> QED BY <1>1, ViewCorrect, PTL

\* A consumer that was told playback.started, stopped or cleared last finds the
\* session open, or closed, accordingly, if no number is reused.
THEOREM PlaybackIsHeard ==
    ASSUME ~FdReuse
    PROVE  Spec => []PlaybackView
<1>1. ViewInv => PlaybackView
  BY DEF ViewInv
<1> QED BY <1>1, ViewCorrect, PTL

-----------------------------------------------------------------------------
(* Bridge and host together.  Each sees the other do what it allows it to do, *)
(* so that what was proved about each of them alone holds of the system.     *)

HostProofs == INSTANCE PluginPlayback_proofs

\* The callers and capture threads are what the host's proofs take them for.
LEMMA HostAssumed == HostProofs!PlaybackAssumption /\ HostProofs!PlaybackCallers
BY SystemAssumption, BridgeCallers
DEF Host!PlaybackAssumption, HostProofs!PlaybackAssumption, HostProofs!PlaybackCallers,
    Host!HostEvents, HostProofs!HostEvents

\* The host of the system is the one that the proofs are about.
LEMMA SameEnds ==
    \A th, t, result : Host!Ends(th, t, result) => HostProofs!Ends(th, t, result)
BY DEF Host!Ends, HostProofs!Ends, Host!Idle, HostProofs!Idle, Host!NoSession,
       HostProofs!NoSession, Host!Answer, HostProofs!Answer, Host!Requests,
       HostProofs!Requests

LEMMA SameJoins ==
    /\ \A t : Host!Joined(t) <=> HostProofs!Joined(t)
    /\ \A th, t, pc : Host!AfterJoin(th, t, pc) = HostProofs!AfterJoin(th, t, pc)
    /\ Host!MutexFree <=> HostProofs!MutexFree
    /\ \A t, pc : Host!Goes(t, pc) <=> HostProofs!Goes(t, pc)
    /\ \A pc : Host!Idle(pc) = HostProofs!Idle(pc)
    /\ Host!NoSession = HostProofs!NoSession
    /\ Host!Threads = HostProofs!Threads /\ Host!HostThreads = HostProofs!HostThreads
BY DEF Host!Joined, HostProofs!Joined, Host!AfterJoin, HostProofs!AfterJoin, Host!Threads,
       HostProofs!Threads, Host!HostThreads, HostProofs!HostThreads, Host!MutexFree,
       HostProofs!MutexFree, Host!Goes, HostProofs!Goes, Host!Idle, HostProofs!Idle,
       Host!NoSession, HostProofs!NoSession

LEMMA SameHostSteps == Host!HostNext => HostProofs!HostNext
<1> USE SameEnds, SameJoins
<1>1. \A t : Host!Activating(t) \/ Host!DeactivateBegin(t) =>
            HostProofs!Activating(t) \/ HostProofs!DeactivateBegin(t)
  <2> SUFFICES ASSUME NEW t, Host!Activating(t) \/ Host!DeactivateBegin(t)
               PROVE  HostProofs!Activating(t) \/ HostProofs!DeactivateBegin(t)
    OBVIOUS
  <2>1. Host!ActivateBegin(t) => HostProofs!ActivateBegin(t)
    BY DEF Host!ActivateBegin, HostProofs!ActivateBegin
  <2>2. Host!ActivateJoined(t) => HostProofs!ActivateJoined(t)
    BY DEF Host!ActivateJoined, HostProofs!ActivateJoined
  <2>3. Host!ActivateCheck(t) => HostProofs!ActivateCheck(t)
    BY DEF Host!ActivateCheck, HostProofs!ActivateCheck, Host!Returns, HostProofs!Returns
  <2>4. Host!ensure_custom_capture_device_registered(t) => HostProofs!ensure_custom_capture_device_registered(t)
    BY DEF Host!ensure_custom_capture_device_registered,
       HostProofs!ensure_custom_capture_device_registered, Host!Returns, HostProofs!Returns
  <2>5. Host!snapshot_media_playback_session(t) => HostProofs!snapshot_media_playback_session(t)
    BY DEF Host!snapshot_media_playback_session, HostProofs!snapshot_media_playback_session
  <2>6. Host!CustomClose(t) => HostProofs!CustomClose(t)
    BY DEF Host!CustomClose, HostProofs!CustomClose
  <2>7. Host!CustomOpen(t) => HostProofs!CustomOpen(t)
    BY DEF Host!CustomOpen, HostProofs!CustomOpen
  <2>8. Host!CustomFlags(t) => HostProofs!CustomFlags(t)
    BY DEF Host!CustomFlags, HostProofs!CustomFlags
  <2>9. Host!ActivateCommit(t) => HostProofs!ActivateCommit(t)
    BY DEF Host!ActivateCommit, HostProofs!ActivateCommit
  <2>10. Host!ActivateAssigned(t) => HostProofs!ActivateAssigned(t)
    BY DEF Host!ActivateAssigned, HostProofs!ActivateAssigned
  <2>11. Host!DeactivateBegin(t) => HostProofs!DeactivateBegin(t)
    BY DEF Host!DeactivateBegin, HostProofs!DeactivateBegin
  <2> QED BY <2>1, <2>2, <2>3, <2>4, <2>5, <2>6, <2>7, <2>8, <2>9, <2>10, <2>11 DEF Host!Activating, HostProofs!Activating
<1>2. \A t : Host!Deactivating(t) => HostProofs!Deactivating(t)
  <2> SUFFICES ASSUME NEW t, Host!Deactivating(t) PROVE HostProofs!Deactivating(t)
    OBVIOUS
  <2>1. Host!DeactivateLock(t) => HostProofs!DeactivateLock(t)
    BY DEF Host!DeactivateLock, HostProofs!DeactivateLock, Host!Returns, HostProofs!Returns,
       Host!Takes, HostProofs!Takes
  <2>2. Host!DeactivateJoined(t) => HostProofs!DeactivateJoined(t)
    BY DEF Host!DeactivateJoined, HostProofs!DeactivateJoined
  <2>3. Host!RestoreClose(t) => HostProofs!RestoreClose(t)
    BY DEF Host!RestoreClose, HostProofs!RestoreClose
  <2>4. Host!RestoreOpen(t) => HostProofs!RestoreOpen(t)
    BY DEF Host!RestoreOpen, HostProofs!RestoreOpen
  <2>5. Host!RestoreFlags(t) => HostProofs!RestoreFlags(t)
    BY DEF Host!RestoreFlags, HostProofs!RestoreFlags, Host!Returns, HostProofs!Returns
  <2>6. Host!RestoreError(t) => HostProofs!RestoreError(t)
    BY DEF Host!RestoreError, HostProofs!RestoreError, Host!Returns, HostProofs!Returns
  <2> QED BY <2>1, <2>2, <2>3, <2>4, <2>5, <2>6 DEF Host!Deactivating, HostProofs!Deactivating
<1>3. \A c : /\ Host!CaptureLoop(c) => HostProofs!CaptureLoop(c)
             /\ Host!CaptureProcess(c) => HostProofs!CaptureProcess(c)
  BY DEF Host!CaptureLoop, HostProofs!CaptureLoop, Host!CaptureProcess,
       HostProofs!CaptureProcess, Host!AfterFill, HostProofs!AfterFill
<1>4. /\ Host!Disconnected => HostProofs!Disconnected
      /\ Host!ShutdownBegin => HostProofs!ShutdownBegin
      /\ Host!ShutdownUnregister => HostProofs!ShutdownUnregister
      /\ Host!ShutdownJoined => HostProofs!ShutdownJoined
  BY DEF Host!Disconnected, HostProofs!Disconnected, Host!ShutdownBegin,
       HostProofs!ShutdownBegin, Host!ShutdownUnregister, HostProofs!ShutdownUnregister,
       Host!ShutdownJoined, HostProofs!ShutdownJoined
<1> QED BY <1>1, <1>2, <1>3, <1>4 DEF Host!HostNext, HostProofs!HostNext

LEMMA SameFills ==
    ASSUME NEW c, NEW filled, Host!CaptureFills(c, filled)
    PROVE  HostProofs!CaptureFills(c, filled)
BY DEF Host!CaptureFills, HostProofs!CaptureFills, Host!AfterFill, HostProofs!AfterFill

LEMMA SameInit == Host!Init => HostProofs!Init
BY SameJoins DEF Host!Init, HostProofs!Init, Host!CallInit, HostProofs!CallInit

\* What the bridge does about control calls: its reader asks for activations, its
\* threads for the ends of sessions, and each looks at its answer.
LEMMA BridgeAsks ==
    ASSUME BridgeNext
    PROVE  \/ UNCHANGED call
           \/ \E t \in Callers :
                \/ \E request \in Requests : (request = "activate" => t = "reader") /\ Invoke(t, request)
                \/ \E result \in Results : Consume(t, result)
<1> DEFINE Asks == \/ UNCHANGED call
                   \/ \E t \in Callers :
                        \/ \E request \in Requests :
                             (request = "activate" => t = "reader") /\ Invoke(t, request)
                        \/ \E result \in Results : Consume(t, result)
<1>0. "reader" \in Callers /\ "writer" \in Callers /\ "stop" \in Callers
  BY BridgeCallers
<1>1. CASE Start \/ Accepting \/ Writing \/ Publishing \/ \E f \in Fds : PeerHangsUp(f)
  <2>1. UNCHANGED call
    BY <1>1 DEF Start, Accepting, AcceptLoop, AcceptConn, AcceptFails, AcceptBusy, AcceptFree,
       AcceptInstall, AcceptSpawn, Writing, WriterQuits, WriterSleeps, WriterPops, WriterWrites,
       WriterFails, Publishing, publish_speaker_start, publish_speaker_stop, AudioBegin, AudioEnd,
       PeerHangsUp
  <2> QED BY <2>1
<1>2. CASE Reading
  <2>1. \/ UNCHANGED call \/ Invoke("reader", "activate") \/ Invoke("reader", "deactivate")
        \/ \E result \in Results : Consume("reader", result)
    BY <1>2 DEF Reading, ReaderLoop, ReadInvalid, ReadStatus, ReadStart, StartReturns, ReadChunk,
       ReadStop, ReadClear, DeactivateReturns, ReadEof, Results
  <2> QED BY <1>0, <2>1 DEF Requests
<1>3. ASSUME NEW t \in {"reader", "writer"}, Disconnecting(t) PROVE Asks
  <2>1. UNCHANGED call \/ Invoke(t, "deactivate") \/ \E result \in Results : Consume(t, result)
    BY <1>3 DEF Disconnecting, DisconnectLock, DisconnectClose, DisconnectReturns
  <2> QED BY <1>0, <2>1 DEF Requests
<1>4. CASE Stopping
  <2>1. UNCHANGED call \/ Invoke("stop", "deactivate") \/ \E result \in Results : Consume("stop", result)
    BY <1>4 DEF Stopping, StopBegin, StopRequest, StopShutdown, StopJoins, StopReset, StopReturns
  <2> QED BY <1>0, <2>1 DEF Requests
<1> QED BY <1>1, <1>2, <1>3, <1>4 DEF BridgeNext

\* stop() alone makes and follows its own call.
LEMMA StopAsks ==
    ASSUME TypeOK, BridgeNext
    PROVE  \/ stopper'.pc = stopper.pc /\ call'["stop"] = call["stop"]
           \/ stopper'.pc \notin {"deactivate", "done"}
           \/ /\ stopper'.pc = "deactivate"
              /\ call["stop"] = "none" /\ call'["stop"] = "deactivate"
           \/ stopper.pc = "deactivate" /\ call["stop"] \in Results
<1>0. call \in [Callers -> CallStates] /\ "stop" \in Callers
  BY BridgeCallers DEF TypeOK, CallTypeOK
<1>1. CASE Start \/ Accepting \/ Writing \/ Publishing \/ \E f \in Fds : PeerHangsUp(f)
  BY <1>1 DEF Start, Accepting, AcceptLoop, AcceptConn, AcceptFails, AcceptBusy, AcceptFree,
     AcceptInstall, AcceptSpawn, Writing, WriterQuits, WriterSleeps, WriterPops, WriterWrites,
     WriterFails, Publishing, publish_speaker_start, publish_speaker_stop, AudioBegin, AudioEnd,
     PeerHangsUp
<1>2. CASE Reading
  <2>1. /\ UNCHANGED stopper
        /\ UNCHANGED call \/ \E what : call' = [call EXCEPT !["reader"] = what]
    BY <1>2 DEF Reading, ReaderLoop, ReadInvalid, ReadStatus, ReadStart, StartReturns, ReadChunk,
       ReadStop, ReadClear, DeactivateReturns, ReadEof, Results, Reads, Invoke, Consume
  <2> QED BY <1>0, <2>1
<1>3. ASSUME NEW t \in {"reader", "writer"}, Disconnecting(t)
      PROVE  stopper'.pc = stopper.pc /\ call'["stop"] = call["stop"]
  <2>1. UNCHANGED stopper /\ (UNCHANGED call \/ \E what : call' = [call EXCEPT ![t] = what])
    BY <1>3 DEF Disconnecting, DisconnectLock, DisconnectClose, DisconnectReturns, Invoke, Consume
  <2> QED BY <1>0, <2>1
<1>4. CASE Stopping
  <2>1. stopper \in [pc : StopperPcs, fd : Fds \cup {NoFd}]
    BY DEF TypeOK
  <2>2. CASE StopBegin \/ StopRequest \/ StopShutdown \/ StopJoins
    BY <2>1, <2>2 DEF StopBegin, StopRequest, StopShutdown, StopJoins, StopGoes
  <2>3. CASE StopReset
    BY <1>0, <2>1, <2>3 DEF StopReset, StopGoes, Invoke
  <2>4. CASE StopReturns
    BY <1>0, <2>1, <2>4 DEF StopReturns, StopGoes, Consume
  <2> QED BY <1>4, <2>2, <2>3, <2>4 DEF Stopping
<1> QED BY <1>1, <1>2, <1>3, <1>4 DEF BridgeNext

\* Every step of the system is one of the host and of its environment.
LEMMA HostSteps == [SystemNext]_systemVars => [HostProofs!Next]_(HostProofs!playbackVars)
<1> USE DEF HostProofs!playbackVars, HostProofs!hostVars, hostVars
<1>1. CASE BridgeStep
  <2>1. BridgeNext /\ UNCHANGED hostVars
    BY <1>1 DEF BridgeStep
  <2>2. UNCHANGED call \/ \E t \in Callers : HostProofs!BridgeCalls(t)
    BY <2>1, BridgeAsks
    DEF HostProofs!BridgeCalls, HostProofs!Requests, Requests, HostProofs!Results, Results,
        HostProofs!Invoke, Invoke, HostProofs!Consume, Consume
  <2> QED BY <2>1, <2>2 DEF HostProofs!Next
<1>2. CASE HostStep
  BY <1>2, SameHostSteps DEF HostStep, HostProofs!Next
<1>3. ASSUME NEW c \in Captures, CaptureTicks(c)
      PROVE  HostProofs!Next
  <2>1. \E filled \in BOOLEAN : Host!CaptureFills(c, filled)
    BY <1>3 DEF CaptureTicks
  <2> QED BY <2>1, SameFills DEF HostProofs!Next, HostProofs!BridgeFills
<1> QED BY <1>1, <1>2, <1>3 DEF SystemNext, Recorded, systemVars, vars

\* Every step of the system is one of the bridge and of its environment.
LEMMA BridgeSteps == OwnersInv /\ [SystemNext]_systemVars => [Next]_vars
<1> SUFFICES ASSUME OwnersInv, [SystemNext]_systemVars PROVE [Next]_vars
  OBVIOUS
<1>1. CASE BridgeStep
  BY <1>1 DEF BridgeStep, Next
<1>2. CASE HostStep
  <2>1. HostProofs!HostNext /\ UNCHANGED bridgeVars
    BY <1>2, SameHostSteps DEF HostStep
  <2>2. UNCHANGED call \/ \E t \in Callers, result \in Results : Answer(t, result)
    BY <2>1, HostAssumed, HostProofs!HostAnswers, HostProofs!PlaybackAssumption,
       HostProofs!PlaybackCallers
    DEF HostProofs!Answer, Answer, HostProofs!Results, Results, HostProofs!Requests, Requests
  <2>3. CASE UNCHANGED call
    BY <2>1, <2>3 DEF bridgeVars, vars
  <2>4. ASSUME NEW t \in Callers, NEW result \in Results, Answer(t, result) PROVE Next
    <3>1. t \in {"reader", "writer", "stop"}
      BY <2>4 DEF OwnersInv, CallInv, Workers, Answer, Requests
    <3>2. ControlAnswers(t)
      BY <2>1, <2>4 DEF ControlAnswers, bridgeVars
    <3> QED BY <3>1, <3>2 DEF Next
  <2> QED BY <2>2, <2>3, <2>4
<1>3. ASSUME NEW c \in Captures, CaptureTicks(c) PROVE [Next]_vars
  BY <1>3 DEF CaptureTicks, Host!CaptureFills, Next, bridgeVars, vars
<1> QED BY <1>1, <1>2, <1>3 DEF SystemNext, Recorded, systemVars

\* stop() has called the host, and the host has looked for a session to end.
Swept ==
    \/ stopper.pc = "done"
    \/ stopper.pc = "deactivate" /\ (call["stop"] \in Results \/ thread["stop"].pc \notin {"idle", "lock"})

\* What is so of bridge and host together: each keeps its own invariant; stop() ends the
\* bridge when the host is shut down, and what it has swept stays so.
SystemInv ==
    /\ TypeOK /\ OwnersInv
    /\ HostProofs!PlaybackInv /\ HostProofs!RestInv
    /\ stopper.pc # "idle" => thread["shutdown"].pc = "finished"
    /\ Swept => captureThread = NoCapture

\* The system keeps it.
LEMMA SystemKeeps == SystemInv /\ [SystemNext]_systemVars => SystemInv'
<1> SUFFICES ASSUME SystemInv, [SystemNext]_systemVars PROVE SystemInv'
  OBVIOUS
<1>0. TypeOK /\ OwnersInv /\ HostProofs!PlaybackInv /\ HostProofs!RestInv
  BY DEF SystemInv
<1>1. [Next]_vars /\ [HostProofs!Next]_(HostProofs!playbackVars)
  BY <1>0, BridgeSteps, HostSteps
<1>2. TypeOK' /\ OwnersInv'
  BY <1>0, <1>1, TypeStep, OwnersStep
<1>3. HostProofs!PlaybackInv'
  BY <1>0, <1>1, HostProofs!InvStep, HostAssumed, HostProofs!PlaybackAssumption,
     HostProofs!PlaybackCallers
<1>4. HostProofs!RestInv'
  BY <1>0, <1>1, HostProofs!RestStep, HostAssumed, HostProofs!PlaybackAssumption,
     HostProofs!PlaybackCallers
<1>5. /\ "stop" \in Callers /\ "reader" \in Callers /\ call \in [Callers -> CallStates]
      /\ stopper \in [pc : StopperPcs, fd : Fds \cup {NoFd}]
  BY <1>0, BridgeCallers DEF TypeOK, CallTypeOK
<1>6. /\ stopper'.pc # "idle" => thread'["shutdown"].pc = "finished"
      /\ Swept' => captureThread' = NoCapture
  <2>1. CASE UNCHANGED systemVars
    BY <2>1 DEF systemVars, hostVars, vars, SystemInv, Swept
  <2>2. CASE BridgeStep
    <3>1. BridgeNext /\ UNCHANGED hostVars /\ (stopper' # stopper => thread["shutdown"].pc = "finished")
      BY <2>2 DEF BridgeStep
    <3>2. stopper'.pc # "idle" => thread'["shutdown"].pc = "finished"
      BY <3>1 DEF SystemInv, hostVars
    <3>3. call["stop"] = "none" => thread["stop"].pc = "idle"
      BY <1>0, <1>5 DEF HostProofs!RestInv, HostProofs!Requests
    <3>4. Swept' => Swept
      BY <1>0, <3>1, <3>3, StopAsks DEF Swept, hostVars, Results
    <3> QED BY <3>1, <3>2, <3>4 DEF SystemInv, hostVars
  <2>3. CASE HostStep
    <3>1. HostProofs!HostNext /\ UNCHANGED stopper
      BY <2>3, SameHostSteps DEF HostStep, bridgeVars
    <3>2. stopper.pc \in {"deactivate", "done"} =>
            call["reader"] \notin HostProofs!Requests
      BY <1>0 DEF OwnersInv, StopInv, CallInv, HostProofs!Requests
    <3>3. thread["shutdown"].pc = "finished" => thread'["shutdown"].pc = "finished"
      BY <1>0, <3>1, HostProofs!FinishedStays, HostAssumed, HostProofs!PlaybackAssumption,
         HostProofs!PlaybackCallers
    <3>4. ASSUME stopper.pc \in {"deactivate", "done"}
          PROVE  /\ captureThread = NoCapture => captureThread' = NoCapture
                 /\ \/ thread'["stop"].pc = thread["stop"].pc /\ call'["stop"] = call["stop"]
                    \/ /\ thread["stop"].pc = "idle" /\ thread'["stop"].pc = "lock"
                       /\ call'["stop"] = call["stop"]
                    \/ thread["stop"].pc = "lock" /\ captureThread' = NoCapture
                    \/ thread["stop"].pc \notin {"idle", "lock"}
      BY <1>0, <1>5, <3>1, <3>2, <3>4, HostProofs!WindingDown, HostAssumed,
         HostProofs!PlaybackAssumption, HostProofs!PlaybackCallers
    <3>5. ASSUME Swept' PROVE captureThread' = NoCapture
      <4>1. stopper.pc \in {"deactivate", "done"}
        BY <3>1, <3>5 DEF Swept
      <4>2. Swept \/ captureThread' = NoCapture
        BY <3>1, <3>4, <3>5, <4>1 DEF Swept
      <4> QED BY <3>4, <4>1, <4>2 DEF SystemInv
    <3> QED BY <3>1, <3>3, <3>5 DEF SystemInv
  <2>4. ASSUME NEW c \in Captures, CaptureTicks(c)
        PROVE  /\ stopper'.pc # "idle" => thread'["shutdown"].pc = "finished"
               /\ Swept' => captureThread' = NoCapture
    <3>1. /\ UNCHANGED <<stopper, call, captureThread>>
          /\ \E filled \in BOOLEAN : HostProofs!CaptureFills(c, filled)
      BY <2>4, SameFills DEF CaptureTicks, bridgeVars, fill_playback_samples, Host!CaptureFills
    <3>2. /\ thread \in [HostProofs!Threads -> HostProofs!ThreadStates]
          /\ c \notin Callers \cup {"callback", "shutdown"}
      BY <1>0, HostAssumed DEF HostProofs!PlaybackInv, HostProofs!TypeOK, HostProofs!PlaybackAssumption
    <3>3. thread'["stop"] = thread["stop"] /\ thread'["shutdown"] = thread["shutdown"]
      BY <1>5, <3>1, <3>2 DEF HostProofs!CaptureFills, HostProofs!Threads, HostProofs!HostThreads
    <3> QED BY <3>1, <3>3 DEF SystemInv, Swept
  <2> QED BY <2>1, <2>2, <2>3, <2>4 DEF SystemNext, Recorded
<1> QED BY <1>2, <1>3, <1>4, <1>6 DEF SystemInv

\* It holds before anything has happened.
LEMMA SystemBegins == SystemInit => SystemInv
<1> SUFFICES ASSUME SystemInit PROVE SystemInv
  OBVIOUS
<1>1. HostProofs!PlaybackInv /\ HostProofs!RestInv
  BY SameInit, HostProofs!InvInit, HostProofs!RestInit, HostAssumed,
     HostProofs!PlaybackAssumption, HostProofs!PlaybackCallers DEF SystemInit
<1>2. TypeOK /\ OwnersInv
  BY TypeInit, OwnersInit DEF SystemInit
<1>3. stopper.pc = "idle"
  BY DEF SystemInit, Init
<1> QED BY <1>1, <1>2, <1>3 DEF SystemInv, Swept

\* Bridge and host run together as each was proved to run alone, for any consumers,
\* speakers, limits, capture threads and failures, and stop() leaves the field empty.
THEOREM SystemCorrect == SystemSpec => []SystemInv
BY SystemBegins, SystemKeeps, PTL DEF SystemSpec

\* Once SocketBridgeServer::stop is through, the host has no session and no capture
\* thread, even for a consumer whose playback.start came between the end of the host
\* and that of the bridge; unless TeamSpeak's callback is still ending the session.
THEOREM HostRests == SystemSpec => [](thread["callback"].pc = "idle" => HostAtRest)
<1>1. SystemInv /\ thread["callback"].pc = "idle" => HostAtRest
  <2> SUFFICES ASSUME SystemInv, thread["callback"].pc = "idle", stopper.pc = "done"
               PROVE  /\ ~mediaPlaybackActive /\ captureThread = NoCapture
                      /\ \A c \in Captures : thread[c].pc = "off"
    BY DEF HostAtRest
  <2>1. captureThread = NoCapture /\ thread["shutdown"].pc = "finished"
    BY DEF SystemInv, Swept
  <2>2. \A t \in Callers : call[t] \notin HostProofs!Requests
    BY BridgeCallers DEF SystemInv, OwnersInv, StopInv, CallInv, Workers, HostProofs!Requests
  <2> QED
    BY <2>1, <2>2, HostProofs!NobodyLeft, HostAssumed, HostProofs!PlaybackAssumption,
       HostProofs!PlaybackCallers DEF SystemInv
<1> QED BY <1>1, SystemCorrect, PTL

\* Without a disconnect meanwhile, the host is at rest once stop() is through.
THEOREM StopLeavesHostAtRest ==
    ASSUME "disconnect" \notin Happens
    PROVE  SystemSpec => []HostAtRest
<1> DEFINE Idles == thread["callback"].pc = "idle"
<1>1. SystemInit => Idles
  <2>1. SystemInit => HostProofs!Init
    BY SameInit DEF SystemInit
  <2>2. "callback" \notin Captures
    BY HostAssumed DEF HostProofs!PlaybackAssumption
  <2> QED
    BY <2>1, <2>2
    DEF HostProofs!Init, HostProofs!Idle, HostProofs!Threads, HostProofs!HostThreads
<1>2. SystemInv /\ Idles /\ [SystemNext]_systemVars => Idles'
  <2> SUFFICES ASSUME SystemInv, Idles, [SystemNext]_systemVars PROVE Idles'
    OBVIOUS
  <2>1. HostProofs!PlaybackInv /\ [HostProofs!Next]_(HostProofs!playbackVars)
    BY HostSteps DEF SystemInv
  <2> QED
    BY <2>1, HostProofs!CallbackIdles, HostAssumed, HostProofs!PlaybackAssumption,
       HostProofs!PlaybackCallers
<1>3. SystemSpec => []Idles
  BY <1>1, <1>2, SystemCorrect, PTL DEF SystemSpec
<1> QED BY <1>3, HostRests, PTL

-----------------------------------------------------------------------------
(* The microphone.  That no activation meets the end of a session, which the   *)
(* host's proof asks for, the history variable says; the bridge's part is that *)
(* as long as the host has a session on, somebody is there who will end it.    *)

\* An activation is the doing of a reader in its call, whose consumer is still there
\* or is being seen off by the writer.
AskedFor ==
    call["reader"] = "activate" =>
        /\ worker["reader"].pc = "activate"
        /\ clientConnected \/ worker["writer"].pc = "close"

\* The bridge has a session on, or is about to open or to end one.
BridgeMinds ==
    \/ clientConnected /\ playback.active
    \/ worker["reader"].pc = "activate" /\ call["reader"] = "ok" /\ clientConnected
    \/ \E t \in Workers : worker[t].pc = "close"

\* Who is to end the session the host has on.
Minded ==
    mediaPlaybackActive =>
        \/ BridgeMinds
        \/ thread["reader"].pc = "assign"
        \/ \E t \in Callers : HostProofs!WillEnd(t)
        \/ \E c \in Captures : HostProofs!Drains(c)

MicInv ==
    /\ SystemInv /\ NumbersInv /\ HostProofs!ReaderCalls
    /\ Overlap => overlapped
    /\ ~overlapped => HostProofs!HeldInv /\ HostProofs!SwapInv /\ AskedFor /\ Minded

\* Where no activation overlaps the end of a session, the host's proof applies.
LEMMA NoOverlap ==
    ASSUME ~Overlap
    PROVE  HostProofs!ActsApart
BY SameJoins, BridgeCallers
DEF Overlap, HostProofs!ActsApart, HostProofs!EndingPcs, HostProofs!Threads, HostProofs!HostThreads

\* The bridge activates for a consumer that is there, and nothing but the writer's
\* DisconnectClose, which ends a session, turns its back on it.
LEMMA AskedStep ==
    ASSUME TypeOK, OwnersInv, NumbersInv, AskedFor, BridgeNext,
           call'["reader"] = "activate" => call'["writer"] # "deactivate"
    PROVE  AskedFor'
<1> USE DEF Workers
<1>0. /\ worker \in [Workers -> Thread(WorkerPcs)] /\ call \in [Callers -> CallStates]
      /\ "reader" \in Callers /\ "writer" \in Callers
      /\ OwnersInv /\ ConsumerInv /\ WorkersInv /\ LinkInv /\ StopInv
  BY BridgeCallers DEF TypeOK, CallTypeOK, OwnersInv
<1> SUFFICES ASSUME call'["reader"] = "activate"
             PROVE  worker'["reader"].pc = "activate" /\ (clientConnected' \/ worker'["writer"].pc = "close")
  BY DEF AskedFor
<1>1. CASE ReadStart
  <2> DEFINE f == worker["reader"].fd
  <2>1. /\ worker["reader"].pc = "read" /\ link[f] \in {"open", "hungup"} /\ UNCHANGED clientConnected
        /\ worker' = Goes(worker, "reader", "activate")
    BY <1>1 DEF ReadStart, Reads, clientVars
  <2>2. f \in Fds /\ f # NoFd
    BY <1>0, <2>1, BridgeAssumption DEF WorkersInv
  <2>3. clientConnected \/ worker["writer"].pc = "close"
    BY <1>0, <2>1, <2>2 DEF LinkInv, NumbersInv
  <2>4. worker'["reader"].pc = "activate" /\ worker'["writer"] = worker["writer"]
    BY <1>0, <2>1, WorkerGoes
  <2> QED BY <2>1, <2>3, <2>4
<1>2. CASE call["reader"] = "activate"
  <2>1. worker["reader"].pc = "activate" /\ (clientConnected \/ worker["writer"].pc = "close")
        /\ accept.pc # "spawn"
    BY <1>0, <1>2 DEF AskedFor, ConsumerInv
  <2>2. ASSUME NEW t \in Workers PROVE Notify(worker)[t].pc = worker[t].pc \/ worker[t].pc = "asleep"
    BY <1>0 DEF Notify
  <2>3. CASE Start \/ Accepting \/ \E g \in Fds : PeerHangsUp(g)
    BY <2>1, <2>3 DEF Start, Accepting, AcceptLoop, AcceptConn, AcceptFails, AcceptBusy, AcceptFree,
       AcceptInstall, AcceptSpawn, AcceptGoes, PeerHangsUp, clientVars
  <2>4. CASE Reading
    <3>1. ~ReadEof /\ ~ReaderLoop /\ ~DeactivateReturns /\ ~ReadStart
      BY <2>1 DEF ReadEof, ReaderLoop, DeactivateReturns, ReadStart, Reads
    <3>2. ~ReadInvalid /\ ~ReadStatus /\ ~ReadStop /\ ~ReadClear /\ \A n \in ChunkSizes : ~ReadChunk(n)
      BY <2>1 DEF ReadInvalid, ReadStatus, ReadStop, ReadClear, ReadChunk, Reads
    <3>3. ~StartReturns
      BY <1>2 DEF StartReturns, Consume
    <3> QED BY <2>4, <3>1, <3>2, <3>3 DEF Reading
  <2>5. CASE Writing
    <3>1. /\ worker["writer"].pc \in {"loop", "write"} /\ UNCHANGED clientConnected
          /\ worker'["reader"] = worker["reader"]
      BY <1>0, <2>5, WorkerGoes, WorkerEnds
      DEF Writing, WriterQuits, WriterSleeps, WriterPops, WriterWrites, WriterFails, clientVars
    <3> QED BY <2>1, <3>1
  <2>6. ASSUME NEW t \in Workers, Disconnecting(t)
        PROVE  worker'["reader"].pc = "activate" /\ (clientConnected' \/ worker'["writer"].pc = "close")
    <3>1. t = "writer"
      BY <2>1, <2>6 DEF Disconnecting, DisconnectLock, DisconnectClose, DisconnectReturns
    <3>2. ~DisconnectClose(t)
      BY <1>0, <3>1 DEF DisconnectClose, Invoke
    <3>3. CASE DisconnectLock(t) /\ worker' = Exits(worker, t) /\ UNCHANGED clientConnected
      BY <1>0, <2>1, <3>1, <3>3, WorkerEnds DEF DisconnectLock
    <3>4. CASE DisconnectLock(t) /\ worker' = Goes(Notify(worker), t, "close")
      <4>1. Notify(worker) \in [Workers -> Thread(WorkerPcs)] /\ Notify(worker)["reader"] = worker["reader"]
        BY <1>0 DEF Notify, Thread, WorkerPcs
      <4> QED BY <2>1, <3>1, <3>4, <4>1, WorkerGoes
    <3>5. CASE DisconnectReturns(t)
      BY <1>0, <2>1, <3>1, <3>5, WorkerEnds DEF DisconnectReturns, clientVars
    <3> QED BY <2>6, <3>2, <3>3, <3>4, <3>5 DEF Disconnecting, DisconnectLock, clientVars
  <2>7. CASE Publishing
    <3>1. UNCHANGED clientConnected /\ (worker' = worker \/ worker' = Notify(worker))
      BY <2>7 DEF Publishing, publish_speaker_start, publish_speaker_stop, AudioBegin, AudioEnd,
         EnqueueIfConnected, enqueue_frame_locked, clientVars
    <3> QED BY <2>1, <2>2, <3>1
  <2>8. CASE Stopping
    <3>1. ~StopReset
      BY <1>0, <2>1 DEF StopReset, StopGoes, StopInv
    <3>2. CASE StopBegin \/ StopShutdown \/ StopJoins \/ StopReturns
      BY <2>1, <2>2, <3>2 DEF StopBegin, StopShutdown, StopJoins, StopReturns, clientVars
    <3>3. CASE StopRequest
      BY <1>0, <2>1, <3>3 DEF StopRequest, clientVars, Thread
    <3> QED BY <2>8, <3>1, <3>2, <3>3 DEF Stopping
  <2> QED BY <2>3, <2>4, <2>5, <2>6, <2>7, <2>8 DEF BridgeNext
<1>3. CASE call["reader"] # "activate" /\ ~ReadStart
  <2>1. UNCHANGED call \/ \E t \in Callers, what \in CallStates \ {"activate"} : call' = [call EXCEPT ![t] = what]
    <3>1. CASE Start \/ Accepting \/ Writing \/ Publishing \/ \E g \in Fds : PeerHangsUp(g)
      BY <3>1 DEF Start, Accepting, AcceptLoop, AcceptConn, AcceptFails, AcceptBusy, AcceptFree,
         AcceptInstall, AcceptSpawn, Writing, WriterQuits, WriterSleeps, WriterPops, WriterWrites,
         WriterFails, Publishing, publish_speaker_start, publish_speaker_stop, AudioBegin, AudioEnd,
         PeerHangsUp
    <3>2. CASE Reading
      BY <1>0, <1>3, <3>2 DEF Reading, ReaderLoop, ReadInvalid, ReadStatus, StartReturns, ReadChunk,
         ReadStop, ReadClear, DeactivateReturns, ReadEof, Invoke, Consume, CallStates, Requests
    <3>3. CASE \E t \in Workers : Disconnecting(t)
      BY <1>0, <3>3 DEF Disconnecting, DisconnectLock, DisconnectClose, DisconnectReturns, Invoke,
         Consume, CallStates, Requests
    <3>4. CASE Stopping
      BY <3>4, BridgeCallers DEF Stopping, StopBegin, StopRequest, StopShutdown, StopJoins, StopReset,
         StopReturns, Invoke, Consume, CallStates, Requests
    <3> QED BY <3>1, <3>2, <3>3, <3>4 DEF BridgeNext
  <2> QED BY <1>0, <1>3, <2>1
<1> QED BY <1>1, <1>2, <1>3

\* A bridge that minds a session goes on to until it asks the host to end it.
LEMMA MindsOn ==
    ASSUME TypeOK, OwnersInv, BridgeMinds, BridgeNext
    PROVE  BridgeMinds' \/ \E t \in Callers : call[t] = "none" /\ call'[t] = "deactivate"
<1> USE DEF Workers
<1>0. /\ worker \in [Workers -> Thread(WorkerPcs)] /\ call \in [Callers -> CallStates]
      /\ {"reader", "writer", "stop"} \subseteq Callers
      /\ OwnersInv /\ ConsumerInv /\ WorkersInv
  BY BridgeCallers DEF TypeOK, CallTypeOK, OwnersInv
<1> DEFINE Asked == \E t \in Callers : call[t] = "none" /\ call'[t] = "deactivate"
<1>1. ASSUME NEW t \in Callers, Invoke(t, "deactivate") PROVE Asked
  BY <1>0, <1>1 DEF Invoke
<1>2. ASSUME clientConnected => clientConnected', playback.active => playback'.active, UNCHANGED call,
             \A t \in Workers : worker[t].pc \in {"close", "activate"} => worker'[t].pc = worker[t].pc
      PROVE  BridgeMinds'
  BY <1>2 DEF BridgeMinds
<1>3. \A t \in Workers : worker[t].pc \in {"close", "activate"} => Notify(worker)[t].pc = worker[t].pc
  BY <1>0 DEF Notify
<1>4. CASE Start \/ Accepting \/ \E g \in Fds : PeerHangsUp(g)
  <2>1. CASE AcceptSpawn
    <3>1. UNCHANGED <<clientConnected, playback, call>> /\ \A t \in Workers : worker[t].pc = "off"
      BY <1>0, <2>1 DEF AcceptSpawn, ConsumerInv, clientVars
    <3> QED BY <1>2, <3>1
  <2>2. CASE ~AcceptSpawn
    <3>1. /\ clientConnected' \/ UNCHANGED clientConnected
          /\ UNCHANGED <<playback, call, worker>>
      BY <1>4, <2>2 DEF Start, Accepting, AcceptLoop, AcceptConn, AcceptFails, AcceptBusy, AcceptFree,
         AcceptInstall, AcceptGoes, PeerHangsUp, clientVars
    <3> QED BY <1>2, <3>1
  <2> QED BY <2>1, <2>2
<1>5. CASE Reading
  <2>1. UNCHANGED clientConnected
    BY <1>5 DEF Reading, ReaderLoop, ReadInvalid, ReadStatus, ReadStart, StartReturns, ReadChunk,
       ReadStop, ReadClear, DeactivateReturns, ReadEof, Reads, clientVars
  <2>2. ASSUME NEW to, worker' = Goes(worker, "reader", to) \/ worker' = Goes(Notify(worker), "reader", to)
        PROVE  worker["writer"].pc = "close" => worker'["writer"].pc = "close"
    <3>1. Notify(worker) \in [Workers -> Thread(WorkerPcs)]
      BY <1>0 DEF Notify, Thread, WorkerPcs
    <3>2. worker'["writer"] = worker["writer"] \/ worker'["writer"] = Notify(worker)["writer"]
      BY <1>0, <2>2, <3>1, WorkerGoes
    <3> QED BY <1>3, <3>2
  <2>3. CASE ReadStop \/ ReadClear
    <3>1. \/ Invoke("reader", "deactivate")
          \/ /\ UNCHANGED call /\ playback'.active = playback.active /\ worker["reader"].pc = "read"
             /\ \E to : worker' = Goes(worker, "reader", to) \/ worker' = Goes(Notify(worker), "reader", to)
      BY <2>3 DEF ReadStop, ReadClear, Reads, Replies, TypeOK
    <3>2. CASE Invoke("reader", "deactivate")
      BY <1>0, <1>1, <3>2
    <3>3. CASE /\ UNCHANGED call /\ playback'.active = playback.active /\ worker["reader"].pc = "read"
               /\ \E to : worker' = Goes(worker, "reader", to) \/ worker' = Goes(Notify(worker), "reader", to)
      BY <2>1, <2>2, <3>3 DEF BridgeMinds
    <3> QED BY <3>1, <3>2, <3>3
  <2>4. CASE StartReturns
    <3>1. /\ worker["reader"].pc = "activate" /\ call["reader"] \in {"ok", "failed"}
          /\ playback.active => playback'.active
          /\ call["reader"] = "ok" => playback'.active
          /\ worker' = Goes(Notify(worker), "reader", "loop")
      BY <2>4 DEF StartReturns, Consume, Replies, NoPlayback
    <3> QED BY <2>1, <2>2, <3>1 DEF BridgeMinds
  <2>5. CASE ReadStart
    <3>1. /\ worker["reader"].pc = "read" /\ UNCHANGED playback
          /\ worker' = Goes(worker, "reader", "activate")
      BY <2>5 DEF ReadStart, Reads
    <3> QED BY <2>1, <2>2, <3>1 DEF BridgeMinds
  <2>6. CASE ReaderLoop \/ ReadInvalid \/ ReadStatus \/ (\E n \in ChunkSizes : ReadChunk(n))
             \/ DeactivateReturns \/ ReadEof
    <3>1. /\ worker["reader"].pc \in {"loop", "read", "deactivate"} /\ playback'.active = playback.active
          /\ \E to : worker' = Goes(worker, "reader", to) \/ worker' = Goes(Notify(worker), "reader", to)
      BY <2>6 DEF ReaderLoop, ReadInvalid, ReadStatus, ReadChunk, DeactivateReturns, ReadEof, Reads, Replies, TypeOK
    <3> QED BY <2>1, <2>2, <3>1 DEF BridgeMinds
  <2> QED BY <1>5, <2>3, <2>4, <2>5, <2>6 DEF Reading
<1>6. CASE Writing
  <2>1. /\ worker["writer"].pc \in {"loop", "write"} /\ UNCHANGED <<clientConnected, playback, call>>
        /\ worker'["reader"] = worker["reader"]
    BY <1>0, <1>6, WorkerGoes, WorkerEnds
    DEF Writing, WriterQuits, WriterSleeps, WriterPops, WriterWrites, WriterFails, clientVars
  <2> QED BY <1>2, <2>1
<1>7. ASSUME NEW t \in Workers, Disconnecting(t) PROVE BridgeMinds' \/ Asked
  <2>1. CASE DisconnectLock(t) /\ worker' = Exits(worker, t) /\ UNCHANGED <<clientConnected, playback>>
    <3>1. worker[t].pc = "leave" /\ UNCHANGED call /\ \A u \in Workers \ {t} : worker'[u] = worker[u]
      BY <1>0, <2>1, WorkerEnds DEF DisconnectLock
    <3> QED BY <1>2, <2>1, <3>1
  <2>2. CASE worker' = Goes(Notify(worker), t, "close")
    <3>1. Notify(worker) \in [Workers -> Thread(WorkerPcs)]
      BY <1>0 DEF Notify, Thread, WorkerPcs
    <3>2. worker'[t].pc = "close"
      BY <2>2, <3>1, WorkerGoes
    <3> QED BY <3>2 DEF BridgeMinds
  <2>3. CASE DisconnectClose(t)
    BY <1>0, <1>1, <2>3 DEF DisconnectClose
  <2>4. CASE DisconnectReturns(t)
    <3>1. /\ worker[t].pc = "teardown" /\ UNCHANGED <<clientConnected, playback>>
          /\ \A u \in Workers \ {t} : worker'[u] = worker[u]
          /\ \A u \in Workers \ {t} : call'[u] = call[u]
      BY <1>0, <2>4, WorkerEnds DEF DisconnectReturns, Consume, clientVars
    <3> QED BY <3>1 DEF BridgeMinds
  <2> QED BY <1>7, <2>1, <2>2, <2>3, <2>4 DEF Disconnecting, DisconnectLock, clientVars
<1>8. CASE Publishing
  <2>1. UNCHANGED <<clientConnected, playback, call>> /\ (worker' = worker \/ worker' = Notify(worker))
    BY <1>8 DEF Publishing, publish_speaker_start, publish_speaker_stop, AudioBegin, AudioEnd,
       EnqueueIfConnected, enqueue_frame_locked, clientVars
  <2> QED BY <1>2, <1>3, <2>1
<1>9. CASE Stopping
  <2>1. CASE StopBegin \/ StopShutdown \/ StopJoins
    <3>1. UNCHANGED <<clientConnected, playback, call>> /\ (worker' = worker \/ worker' = Notify(worker))
      BY <2>1 DEF StopBegin, StopShutdown, StopJoins, clientVars
    <3> QED BY <1>2, <1>3, <3>1
  <2>2. CASE StopRequest
    <3>1. UNCHANGED <<clientConnected, playback, call>> /\ \A t \in Workers : worker'[t].pc = worker[t].pc
      BY <1>0, <2>2 DEF StopRequest, clientVars, Thread
    <3> QED BY <1>2, <3>1
  <2>3. CASE StopReset
    BY <1>0, <1>1, <2>3 DEF StopReset
  <2>4. CASE StopReturns
    <3>1. UNCHANGED <<clientConnected, playback, worker>> /\ call'["reader"] = call["reader"]
      BY <1>0, <2>4 DEF StopReturns, Consume, clientVars
    <3> QED BY <3>1 DEF BridgeMinds
  <2> QED BY <1>9, <2>1, <2>2, <2>3, <2>4 DEF Stopping
<1> QED BY <1>4, <1>5, <1>6, <1>7, <1>8, <1>9 DEF BridgeNext

\* The bridge's steps leave somebody to end the session the host has on,
LEMMA BridgeMinded ==
    ASSUME TypeOK, OwnersInv, HostProofs!RestInv, Minded, BridgeNext, UNCHANGED hostVars
    PROVE  Minded'
<1>0. /\ UNCHANGED <<mediaPlaybackActive, thread>>
      /\ call \in [Callers -> CallStates]
  BY DEF hostVars, TypeOK, CallTypeOK
<1>1. \A t \in Callers : HostProofs!WillEnd(t) => HostProofs!WillEnd(t)'
  <2>1. \A t \in Callers : call[t] \in Requests => call'[t] = call[t]
    BY <1>0, BridgeAsks DEF Invoke, Consume, Requests, Results
  <2> QED BY <1>0, <2>1 DEF HostProofs!WillEnd, Requests
<1>2. \A c \in Captures : HostProofs!Drains(c) => HostProofs!Drains(c)'
  BY <1>0 DEF HostProofs!Drains
<1>3. BridgeMinds => BridgeMinds' \/ \E t \in Callers : HostProofs!WillEnd(t)'
  <2>1. ASSUME NEW t \in Callers, call[t] = "none", call'[t] = "deactivate" PROVE HostProofs!WillEnd(t)'
    <3>1. thread[t].pc = "idle"
      BY <2>1 DEF HostProofs!RestInv, HostProofs!Requests
    <3> QED BY <1>0, <2>1, <3>1 DEF HostProofs!WillEnd
  <2> QED BY <2>1, MindsOn
<1> QED BY <1>0, <1>1, <1>2, <1>3 DEF Minded

\* and so do the host's, which begin a session only for a reader that will open it.
LEMMA HostMinded ==
    ASSUME TypeOK, HostProofs!PlaybackInv, HostProofs!HeldInv, HostProofs!SwapInv,
           HostProofs!ReaderCalls, AskedFor, Minded, HostProofs!HostNext, UNCHANGED bridgeVars
    PROVE  AskedFor' /\ Minded'
<1>0. /\ UNCHANGED <<clientConnected, playback, worker>>
      /\ call \in [Callers -> CallStates] /\ "reader" \in Callers
  BY BridgeCallers DEF bridgeVars, TypeOK, CallTypeOK
<1>1. UNCHANGED call \/ \E t \in Callers, result \in Results : Answer(t, result)
  BY HostAssumed, HostProofs!HostAnswers, HostProofs!PlaybackAssumption, HostProofs!PlaybackCallers
  DEF HostProofs!Answer, Answer, HostProofs!Results, Results, HostProofs!Requests, Requests
<1>2. /\ call'["reader"] = "activate" => call["reader"] = "activate"
      /\ call["reader"] = "ok" => call'["reader"] = "ok"
  BY <1>0, <1>1 DEF Answer, Requests, Results
<1>3. AskedFor'
  BY <1>0, <1>2 DEF AskedFor
<1>4. BridgeMinds => BridgeMinds'
  BY <1>0, <1>2 DEF BridgeMinds
<1>5. call["reader"] = "activate" /\ call'["reader"] = "ok" => BridgeMinds'
  BY <1>0 DEF AskedFor, BridgeMinds, Workers
<1>6. ASSUME mediaPlaybackActive, mediaPlaybackActive' PROVE Minded'
  <2>1. /\ \A t \in Callers : HostProofs!WillEnd(t) => HostProofs!WillEnd(t)'
        /\ \A c \in Captures : HostProofs!Drains(c) => HostProofs!Drains(c)'
        /\ thread["reader"].pc = "assign" => thread'["reader"].pc = "assign" \/ call'["reader"] = "ok"
    BY <1>6, HostProofs!ActiveGoesOn, HostAssumed, HostProofs!PlaybackAssumption,
       HostProofs!PlaybackCallers
  <2>2. thread["reader"].pc = "assign" => call["reader"] = "activate"
    BY DEF HostProofs!ReaderCalls, HostProofs!ActivationPcs
  <2> QED BY <1>4, <1>5, <1>6, <2>1, <2>2 DEF Minded
<1>7. ASSUME ~mediaPlaybackActive, mediaPlaybackActive' PROVE Minded'
  <2>1. /\ call["reader"] = "activate"
        /\ thread'["reader"].pc = "assign" \/ call'["reader"] = "ok"
    BY <1>7, HostProofs!ActiveBegins, HostAssumed, HostProofs!PlaybackAssumption,
       HostProofs!PlaybackCallers
  <2> QED BY <1>5, <2>1 DEF Minded
<1> QED BY <1>3, <1>6, <1>7 DEF Minded

\* So does a tick: it drains the bridge's session only into a thread that will end it.
LEMMA TickMinded ==
    ASSUME TypeOK, HostProofs!PlaybackInv, HostProofs!SwapInv, AskedFor, Minded,
           NEW c \in Captures, CaptureTicks(c)
    PROVE  AskedFor' /\ Minded'
<1> USE DEF Workers
<1>0. worker \in [Workers -> Thread(WorkerPcs)]
  BY DEF TypeOK
<1>1. PICK filled \in BOOLEAN :
        /\ HostProofs!CaptureFills(c, filled)
        /\ filled \/ UNCHANGED bridgeVars
        /\ filled => fill_playback_samples
  BY SameFills DEF CaptureTicks
<1>2. /\ UNCHANGED <<call, mediaPlaybackActive>>
      /\ \A x \in HostProofs!HostThreads : thread'[x] = thread[x]
      /\ \A d \in Captures : HostProofs!Drains(d) => HostProofs!Drains(d)'
      /\ filled /\ mediaPlaybackActive => HostProofs!Drains(c)'
  BY <1>1, HostProofs!FillsDrain, HostAssumed, HostProofs!PlaybackAssumption,
     HostProofs!PlaybackCallers
<1>3. Callers \subseteq HostProofs!HostThreads /\ "reader" \in Callers
  BY BridgeCallers DEF HostProofs!HostThreads
<1>4. UNCHANGED clientConnected /\ (worker' = worker \/ worker' = Notify(worker))
  BY <1>1 DEF fill_playback_samples, EnqueueIfConnected, enqueue_frame_locked, clientVars, bridgeVars
<1>5. \A t \in Workers : worker[t].pc \in {"close", "activate"} => worker'[t].pc = worker[t].pc
  BY <1>0, <1>4 DEF Notify
<1>6. AskedFor'
  BY <1>2, <1>4, <1>5 DEF AskedFor
<1>7. CASE filled
  <2>1. Minded'
    BY <1>2, <1>7 DEF Minded
  <2> QED BY <1>6, <2>1
<1>8. CASE ~filled
  <2>1. UNCHANGED <<worker, clientConnected, playback>>
    BY <1>1, <1>8 DEF bridgeVars
  <2>2. BridgeMinds => BridgeMinds'
    BY <1>2, <2>1 DEF BridgeMinds
  <2>3. \A t \in Callers : HostProofs!WillEnd(t) => HostProofs!WillEnd(t)'
    BY <1>2, <1>3 DEF HostProofs!WillEnd
  <2>4. thread'["reader"] = thread["reader"]
    BY <1>2, <1>3
  <2>5. Minded'
    BY <1>2, <2>2, <2>3, <2>4 DEF Minded
  <2> QED BY <1>6, <2>5
<1> QED BY <1>7, <1>8

\* The system keeps all of it, as long as no number is reused and restoring works.
LEMMA MicStep ==
    ASSUME ~FdReuse, "restore fails" \notin Happens, MicInv, [SystemNext]_systemVars
    PROVE  MicInv'
<1>0. /\ SystemInv /\ TypeOK /\ OwnersInv /\ NumbersInv /\ HostProofs!ReaderCalls
      /\ HostProofs!PlaybackInv /\ HostProofs!RestInv
  BY DEF MicInv, SystemInv
<1>1. [Next]_vars /\ [HostProofs!Next]_(HostProofs!playbackVars)
  BY <1>0, BridgeSteps, HostSteps
<1>2. SystemInv' /\ NumbersInv'
  BY <1>0, <1>1, SystemKeeps, NumbersStep
<1>3. HostProofs!ReaderCalls'
  BY <1>0, <1>1, HostProofs!ReaderCallsStep, HostAssumed, HostProofs!PlaybackAssumption,
     HostProofs!PlaybackCallers
<1>4. /\ Overlap' => overlapped'
      /\ overlapped => overlapped'
  <2>1. CASE UNCHANGED systemVars
    BY <2>1 DEF systemVars, vars, hostVars, Overlap, MicInv
  <2>2. CASE SystemNext
    BY <2>2 DEF SystemNext, Recorded
  <2> QED BY <2>1, <2>2
<1>5. ASSUME ~overlapped'
      PROVE  HostProofs!HeldInv' /\ HostProofs!SwapInv' /\ AskedFor' /\ Minded'
  <2>1. /\ HostProofs!HeldInv /\ HostProofs!SwapInv /\ AskedFor /\ Minded
        /\ ~Overlap /\ ~Overlap'
    BY <1>4, <1>5 DEF MicInv
  <2>2. HostProofs!ActsApart
    BY <2>1, NoOverlap
  <2>3. thread["reader"].pc = "snapshot" => call["reader"] = "activate"
    BY <1>0 DEF HostProofs!ReaderCalls, HostProofs!ActivationPcs
  <2>4. HostProofs!HeldInv'
    BY <1>0, <1>1, <2>1, <2>2, <2>3, HostProofs!HeldStep, HostAssumed,
       HostProofs!PlaybackAssumption, HostProofs!PlaybackCallers
  <2>5. HostProofs!SwapInv'
    BY <1>0, <1>1, <2>1, <2>2, HostProofs!SwapStep, HostAssumed,
       HostProofs!PlaybackAssumption, HostProofs!PlaybackCallers
  <2>6. CASE UNCHANGED systemVars
    <3>1. UNCHANGED <<call, worker, clientConnected, playback, mediaPlaybackActive, thread>>
      BY <2>6 DEF systemVars, vars, hostVars, clientVars
    <3>2. AskedFor' /\ (BridgeMinds => BridgeMinds')
      BY <2>1, <3>1 DEF AskedFor, BridgeMinds
    <3>3. /\ \A t \in Callers : HostProofs!WillEnd(t) => HostProofs!WillEnd(t)'
          /\ \A c \in Captures : HostProofs!Drains(c) => HostProofs!Drains(c)'
      BY <3>1 DEF HostProofs!WillEnd, HostProofs!Drains
    <3>4. Minded'
      BY <2>1, <3>1, <3>2, <3>3 DEF Minded
    <3> QED BY <2>4, <2>5, <3>2, <3>4
  <2>7. CASE BridgeStep
    <3>1. BridgeNext /\ UNCHANGED hostVars
      BY <2>7 DEF BridgeStep
    <3>2. call'["reader"] = "activate" => call'["writer"] # "deactivate"
      BY <2>1, BridgeCallers DEF Overlap, Host!Threads, Host!HostThreads
    <3> QED BY <1>0, <2>1, <2>4, <2>5, <3>1, <3>2, AskedStep, BridgeMinded
  <2>8. CASE HostStep
    <3>1. HostProofs!HostNext /\ UNCHANGED bridgeVars
      BY <2>8, SameHostSteps DEF HostStep
    <3> QED BY <1>0, <2>1, <2>4, <2>5, <3>1, HostMinded
  <2>9. ASSUME NEW c \in Captures, CaptureTicks(c) PROVE AskedFor' /\ Minded'
    BY <1>0, <2>1, <2>9, TickMinded
  <2> QED BY <2>4, <2>5, <2>6, <2>7, <2>8, <2>9 DEF SystemNext, Recorded
<1> QED BY <1>2, <1>3, <1>4, <1>5 DEF MicInv

LEMMA MicBegins == SystemInit => MicInv
<1> SUFFICES ASSUME SystemInit PROVE MicInv
  OBVIOUS
<1>1. HostProofs!HeldInv /\ HostProofs!SwapInv /\ HostProofs!ReaderCalls
  BY SameInit, HostProofs!HeldInit, HostAssumed, HostProofs!PlaybackAssumption,
     HostProofs!PlaybackCallers DEF SystemInit
<1>2. NumbersInv
  BY ViewInit DEF ViewInv, SystemInit
<1>3. (\A t \in Callers : call[t] = "none") /\ ~mediaPlaybackActive
  BY DEF SystemInit, Init, CallInit, Host!Init
<1>4. ~Overlap /\ AskedFor /\ Minded
  BY <1>3, BridgeCallers DEF Overlap, AskedFor, Minded
<1> QED BY <1>1, <1>2, <1>4, SystemBegins DEF MicInv

\* Playback restores the user's device and input settings when it stops, however it was
\* ended, as long as no activation met the end of a session, restoring does not fail and
\* no descriptor number is reused.
THEOREM MicIsRestoredApart ==
    ASSUME ~FdReuse, "restore fails" \notin Happens
    PROVE  SystemSpec => []MicRestoredApart
<1>1. MicInv => MicRestoredApart
  <2> SUFFICES ASSUME MicInv, ~overlapped, ~(clientConnected /\ playback.active), Quiet
               PROVE  device = "mic" /\ input = "user"
    BY DEF MicRestoredApart, MicRestored
  <2>1. HostProofs!HeldInv /\ Minded
    BY DEF MicInv
  <2>2. \A t \in HostProofs!HostThreads : thread[t].pc \in {"idle", "finished"}
    BY SameJoins DEF Quiet
  <2>3. \A c \in Captures :
          \/ thread[c].pc \in {"off", "done"}
          \/ thread[c].pc \in {"loop", "fill"} /\ ~thread[c].observed
    BY DEF Quiet
  <2>4. ~mediaPlaybackActive
    <3>1. DOMAIN worker = Workers
      BY DEF MicInv, SystemInv, TypeOK, Workers
    <3>2. ~BridgeMinds
      BY <3>1, BridgeCallers DEF Quiet, BridgeMinds, Workers
    <3>3. thread["reader"].pc # "assign"
      BY <2>2, BridgeCallers DEF HostProofs!HostThreads
    <3>4. \A t \in Callers : ~HostProofs!WillEnd(t)
      BY DEF Quiet, HostProofs!WillEnd
    <3>5. \A c \in Captures : ~HostProofs!Drains(c)
      BY <2>3 DEF HostProofs!Drains, HostProofs!FeedingPcs
    <3> QED BY <2>1, <3>2, <3>3, <3>4, <3>5 DEF Minded
  <2>5. \A t \in HostProofs!Threads : thread[t].pc \notin HostProofs!HoldingPcs
    BY <2>2, <2>3 DEF HostProofs!HoldingPcs, HostProofs!Threads
  <2> QED
    BY <2>1, <2>4, <2>5, HostProofs!GivenBack, HostAssumed, HostProofs!PlaybackAssumption,
       HostProofs!PlaybackCallers
<1> QED BY <1>1, MicBegins, MicStep, PTL DEF SystemSpec

================================================================================
