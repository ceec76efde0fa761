------------------------------ MODULE MediaBridge ------------------------------
(***************************************************************************)
(* bridge::MediaBridgeServer (bridge/media_bridge.cpp): the media socket of *)
(* the TeamSpeak plugin.  One accept thread, and one reader and one writer *)
(* thread for the single consumer it serves; TeamSpeak callback threads    *)
(* publish speakers and voice, a capture thread drains queued playback, a  *)
(* shutting-down thread runs stop().  An action is one critical section of *)
(* the state mutex, or one blocking call made outside of it.               *)
(*                                                                         *)
(* A descriptor number stands for the connection behind it, because that   *)
(* is all the code has: threads keep an int, and ::accept may hand a       *)
(* number out again once it is closed (FdReuse).                           *)
(***************************************************************************)
EXTENDS Naturals, Sequences, FiniteSets, MediaPlaybackControl

CONSTANTS
    Fds,                        \* descriptor numbers ::accept may return
    NoFd,                       \* the code's -1
    FdReuse,                    \* may ::accept return a number closed before?
    Speakers,                   \* speaker keys, handler and client id
    Commands,                   \* the commands the consumers send
    BridgeHappens,              \* which of BridgeEvents may happen
    ChunkSizes,                 \* samples in a playback.chunk
    FillSize,                   \* samples the capture thread takes per tick
    kMaxOutboundFrames,
    kMaxQueuedPlaybackSamples,
    MaxFrames                   \* bound: callers pause at this queue length

AllCommands == {"invalid", "status.request", "playback.start", "playback.chunk",
                "playback.stop", "playback.clear"}

BridgeEvents == {"publish_audio_chunk", "stop", "hang up"}

ASSUME BridgeAssumption ==
    /\ NoFd \notin Fds
    /\ FdReuse \in BOOLEAN
    /\ IsFiniteSet(Speakers)
    /\ Commands \subseteq AllCommands
    /\ BridgeHappens \subseteq BridgeEvents
    /\ Speakers \cap {"hello", "status", "error", "audio", "playback"} = {}
    /\ ChunkSizes \subseteq Nat
    /\ FillSize \in Nat \ {0}
    /\ kMaxOutboundFrames \in Nat
    /\ kMaxQueuedPlaybackSamples \in Nat
    /\ MaxFrames \in Nat

ASSUME BridgeCallers == {"reader", "writer", "stop"} \subseteq Callers

VARIABLES
    running, clientFd, clientConnected, outboundFrames, activeSpeakers,
    playback,      \* playback_active, playback_stop_requested, |playback_samples|
    listening,     \* listen_fd is bound and not shut down
    accept,        \* the accept thread: pc, descriptor in hand, stop requested
    worker,        \* the reader and writer threads: pc, fd, stop requested
    writerFrame,   \* the frame the writer popped and is writing, if it is
    stopper,       \* the thread inside stop(): pc and its snapshot of client_fd
    publisher,     \* the thread inside publish_audio_chunk
    link,          \* the kernel's view of each descriptor number
    heard          \* what the consumer behind each descriptor was sent last

clientVars == <<clientFd, clientConnected>>
vars == <<running, clientFd, clientConnected, outboundFrames, activeSpeakers,
          playback, listening, accept, worker, writerFrame, stopper, publisher,
          link, heard, call>>

-----------------------------------------------------------------------------
(* Frames.  A frame says something on a topic: a speaker talks or not,     *)
(* playback runs or not.  Only audio.chunk frames may be dropped.          *)

Topics == Speakers \cup {"hello", "status", "error", "audio", "playback"}
Frames == [topic : Topics, on : BOOLEAN]
Frame(t, b) == [topic |-> t, on |-> b]

hello_frame == Frame("hello", TRUE)
status_frame == Frame("status", TRUE)
error_frame == Frame("error", TRUE)
audio_frame == Frame("audio", TRUE)
playback_started_frame == Frame("playback", TRUE)
playback_stopped_frame == Frame("playback", FALSE)   \* and playback.cleared
speaker_frame(s, talking) == Frame(s, talking)

\* Mutant: any frame but hello may be dropped.
DroppableAny(frame) == frame.topic # "hello"

Droppable(frame) == frame.topic = "audio"

\* What a consumer can be told once and for all; the rest is a report.
Statements == Speakers \cup {"hello", "playback"}
Unheard == [t \in Statements |-> "unheard"]

\* What a consumer that knew h knows once it has read the frame.
Learns(h, frame) ==
    IF frame.topic \in Statements
    THEN [h EXCEPT ![frame.topic] = IF frame.on THEN "on" ELSE "off"]
    ELSE h

NoThread == [pc |-> "off", fd |-> NoFd, stop |-> FALSE]
NoPlayback == [active |-> FALSE, stopRequested |-> FALSE, samples |-> 0]

\* outbound_cv.notify_one and notify_all: only the writer waits on it.
Notify(w) == IF w["writer"].pc = "asleep" THEN [w EXCEPT !["writer"].pc = "loop"] ELSE w

\* Mutant: one droppable frame too many.
EnqueuedOneMore(queue, frame) ==
    IF Droppable(frame) /\ Len(queue) > kMaxOutboundFrames THEN queue ELSE Append(queue, frame)

\* enqueue_frame_locked leaves the queue alone only for a droppable frame.
Enqueued(queue, frame) ==
    IF Droppable(frame) /\ Len(queue) >= kMaxOutboundFrames
    THEN queue
    ELSE Append(queue, frame)

enqueue_frame_locked(frame) ==
    /\ outboundFrames' = Enqueued(outboundFrames, frame)
    /\ worker' = IF outboundFrames' = outboundFrames THEN worker ELSE Notify(worker)

\* The same, by a thread that enqueues only for a connected consumer.
EnqueueIfConnected(frame) ==
    IF clientConnected
    THEN enqueue_frame_locked(frame)
    ELSE UNCHANGED <<outboundFrames, worker>>

RoomToCall == Len(outboundFrames) < MaxFrames    \* bound on the environment

-----------------------------------------------------------------------------
Init ==
    /\ running = FALSE /\ listening = FALSE
    /\ clientFd = NoFd /\ clientConnected = FALSE
    /\ outboundFrames = <<>> /\ activeSpeakers = {}
    /\ playback = NoPlayback
    /\ accept = NoThread
    /\ worker = [t \in {"reader", "writer"} |-> NoThread]
    /\ writerFrame = hello_frame
    /\ stopper = [pc |-> "idle", fd |-> NoFd]
    /\ publisher = "idle"
    /\ link = [f \in Fds |-> "unused"]
    /\ heard = [f \in Fds |-> Unheard]
    /\ CallInit

\* start(): the socket is bound and the accept thread runs.
Start ==
    /\ ~running /\ stopper.pc = "idle"
    /\ running' = TRUE /\ listening' = TRUE
    /\ accept' = [accept EXCEPT !.pc = "loop"]
    /\ UNCHANGED <<clientFd, clientConnected, outboundFrames, activeSpeakers, playback, worker,
                   writerFrame, stopper, publisher, link, heard, call>>

-----------------------------------------------------------------------------
(* accept_loop *)

AcceptGoes(from, to) == accept.pc = from /\ accept' = [accept EXCEPT !.pc = to]

AcceptLoop ==
    /\ AcceptGoes("loop", IF accept.stop THEN "exited" ELSE "accept")
    /\ UNCHANGED <<running, clientVars, outboundFrames, activeSpeakers, playback, listening, worker,
                   writerFrame, stopper, publisher, link, heard, call>>

\* ::accept returns a number no descriptor of the process has at the moment.
AcceptConn(f) ==
    /\ accept.pc = "accept" /\ listening
    /\ link[f] = "unused" \/ (FdReuse /\ link[f] = "closed")
    /\ accept' = [accept EXCEPT !.pc = "check", !.fd = f]
    /\ link' = [link EXCEPT ![f] = "open"]
    /\ heard' = [heard EXCEPT ![f] = Unheard]
    /\ UNCHANGED <<running, clientVars, outboundFrames, activeSpeakers, playback, listening, worker,
                   writerFrame, stopper, publisher, call>>

\* ::accept fails with EINVAL or EBADF once stop() shut the listener down.
AcceptFails ==
    /\ ~listening
    /\ AcceptGoes("accept", "exited")
    /\ UNCHANGED <<running, clientVars, outboundFrames, activeSpeakers, playback, listening, worker,
                   writerFrame, stopper, publisher, link, heard, call>>

\* A second consumer is told client_busy and closed at once.
AcceptBusy ==
    /\ clientConnected
    /\ accept.pc = "check"
    /\ accept' = [accept EXCEPT !.pc = "loop", !.fd = NoFd]
    /\ link' = [link EXCEPT ![accept.fd] = "closed"]
    /\ UNCHANGED <<running, clientVars, outboundFrames, activeSpeakers, playback, listening, worker,
                   writerFrame, stopper, publisher, heard, call>>

AcceptFree ==
    /\ ~clientConnected
    /\ AcceptGoes("check", "install")
    /\ UNCHANGED <<running, clientVars, outboundFrames, activeSpeakers, playback, listening, worker,
                   writerFrame, stopper, publisher, link, heard, call>>

\* The speakers of the map in some order, each once.
Replays == {order \in [1 .. Cardinality(activeSpeakers) -> activeSpeakers] :
                \A s \in activeSpeakers : \E i \in DOMAIN order : order[i] = s}

Greeting(order) == <<hello_frame, status_frame>>
                   \o [i \in DOMAIN order |-> speaker_frame(order[i], TRUE)]

\* The threads of the previous consumer are joined before the new one is in.
AcceptInstall ==
    /\ \A t \in {"reader", "writer"} : worker[t].pc = "off"
    /\ AcceptGoes("install", "spawn")
    /\ clientFd' = accept.fd /\ clientConnected' = TRUE
    /\ \E order \in Replays : outboundFrames' = Greeting(order)
    /\ UNCHANGED <<running, activeSpeakers, playback, listening, worker, writerFrame, stopper,
                   publisher, link, heard, call>>

AcceptSpawn ==
    /\ accept.pc = "spawn"
    /\ accept' = [accept EXCEPT !.pc = "loop", !.fd = NoFd]
    /\ worker' = [t \in {"reader", "writer"} |-> [pc |-> "loop", fd |-> accept.fd, stop |-> FALSE]]
    /\ UNCHANGED <<running, clientVars, outboundFrames, activeSpeakers, playback, listening,
                   writerFrame, stopper, publisher, link, heard, call>>

-----------------------------------------------------------------------------
(* reader_loop.  A reading thread sees the commands of whoever is behind   *)
(* its descriptor number, those sent before a hang-up included.            *)

Goes(w, t, to) == [w EXCEPT ![t].pc = to]
Exits(w, t) == [w EXCEPT ![t] = NoThread]

ReaderLoop ==
    /\ worker["reader"].pc = "loop"
    /\ worker' = Goes(worker, "reader", IF worker["reader"].stop THEN "leave" ELSE "read")
    /\ UNCHANGED <<running, clientVars, outboundFrames, activeSpeakers, playback, listening, accept,
                   writerFrame, stopper, publisher, link, heard, call>>

Reads(command) ==
    /\ command \in Commands /\ RoomToCall
    /\ worker["reader"].pc = "read"
    /\ link[worker["reader"].fd] \in {"open", "hungup"}
    /\ UNCHANGED <<running, clientVars, activeSpeakers, listening, accept, writerFrame, stopper,
                   publisher, link, heard>>

\* The reader queues an answer and goes on to pc "to".
Replies(frame, to) ==
    /\ outboundFrames' = Enqueued(outboundFrames, frame)
    /\ worker' = Goes(Notify(worker), "reader", to)

\* A malformed, unsupported or badly sized request changes nothing else.
ReadInvalid ==
    /\ Reads("invalid")
    /\ Replies(error_frame, "loop")
    /\ UNCHANGED <<playback, call>>

ReadStatus ==
    /\ Reads("status.request")
    /\ Replies(status_frame, "loop")
    /\ UNCHANGED <<playback, call>>

\* playback.start calls the backend before it touches the playback state.
ReadStart ==
    /\ Reads("playback.start")
    /\ Invoke("reader", "activate")
    /\ worker' = Goes(worker, "reader", "activate")
    /\ UNCHANGED <<outboundFrames, playback>>

\* activate_media_playback returned: the session is open from here on.
StartReturns ==
    /\ worker["reader"].pc = "activate"
    /\ \/ /\ Consume("reader", "ok")
          /\ playback' = [NoPlayback EXCEPT !.active = TRUE]
          /\ Replies(playback_started_frame, "loop")
       \/ /\ Consume("reader", "failed")
          /\ UNCHANGED playback
          /\ Replies(error_frame, "loop")
    /\ UNCHANGED <<running, clientVars, activeSpeakers, listening, accept, writerFrame, stopper,
                   publisher, link, heard>>

\* Mutant: chunks are queued without a look at the limit.
ReadChunkUnbounded(n) ==
    /\ Reads("playback.chunk")
    /\ playback.active
    /\ playback' = [playback EXCEPT !.samples = @ + n]
    /\ worker' = Goes(worker, "reader", "loop")
    /\ UNCHANGED <<outboundFrames, call>>

\* Mutant: chunks are queued without a look at the session.
ReadChunkAnytime(n) ==
    /\ Reads("playback.chunk")
    /\ playback.samples + n <= kMaxQueuedPlaybackSamples
    /\ playback' = [playback EXCEPT !.samples = @ + n]
    /\ worker' = Goes(worker, "reader", "loop")
    /\ UNCHANGED <<outboundFrames, call>>

ReadChunk(n) ==
    /\ Reads("playback.chunk")
    /\ \/ /\ playback.active
          /\ playback.samples + n <= kMaxQueuedPlaybackSamples
          /\ playback' = [playback EXCEPT !.samples = @ + n]
          /\ worker' = Goes(worker, "reader", "loop")
          /\ UNCHANGED outboundFrames
       \/ /\ ~playback.active \/ playback.samples + n > kMaxQueuedPlaybackSamples
          /\ UNCHANGED playback
          /\ Replies(error_frame, "loop")
    /\ UNCHANGED call

\* Mutant: stopped is reported when the stop is requested, drained or not.
ReadStopReportsEarly ==
    /\ Reads("playback.stop")
    /\ playback' = [playback EXCEPT !.stopRequested = playback.active]
    /\ Replies(playback_stopped_frame, "loop")
    /\ UNCHANGED call

\* playback.stop answers at once unless samples are left to drain.
ReadStop ==
    /\ Reads("playback.stop")
    /\ \/ /\ ~playback.active
          /\ Replies(playback_stopped_frame, "loop")
          /\ UNCHANGED <<playback, call>>
       \/ /\ playback.active /\ playback.samples = 0
          /\ playback' = NoPlayback
          /\ Replies(playback_stopped_frame, "deactivate")
          /\ Invoke("reader", "deactivate")
       \/ /\ playback.active /\ playback.samples > 0
          /\ playback' = [playback EXCEPT !.stopRequested = TRUE]
          /\ worker' = Goes(worker, "reader", "loop")
          /\ UNCHANGED <<outboundFrames, call>>

ReadClear ==
    /\ Reads("playback.clear")
    /\ playback' = NoPlayback
    /\ Replies(playback_stopped_frame, "deactivate")
    /\ Invoke("reader", "deactivate")

\* A failed deactivation is only remembered as last_error.
DeactivateReturns ==
    /\ worker["reader"].pc = "deactivate"
    /\ \E result \in Results : Consume("reader", result)
    /\ worker' = Goes(worker, "reader", "loop")
    /\ UNCHANGED <<running, clientVars, outboundFrames, activeSpeakers, playback, listening, accept,
                   writerFrame, stopper, publisher, link, heard>>

\* Mutant: the reader exits without handle_client_disconnect.
ReadEofForgets ==
    /\ worker["reader"].pc = "read"
    /\ link[worker["reader"].fd] \in {"hungup", "closed"}
    /\ worker' = Exits(worker, "reader")
    /\ UNCHANGED <<running, clientVars, outboundFrames, activeSpeakers, playback, listening, accept,
                   writerFrame, stopper, publisher, link, heard, call>>

ReadEof ==
    /\ worker["reader"].pc = "read"
    /\ link[worker["reader"].fd] \in {"hungup", "closed"}
    /\ worker' = Goes(worker, "reader", "leave")
    /\ UNCHANGED <<running, clientVars, outboundFrames, activeSpeakers, playback, listening, accept,
                   writerFrame, stopper, publisher, link, heard, call>>

-----------------------------------------------------------------------------
(* writer_loop *)

WriterQuits ==
    /\ worker["writer"].pc = "loop"
    /\ worker["writer"].stop \/ ~clientConnected
    /\ worker' = Exits(worker, "writer")
    /\ UNCHANGED <<running, clientVars, outboundFrames, activeSpeakers, playback, listening, accept,
                   writerFrame, stopper, publisher, link, heard, call>>

WriterSleeps ==
    /\ worker["writer"].pc = "loop" /\ ~worker["writer"].stop
    /\ clientConnected /\ outboundFrames = <<>>
    /\ worker' = Goes(worker, "writer", "asleep")
    /\ UNCHANGED <<running, clientVars, outboundFrames, activeSpeakers, playback, listening, accept,
                   writerFrame, stopper, publisher, link, heard, call>>

WriterPops ==
    /\ worker["writer"].pc = "loop" /\ ~worker["writer"].stop
    /\ clientConnected /\ outboundFrames # <<>>
    /\ writerFrame' = Head(outboundFrames)
    /\ outboundFrames' = Tail(outboundFrames)
    /\ worker' = Goes(worker, "writer", "write")
    /\ UNCHANGED <<running, clientVars, activeSpeakers, playback, listening, accept, stopper,
                   publisher, link, heard, call>>

\* write_frame, without the lock, to whoever is behind the number now.
WriterWrites ==
    /\ worker["writer"].pc = "write"
    /\ link[worker["writer"].fd] = "open"
    /\ heard' = [heard EXCEPT ![worker["writer"].fd] = Learns(@, writerFrame)]
    /\ writerFrame' = hello_frame
    /\ worker' = Goes(worker, "writer", "loop")
    /\ UNCHANGED <<running, clientVars, outboundFrames, activeSpeakers, playback, listening, accept,
                   stopper, publisher, link, call>>

WriterFails ==
    /\ worker["writer"].pc = "write"
    /\ link[worker["writer"].fd] # "open"
    /\ writerFrame' = hello_frame
    /\ worker' = Goes(worker, "writer", "leave")
    /\ UNCHANGED <<running, clientVars, outboundFrames, activeSpeakers, playback, listening, accept,
                   stopper, publisher, link, heard, call>>

-----------------------------------------------------------------------------
(* handle_client_disconnect, called by the reader and by the writer        *)

\* Mutant: the sleeping writer is not notified of the disconnect.
DisconnectLockSilent(t) ==
    /\ worker[t].pc = "leave"
    /\ \/ /\ clientFd # worker[t].fd
          /\ worker' = Exits(worker, t)
          /\ UNCHANGED <<clientVars, outboundFrames, playback>>
       \/ /\ clientFd = worker[t].fd
          /\ clientConnected' = FALSE /\ clientFd' = NoFd
          /\ outboundFrames' = <<>>
          /\ playback' = NoPlayback
          /\ worker' = Goes(worker, t, "close")
    /\ UNCHANGED <<running, activeSpeakers, listening, accept, writerFrame, stopper, publisher,
                   link, heard, call>>

DisconnectLock(t) ==
    /\ worker[t].pc = "leave"
    /\ \/ /\ clientFd # worker[t].fd
          /\ worker' = Exits(worker, t)
          /\ UNCHANGED <<clientVars, outboundFrames, playback>>
       \/ /\ clientFd = worker[t].fd
          /\ clientConnected' = FALSE /\ clientFd' = NoFd
          /\ outboundFrames' = <<>>
          /\ playback' = NoPlayback
          /\ worker' = Goes(Notify(worker), t, "close")
    /\ UNCHANGED <<running, activeSpeakers, listening, accept, writerFrame, stopper, publisher,
                   link, heard, call>>

DisconnectClose(t) ==
    /\ worker[t].pc = "close"
    /\ link' = [link EXCEPT ![worker[t].fd] = "closed"]
    /\ heard' = [heard EXCEPT ![worker[t].fd] = Unheard]
    /\ Invoke(t, "deactivate")
    /\ worker' = Goes(worker, t, "teardown")
    /\ UNCHANGED <<running, clientVars, outboundFrames, activeSpeakers, playback, listening, accept,
                   writerFrame, stopper, publisher>>

DisconnectReturns(t) ==
    /\ worker[t].pc = "teardown"
    /\ \E result \in Results : Consume(t, result)
    /\ worker' = Exits(worker, t)
    /\ UNCHANGED <<running, clientVars, outboundFrames, activeSpeakers, playback, listening, accept,
                   writerFrame, stopper, publisher, link, heard>>

-----------------------------------------------------------------------------
(* The backend's threads: publish_* and fill_playback_samples              *)

publish_speaker_start(s) ==
    /\ RoomToCall
    /\ activeSpeakers' = activeSpeakers \cup {s}
    /\ EnqueueIfConnected(speaker_frame(s, TRUE))
    /\ UNCHANGED <<running, clientVars, playback, listening, accept, writerFrame, stopper,
                   publisher, link, heard, call>>

publish_speaker_stop(s) ==
    /\ RoomToCall
    /\ activeSpeakers' = activeSpeakers \ {s}
    /\ EnqueueIfConnected(speaker_frame(s, FALSE))
    /\ UNCHANGED <<running, clientVars, playback, listening, accept, writerFrame, stopper,
                   publisher, link, heard, call>>

\* publish_audio_chunk looks for a consumer, builds the frame without the
\* lock, and looks again: the consumer may have changed in between.
AudioBegin ==
    /\ "publish_audio_chunk" \in BridgeHappens
    /\ publisher = "idle" /\ clientConnected
    /\ publisher' = "building"
    /\ UNCHANGED <<running, clientVars, outboundFrames, activeSpeakers, playback, listening, accept,
                   worker, writerFrame, stopper, link, heard, call>>

AudioEnd ==
    /\ publisher = "building" /\ RoomToCall
    /\ publisher' = "idle"
    /\ EnqueueIfConnected(audio_frame)
    /\ UNCHANGED <<running, clientVars, activeSpeakers, playback, listening, accept, writerFrame,
                   stopper, link, heard, call>>

\* Mutant: the last partial tick is never taken.
RestStuck(samples) == IF samples > FillSize THEN samples - FillSize ELSE samples

\* What is left of the samples after a tick, padded with silence.
Rest(samples) == IF samples > FillSize THEN samples - FillSize ELSE 0

\* The capture thread's tick; it closes the session that asked to drain.
fill_playback_samples ==
    /\ playback.active
    /\ \/ /\ playback.stopRequested /\ Rest(playback.samples) = 0
          /\ playback' = NoPlayback
          /\ EnqueueIfConnected(playback_stopped_frame)
       \/ /\ ~(playback.stopRequested /\ Rest(playback.samples) = 0)
          /\ playback' = [playback EXCEPT !.samples = Rest(@)]
          /\ UNCHANGED <<outboundFrames, worker>>
    /\ UNCHANGED <<running, clientVars, activeSpeakers, listening, accept, writerFrame, stopper,
                   publisher, link, heard, call>>

-----------------------------------------------------------------------------
(* stop().  The descriptor it shuts down is the one it saw at the start.   *)

StopGoes(from, to) == stopper.pc = from /\ stopper' = [stopper EXCEPT !.pc = to]

StopBegin ==
    /\ "stop" \in BridgeHappens
    /\ running /\ stopper.pc = "idle"
    /\ running' = FALSE
    /\ stopper' = [pc |-> "request", fd |-> clientFd]
    /\ worker' = Notify(worker)
    /\ UNCHANGED <<clientVars, outboundFrames, activeSpeakers, playback, listening, accept,
                   writerFrame, publisher, link, heard, call>>

StopRequest ==
    /\ StopGoes("request", "shutdown")
    /\ accept' = [accept EXCEPT !.stop = TRUE]
    /\ worker' = [t \in DOMAIN worker |-> [worker[t] EXCEPT !.stop = TRUE]]
    /\ UNCHANGED <<running, clientVars, outboundFrames, activeSpeakers, playback, listening,
                   writerFrame, publisher, link, heard, call>>

HungUp(l, f) == IF f \in Fds /\ l[f] = "open" THEN [l EXCEPT ![f] = "hungup"] ELSE l

StopShutdown ==
    /\ StopGoes("shutdown", "joinAccept")
    /\ link' = HungUp(link, stopper.fd)
    /\ listening' = FALSE
    /\ UNCHANGED <<running, clientVars, outboundFrames, activeSpeakers, playback, accept, worker,
                   writerFrame, publisher, heard, call>>

\* Mutant: the writer is not joined.
StopJoinsTwo ==
    /\ \/ accept.pc = "exited" /\ StopGoes("joinAccept", "joinReader")
       \/ worker["reader"].pc = "off" /\ StopGoes("joinReader", "reset")
    /\ UNCHANGED <<running, clientVars, outboundFrames, activeSpeakers, playback, listening, accept,
                   worker, writerFrame, publisher, link, heard, call>>

StopJoins ==
    /\ \/ accept.pc = "exited" /\ StopGoes("joinAccept", "joinReader")
       \/ worker["reader"].pc = "off" /\ StopGoes("joinReader", "joinWriter")
       \/ worker["writer"].pc = "off" /\ StopGoes("joinWriter", "reset")
    /\ UNCHANGED <<running, clientVars, outboundFrames, activeSpeakers, playback, listening, accept,
                   worker, writerFrame, publisher, link, heard, call>>

StopReset ==
    /\ StopGoes("reset", "deactivate")
    /\ link' = IF stopper.fd = NoFd THEN link ELSE [link EXCEPT ![stopper.fd] = "closed"]
    /\ clientFd' = NoFd /\ clientConnected' = FALSE
    /\ playback' = NoPlayback
    /\ outboundFrames' = <<>> /\ activeSpeakers' = {}
    /\ Invoke("stop", "deactivate")
    /\ UNCHANGED <<running, listening, accept, worker, writerFrame, publisher, heard>>

StopReturns ==
    /\ StopGoes("deactivate", "done")
    /\ \E result \in Results : Consume("stop", result)
    /\ UNCHANGED <<running, clientVars, outboundFrames, activeSpeakers, playback, listening, accept,
                   worker, writerFrame, publisher, link, heard>>

-----------------------------------------------------------------------------
(* The environment: the consumer's end of a connection, and a backend that *)
(* answers every control call one way or the other.                        *)

PeerHangsUp(f) ==
    /\ "hang up" \in BridgeHappens
    /\ link[f] = "open"
    /\ link' = HungUp(link, f)
    /\ UNCHANGED <<running, clientVars, outboundFrames, activeSpeakers, playback, listening, accept,
                   worker, writerFrame, stopper, publisher, heard, call>>

ControlAnswers(t) ==
    /\ \E result \in Results : Answer(t, result)
    /\ UNCHANGED <<running, clientVars, outboundFrames, activeSpeakers, playback, listening, accept,
                   worker, writerFrame, stopper, publisher, link, heard>>

Accepting == AcceptLoop \/ (\E f \in Fds : AcceptConn(f)) \/ AcceptFails \/ AcceptBusy
             \/ AcceptFree \/ AcceptInstall \/ AcceptSpawn

Reading == ReaderLoop \/ ReadInvalid \/ ReadStatus \/ ReadStart \/ StartReturns
           \/ (\E n \in ChunkSizes : ReadChunk(n)) \/ ReadStop \/ ReadClear
           \/ DeactivateReturns \/ ReadEof

Writing == WriterQuits \/ WriterSleeps \/ WriterPops \/ WriterWrites \/ WriterFails

Disconnecting(t) == DisconnectLock(t) \/ DisconnectClose(t) \/ DisconnectReturns(t)

Publishing == (\E s \in Speakers : publish_speaker_start(s) \/ publish_speaker_stop(s))
              \/ AudioBegin \/ AudioEnd

Stopping == StopBegin \/ StopRequest \/ StopShutdown \/ StopJoins \/ StopReset \/ StopReturns

\* What the bridge's own threads and callers do, without the backend's answers.
BridgeNext ==
    \/ Start \/ Accepting \/ Reading \/ Writing
    \/ \E t \in {"reader", "writer"} : Disconnecting(t)
    \/ Publishing \/ Stopping
    \/ \E f \in Fds : PeerHangsUp(f)

Next ==
    \/ BridgeNext
    \/ fill_playback_samples
    \/ \E t \in {"reader", "writer", "stop"} : ControlAnswers(t)

Spec == Init /\ [][Next]_vars

(***************************************************************************)
(* Fairness.  Every thread that can take a step eventually does (the       *)
(* threads block only in the calls that are modelled), the backend answers *)
(* every call, and the capture thread ticks while a session is open.  A    *)
(* connection whose peer is gone has finitely many buffered commands left, *)
(* hence the strong fairness of ReadEof; nothing makes a consumer hang up, *)
(* send, or connect.                                                       *)
(***************************************************************************)
ThreadFairness ==
    /\ WF_vars(Accepting) /\ WF_vars(Writing)
    /\ WF_vars(ReaderLoop) /\ WF_vars(StartReturns) /\ WF_vars(DeactivateReturns)
    /\ SF_vars(ReadEof)
    /\ \A t \in {"reader", "writer"} : WF_vars(Disconnecting(t))
    /\ WF_vars(StopRequest \/ StopShutdown \/ StopJoins \/ StopReset \/ StopReturns)

BridgeFairness ==
    /\ ThreadFairness
    /\ WF_vars(fill_playback_samples)
    /\ \A t \in {"reader", "writer", "stop"} : WF_vars(ControlAnswers(t))

\* The consumers that are connected when the server stops let go in the end.
PoliteFairness == BridgeFairness /\ \A f \in Fds : WF_vars(~running /\ PeerHangsUp(f))

-----------------------------------------------------------------------------
(* Properties                                                              *)

Thread(pcs) == [pc : pcs, fd : Fds \cup {NoFd}, stop : BOOLEAN]

WorkerPcs == {"off", "loop", "read", "activate", "deactivate", "asleep", "write",
              "leave", "close", "teardown"}
AcceptPcs == {"off", "loop", "accept", "check", "install", "spawn", "exited"}
StopperPcs == {"idle", "request", "shutdown", "joinAccept", "joinReader", "joinWriter",
               "reset", "deactivate", "done"}

\* The variables have their types; the playback queue stays within its limit.
TypeOK ==
    /\ running \in BOOLEAN /\ listening \in BOOLEAN /\ clientConnected \in BOOLEAN
    /\ clientFd \in Fds \cup {NoFd}
    /\ outboundFrames \in Seq(Frames)
    /\ activeSpeakers \in SUBSET Speakers
    /\ playback \in [active : BOOLEAN, stopRequested : BOOLEAN, samples : Nat]
    /\ playback.samples <= kMaxQueuedPlaybackSamples
    /\ accept \in Thread(AcceptPcs)
    /\ worker \in [{"reader", "writer"} -> Thread(WorkerPcs)]
    /\ writerFrame \in Frames
    /\ stopper \in [pc : StopperPcs, fd : Fds \cup {NoFd}]
    /\ publisher \in {"idle", "building"}
    /\ link \in [Fds -> {"unused", "open", "hungup", "closed"}]
    /\ heard \in [Fds -> [Statements -> {"unheard", "on", "off"}]]
    /\ CallTypeOK

\* What the connected consumer believes on topic t once it has read the frame
\* the writer holds and everything that is queued.
Queued(t) == \E i \in DOMAIN outboundFrames : outboundFrames[i].topic = t

QueuedLast(t, b) ==
    \E i \in DOMAIN outboundFrames :
        /\ outboundFrames[i] = Frame(t, b)
        /\ \A j \in DOMAIN outboundFrames : j > i => outboundFrames[j].topic # t

InHand(t) == /\ worker["writer"].pc = "write" /\ worker["writer"].fd = clientFd
             /\ writerFrame.topic = t

WillHear(t, b) ==
    \/ QueuedLast(t, b)
    \/ ~Queued(t) /\ InHand(t) /\ writerFrame.on = b
    \/ ~Queued(t) /\ ~InHand(t) /\ heard[clientFd][t] = IF b THEN "on" ELSE "off"

Attached == clientConnected /\ link[clientFd] = "open"

\* Nothing is written to a consumer before its hello: no frame queued for the
\* previous consumer, by a reader finishing late say, reaches the next one.
HelloFirst ==
    \A f \in Fds :
        worker["writer"].pc = "write" /\ worker["writer"].fd = f /\ link[f] = "open" =>
            heard[f]["hello"] = "on" \/ writerFrame = hello_frame

\* speaker.start and speaker.stop are the segment boundaries: once its queue
\* is written, a consumer believes exactly the active speakers are talking,
\* whenever it connected and however many audio chunks were dropped; and it hears
\* nothing before its hello, no frame queued for the consumer before it.
SpeakerView ==
    /\ HelloFirst
    /\ Attached => \A s \in Speakers : s \in activeSpeakers <=> WillHear(s, TRUE)

\* A consumer that was told playback.started, stopped or cleared last finds
\* the session open, or closed, accordingly: no transition goes unreported.
PlaybackView ==
    Attached => /\ WillHear("playback", TRUE) => playback.active
                /\ WillHear("playback", FALSE) => ~playback.active

\* Voice never makes the outbound queue longer than its limit, even where
\* frames that are not droppable did.
AudioBound ==
    \A i \in DOMAIN outboundFrames :
        outboundFrames[i].topic = "audio" => i <= kMaxOutboundFrames

\* Samples are queued only in an open session, and a requested stop always
\* has samples left whose end will report it: no stop is forgotten.
DrainPending ==
    /\ playback.samples > 0 => playback.active
    /\ playback.stopRequested => playback.active /\ playback.samples > 0

\* A consumer that counts as connected has a reader that will notice its
\* hang-up, so that the bridge never stays busy with a consumer long gone.
ConsumerHasReader ==
    clientConnected =>
        \/ accept.pc = "spawn"
        \/ /\ worker["reader"].fd = clientFd
           /\ worker["reader"].pc \notin {"off", "close", "teardown"}

\* After stop() no thread, connection, session or control call is left.
StoppedClean ==
    stopper.pc = "done" =>
        /\ ~clientConnected /\ ~listening /\ playback = NoPlayback
        /\ accept.pc = "exited" /\ \A t \in DOMAIN worker : worker[t].pc = "off"
        /\ \A f \in Fds : link[f] \in {"unused", "closed"}
        /\ \A t \in Callers : call[t] = "none"

\* stop() returns: it is not left joining a thread that never wakes up.
StopEnds == (stopper.pc = "request") ~> (stopper.pc = "done")

\* docs/media-bridge.md: after playback.stop the queue continues to play until
\* empty, then the server emits playback.stopped.  A requested stop is over in
\* the end, provided the consumer does not keep adding samples meanwhile.
DrainEnds ==
    <>[][playback'.samples <= playback.samples]_playback
        => (playback.stopRequested ~> ~playback.stopRequested)
================================================================================
