------------------------------- MODULE MediaClient ------------------------------
(* "ts playback send": bridge::send_playback_file reads a WAV file, or has an   *)
(* MP3 file decoded by a child process, and plays it over the media socket in   *)
(* chunks.  Of the bridge the module has what one consumer can see: the session*)
(* it serves, the queue of playback samples, and the frames it writes.            *)
EXTENDS Naturals, Sequences

CONSTANTS
    FileChunks,    \* chunks in the file
    QueuedChunks,  \* kMaxQueuedPlaybackSamples, in chunks
    MaxReports     \* bound: frames the bridge writes unasked while others are unread

ASSUME MediaClientAssumption ==
    /\ FileChunks \in Nat \ {0}
    /\ QueuedChunks \in Nat \ {0}
    /\ MaxReports \in Nat

VARIABLES
    sender,        \* the command: its stage, the chunks it has and has sent, its answer
    decoder,       \* the child that decodes, and the chunks in its pipe
    toBridge,      \* commands in the socket
    toSender,      \* frames queued by the bridge or in the socket
    served,       \* the bridge's side of the connection and of the playback
    played         \* history: the chunks the capture thread took in this session

mediaClientVars == <<sender, decoder, toBridge, toSender, served, played>>

Chunk == 1..FileChunks
Request(what, chunk) == [what |-> what, chunk |-> chunk]     \* chunk 0: it has none
NoDecoder == [is |-> "none", written |-> 0]
Apart == [at |-> "none", active |-> FALSE, stopping |-> FALSE, queue |-> <<>>]
NotSending == [at |-> "idle", clear |-> FALSE, has |-> 0, sent |-> 0, said |-> "nothing"]

Connected == {"clear", "cleared", "start", "started", "chunk", "ready", "stop", "stopped"}

SenderStates ==
    [at : {"idle", "file", "decode", "reap", "connect"} \cup Connected,
     clear : BOOLEAN, has : 0..FileChunks, sent : 0..FileChunks,
     said : {"nothing", "failed", "drained", "inactive"}]
DecoderStates == [is : {"none", "runs", "ended", "failed"}, written : 0..FileChunks]
ServedStates == [at : {"none", "serves", "refuses", "closed"}, active : BOOLEAN,
                 stopping : BOOLEAN, queue : Seq(Chunk)]
RequestTypes == [what : {"clear", "start", "stop"}, chunk : {0}] \cup [what : {"chunk"}, chunk : Chunk]
FrameTypes == {"hello", "status", "speaker", "error", "cleared", "started", "drained",
               "inactive"}

\* The bridge's queue is within its limit, and a session that was asked to stop is
\* open and has samples left.
QueueOK(s) == Len(s.queue) <= QueuedChunks /\ (s.stopping => s.active /\ s.queue # <<>>)

\* The variables have their types.
MediaClientTypeOK ==
    /\ sender \in SenderStates /\ decoder \in DecoderStates
    /\ toBridge \in Seq(RequestTypes) /\ toSender \in Seq(FrameTypes)
    /\ served \in ServedStates /\ QueueOK(served)
    /\ played \in Seq(Chunk)

MediaClientInit ==
    /\ sender = NotSending
    /\ decoder = NoDecoder
    /\ toBridge = <<>> /\ toSender = <<>>
    /\ served = Apart
    /\ played = <<>>

--------------------------------------------------------------------------------
(* Reading the file                                                            *)

Sender(from, to) == sender.at = from /\ sender' = [sender EXCEPT !.at = to]

\* The command begins, with the bridge done with the one before.  What it may find
\* wrong with the profile, the plugin or its media socket is SendFails.
SendBegins(clear) ==
    /\ sender.at = "idle" /\ served.at = "none"
    /\ sender' = [NotSending EXCEPT !.at = "file", !.clear = clear]
    /\ decoder' = NoDecoder
    /\ toBridge' = <<>> /\ toSender' = <<>> /\ played' = <<>>
    /\ UNCHANGED served

\* read_wav_payload: all of the samples the header names, or an error.
ReadsWav ==
    /\ sender.at = "file"
    /\ sender' = [sender EXCEPT !.at = "connect", !.has = FileChunks]
    /\ UNCHANGED <<decoder, toBridge, toSender, served, played>>

\* read_mp3_payload: a pipe, and a child that becomes ffmpeg.
ForksDecoder ==
    /\ Sender("file", "decode")
    /\ decoder' = [is |-> "runs", written |-> 0]
    /\ UNCHANGED <<toBridge, toSender, served, played>>

DecoderWrites ==
    /\ decoder.is = "runs" /\ decoder.written < FileChunks
    /\ decoder' = [decoder EXCEPT !.written = @ + 1]
    /\ UNCHANGED <<sender, toBridge, toSender, served, played>>

\* ffmpeg exits with 0 when it has written everything, and may fail or be killed
\* with a part of it in the pipe.
DecoderEnds ==
    /\ decoder.is = "runs"
    /\ \/ decoder.written = FileChunks /\ decoder' = [decoder EXCEPT !.is = "ended"]
       \/ decoder' = [decoder EXCEPT !.is = "failed"]
    /\ UNCHANGED <<sender, toBridge, toSender, served, played>>

\* The pipe is read until its writer is gone.
ReadsDecoded ==
    /\ sender.at = "decode"
    /\ IF sender.has < decoder.written
       THEN sender' = [sender EXCEPT !.has = @ + 1]
       ELSE decoder.is # "runs" /\ sender' = [sender EXCEPT !.at = "reap"]
    /\ UNCHANGED <<decoder, toBridge, toSender, served, played>>

\* wait_for_decoder: only an exit with 0 makes the samples a payload.
ReapsDecoder ==
    /\ sender.at = "reap"
    /\ decoder.is = "ended" /\ sender.has > 0
    /\ sender' = [sender EXCEPT !.at = "connect"]
    /\ decoder' = NoDecoder
    /\ UNCHANGED <<toBridge, toSender, served, played>>

--------------------------------------------------------------------------------
(* Sending                                                                     *)

\* The bridge takes the connection, or turns it away when it has a consumer.
ConnectsMedia ==
    /\ Sender("connect", IF sender.clear THEN "clear" ELSE "start")
    /\ \/ /\ served' = [Apart EXCEPT !.at = "serves"]
          /\ toSender' = <<"hello", "status">>
       \/ /\ served' = [Apart EXCEPT !.at = "refuses"]
          /\ toSender' = <<"error">>
    /\ UNCHANGED <<decoder, toBridge, played>>

\* A command is written; what is written to a connection that is closed is lost.
Requested(request) ==
    /\ toBridge' = IF served.at = "serves" THEN Append(toBridge, request) ELSE toBridge
    /\ UNCHANGED <<decoder, toSender, served, played>>

SendsClear == Sender("clear", "cleared") /\ Requested(Request("clear", 0))
SendsStart == Sender("start", "started") /\ Requested(Request("start", 0))
SendsStop == Sender("stop", "stopped") /\ Requested(Request("stop", 0))

SendsChunk ==
    /\ sender.at = "chunk"
    /\ sender' = [sender EXCEPT !.at = "ready", !.sent = @ + 1]
    /\ Requested(Request("chunk", sender.sent + 1))

\* Mutant: an error frame is skipped like any other.
NeverAnError(frame) == FALSE

IsError(frame) == frame = "error"

\* drain_ready_frames reads what is there and looks for errors alone.
DrainsReady ==
    /\ sender.at = "ready"
    /\ IF toSender = <<>>
       THEN /\ served.at = "serves"
            /\ sender' = [sender EXCEPT !.at = IF sender.sent < sender.has THEN "chunk" ELSE "stop"]
            /\ UNCHANGED toSender
       ELSE /\ ~IsError(Head(toSender))
            /\ toSender' = Tail(toSender)
            /\ UNCHANGED sender
    /\ UNCHANGED <<decoder, toBridge, served, played>>

\* A frame may also be late: poll finds none although one is on its way.
FramesLate ==
    /\ sender.at = "ready" /\ toSender # <<>>
    /\ sender' = [sender EXCEPT !.at = IF sender.sent < sender.has THEN "chunk" ELSE "stop"]
    /\ UNCHANGED <<decoder, toBridge, toSender, served, played>>

\* The answer each stage waits for.
Answers == [cleared |-> {"cleared"}, started |-> {"started"}, stopped |-> {"drained", "inactive"}]

\* wait_for_frame skips what it does not wait for, except an error.
WaitsForFrame ==
    /\ sender.at \in DOMAIN Answers /\ toSender # <<>>
    /\ ~IsError(Head(toSender))
    /\ toSender' = Tail(toSender)
    /\ IF Head(toSender) \notin Answers[sender.at]
       THEN UNCHANGED sender
       ELSE sender' = CASE sender.at = "cleared" -> [sender EXCEPT !.at = "start"]
                        [] sender.at = "started" -> [sender EXCEPT !.at = "chunk"]
                        [] sender.at = "stopped" -> [NotSending EXCEPT !.said = Head(toSender)]
    /\ served' = IF sender'.at = "idle" THEN [served EXCEPT !.at = "closed"] ELSE served
    /\ UNCHANGED <<decoder, toBridge, played>>

\* An error: of the file, the decoder, which is waited for first, or the socket, a
\* frame that says so, or the deadline, which every call on the socket has.
SendFails ==
    /\ sender.at # "idle"
    /\ decoder.is # "runs"
    /\ sender' = [NotSending EXCEPT !.said = "failed"]
    /\ decoder' = NoDecoder
    /\ served' = IF served.at = "none" THEN served ELSE [served EXCEPT !.at = "closed"]
    /\ UNCHANGED <<toBridge, toSender, played>>

--------------------------------------------------------------------------------
(* The bridge                                                                  *)

Tells(frame) == toSender' = Append(toSender, frame)

Serves(what) ==
    /\ served.at \in {"serves", "closed"}
    /\ toBridge # <<>> /\ Head(toBridge).what = what
    /\ toBridge' = Tail(toBridge)
    /\ UNCHANGED <<sender, decoder>>

\* playback.start: the backend lends its capture device, or refuses.
ServesStart ==
    /\ Serves("start")
    /\ \/ /\ served' = [served EXCEPT !.active = TRUE, !.stopping = FALSE, !.queue = <<>>]
          /\ Tells("started")
       \/ Tells("error") /\ UNCHANGED served
    /\ UNCHANGED played

\* playback.chunk: only in a session, and only while the queue has room.
ServesChunk ==
    /\ Serves("chunk")
    /\ IF served.active /\ Len(served.queue) < QueuedChunks
       THEN /\ served' = [served EXCEPT !.queue = Append(@, Head(toBridge).chunk)]
            /\ UNCHANGED toSender
       ELSE Tells("error") /\ UNCHANGED served
    /\ UNCHANGED played

ServesStop ==
    /\ Serves("stop")
    /\ IF ~served.active THEN Tells("inactive") /\ UNCHANGED served
       ELSE IF served.queue = <<>>
       THEN /\ served' = [served EXCEPT !.active = FALSE, !.stopping = FALSE]
            /\ Tells("drained")
       ELSE served' = [served EXCEPT !.stopping = TRUE] /\ UNCHANGED toSender
    /\ UNCHANGED played

ServesClear ==
    /\ Serves("clear")
    /\ served' = [served EXCEPT !.active = FALSE, !.stopping = FALSE, !.queue = <<>>]
    /\ Tells("cleared")
    /\ UNCHANGED played

\* fill_playback_samples: the capture thread takes a chunk and may end the session.
PlaysChunk ==
    /\ served.active /\ served.queue # <<>>
    /\ played' = Append(played, Head(served.queue))
    /\ IF served.stopping /\ Len(served.queue) = 1
       THEN /\ served' = [served EXCEPT !.active = FALSE, !.stopping = FALSE, !.queue = <<>>]
            /\ Tells("drained")
       ELSE served' = [served EXCEPT !.queue = Tail(@)] /\ UNCHANGED toSender
    /\ UNCHANGED <<sender, decoder, toBridge>>

\* Speakers, voice and status, at any time.
ReportsSpeech ==
    /\ served.at = "serves" /\ Len(toSender) < MaxReports
    /\ Tells("speaker")
    /\ UNCHANGED <<sender, decoder, toBridge, served, played>>

\* The bridge stops, or writing failed: what it had queued is not written.
BridgeCloses ==
    /\ served.at = "serves"
    /\ served' = [Apart EXCEPT !.at = "closed"]
    /\ toBridge' = <<>>
    /\ \E n \in 0..Len(toSender) : toSender' = SubSeq(toSender, 1, n)
    /\ UNCHANGED <<sender, decoder, played>>

\* handle_client_disconnect, once what the sender left in the socket is read.
SeesHangUp ==
    /\ served.at \in {"closed", "refuses"} /\ sender.at = "idle" /\ toBridge = <<>>
    /\ served' = Apart /\ toSender' = <<>>
    /\ UNCHANGED <<sender, decoder, toBridge, played>>

MediaClientNext ==
    \/ \E clear \in BOOLEAN : SendBegins(clear)
    \/ ReadsWav \/ ForksDecoder \/ DecoderWrites \/ DecoderEnds \/ ReadsDecoded \/ ReapsDecoder
    \/ ConnectsMedia \/ SendsClear \/ SendsStart \/ SendsChunk \/ SendsStop
    \/ DrainsReady \/ FramesLate \/ WaitsForFrame \/ SendFails
    \/ ServesStart \/ ServesChunk \/ ServesStop \/ ServesClear
    \/ PlaysChunk \/ ReportsSpeech \/ BridgeCloses \/ SeesHangUp

MediaClientSpec == MediaClientInit /\ [][MediaClientNext]_mediaClientVars

--------------------------------------------------------------------------------

\* A command that reports success has played its file: every chunk, in order and
\* once, although a chunk that finds the queue full or no session is refused by a
\* frame the command reads later, if at all.
SentIsPlayed ==
    sender.said \in {"drained", "inactive"} =>
       sender.said = "drained" /\ played = [i \in Chunk |-> i]

================================================================================
