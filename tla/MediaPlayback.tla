---------------------------- MODULE MediaPlayback ----------------------------
(***************************************************************************)
(* The media bridge and the plugin host together, as the TeamSpeak plugin  *)
(* runs them: the bridge's control calls are the host's activate_ and      *)
(* deactivate_media_playback, a capture thread's tick is the bridge's      *)
(* fill_playback_samples, and SocketBridgeServer::stop shuts the host down *)
(* before it stops the bridge.                                             *)
(***************************************************************************)
EXTENDS MediaBridge

CONSTANTS Captures, NoCapture, Happens

VARIABLES mediaPlaybackActive, session, captureThread, registered, bridgeSet, thread, device, input

VARIABLE overlapped     \* history: an activation has overlapped the end of a session

Host == INSTANCE PluginPlayback

ASSUME SystemAssumption == Host!PlaybackAssumption

hostVars == <<mediaPlaybackActive, session, captureThread, registered, bridgeSet, thread, device,
              input>>
bridgeVars == <<running, clientFd, clientConnected, outboundFrames, activeSpeakers, playback,
                listening, accept, worker, writerFrame, stopper, publisher, link, heard>>
systemVars == <<hostVars, vars, overlapped>>

\* A thread is inside activate_media_playback while another is ending a session,
\* or about to.
Overlap ==
    \E t \in Callers :
        /\ call[t] = "activate"
        /\ \E u \in Host!Threads \ {t} :
            \/ thread[u].pc \in {"lock", "join", "restore close", "restore open", "restore flags"}
            \/ u \in Callers /\ call[u] = "deactivate"

SystemInit == Init /\ Host!Init /\ overlapped = FALSE

\* The thread that runs SocketBridgeServer::stop gets to the bridge last.
BridgeStep ==
    /\ BridgeNext
    /\ stopper' # stopper => thread["shutdown"].pc = "finished"
    /\ UNCHANGED hostVars

HostStep == Host!HostNext /\ UNCHANGED bridgeVars

\* A capture thread asks the bridge for a tick: the bridge has one or not.
CaptureTicks(c) ==
    \/ fill_playback_samples /\ Host!CaptureFills(c, TRUE)
    \/ ~playback.active /\ Host!CaptureFills(c, FALSE) /\ UNCHANGED bridgeVars

Recorded(step) == step /\ overlapped' = (overlapped \/ Overlap')

SystemNext == Recorded(BridgeStep \/ HostStep \/ \E c \in Captures : CaptureTicks(c))

SystemSpec == SystemInit /\ [][SystemNext]_systemVars

(***************************************************************************)
(* Fairness, thread by thread: the reader, in the bridge's code and in the *)
(* host's, and the capture threads go on with what they are doing; with    *)
(* SystemFairness all threads do.  Nobody has to connect, send or hang up. *)
(***************************************************************************)
BridgeThread(step) == Recorded(step /\ UNCHANGED hostVars)
HostThread(step) == Recorded(step /\ UNCHANGED bridgeVars)

Serving(t) == Host!Activating(t) \/ Host!DeactivateBegin(t) \/ Host!Deactivating(t)
Capturing(c) == Host!CaptureLoop(c) \/ Host!CaptureProcess(c) \/ Host!Deactivating(c)

SessionFairness ==
    /\ WF_systemVars(\/ BridgeThread(ReaderLoop \/ StartReturns \/ DeactivateReturns)
                     \/ HostThread(Serving("reader")))
    /\ \A c \in Captures : WF_systemVars(Recorded(CaptureTicks(c)) \/ HostThread(Capturing(c)))

SystemFairness ==
    /\ SessionFairness
    /\ WF_systemVars(BridgeThread(Accepting)) /\ WF_systemVars(BridgeThread(Writing))
    /\ \A t \in Callers \ {"reader"} : WF_systemVars(HostThread(Serving(t)))
    /\ WF_systemVars(HostThread(Host!Deactivating("callback")))

SessionFairSpec == SystemSpec /\ SessionFairness
FairSystemSpec == SystemSpec /\ SystemFairness

-----------------------------------------------------------------------------
\* No thread is inside a control call or on its way to one, and the capture
\* thread, if there is one, has nothing to end.
Quiet ==
    /\ \A t \in Callers : call[t] = "none"
    /\ \A t \in DOMAIN worker : worker[t].pc \notin {"leave", "close"}
    /\ \A t \in Host!HostThreads : thread[t].pc \in {"idle", "finished"}
    /\ \A c \in Captures :
        \/ thread[c].pc \in {"off", "done"}
        \/ thread[c].pc \in {"loop", "fill"} /\ ~thread[c].observed /\ ~thread[c].stop

\* docs/media-bridge.md: playback restores the previous capture device when it
\* stops.  With no consumer in a session and nobody at work on it, TeamSpeak has
\* the user's device and the user's input settings.
MicRestored ==
    ~(clientConnected /\ playback.active) /\ Quiet => device = "mic" /\ input = "user"

\* The same as long as no activation met the end of a session: then failed
\* activations, drains and interruptions all leave the microphone as it was.
MicRestoredApart == ~overlapped => MicRestored

\* Once SocketBridgeServer::stop is through, nothing is left of a session that a
\* consumer opened after the host was shut down and before the bridge was.
HostAtRest ==
    stopper.pc = "done" =>
        /\ ~mediaPlaybackActive /\ captureThread = NoCapture
        /\ \A c \in Captures : thread[c].pc = "off"

\* When a session ended in the bridge, the host ends its own as well, unless
\* the consumer opens the next one before.
SwapEnds == (mediaPlaybackActive /\ ~playback.active) ~> (~mediaPlaybackActive \/ playback.active)

\* Every control call of the bridge returns, so that its reader, writer and stop
\* are not left waiting for the host.
ControlReturns == Host!ControlReturns
==============================================================================
