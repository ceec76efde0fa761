--------------------------- MODULE MCPlaybackEnds ----------------------------
(* The ends of a playback, each behaviour one of them: the host that plays apart *)
(* from the bridge; a command that sends a file apart from both; and host and    *)
(* bridge together while the plugin is unloaded.                                 *)
EXTENDS PluginPlayback, MediaClient, FiniteSets, TLC

CONSTANTS
    Fds, NoFd, FdReuse, Speakers, Commands, BridgeHappens, ChunkSizes, FillSize,
    kMaxOutboundFrames, kMaxQueuedPlaybackSamples, MaxFrames, UnloadHappens

VARIABLES running, clientFd, clientConnected, outboundFrames, activeSpeakers, playback,
          listening, accept, worker, writerFrame, stopper, publisher, link, heard, overlapped

VARIABLE end       \* which one

Unload == INSTANCE MediaPlayback WITH Happens <- UnloadHappens

ASSUME EndsAssumption ==
    Unload!BridgeAssumption /\ Unload!BridgeCallers /\ Unload!SystemAssumption

bridgeOnlyVars == <<running, clientFd, clientConnected, outboundFrames, activeSpeakers, playback,
                    listening, accept, worker, writerFrame, stopper, publisher, link, heard,
                    overlapped>>

\* The bridge takes no part in what the others do.
BridgeUnused ==
    /\ running = FALSE /\ clientFd = NoFd /\ clientConnected = FALSE /\ outboundFrames = <<>>
    /\ activeSpeakers = {} /\ playback = {} /\ listening = FALSE /\ accept = {} /\ worker = {}
    /\ writerFrame = {} /\ stopper = {} /\ publisher = {} /\ link = {} /\ heard = {}
    /\ overlapped = FALSE

EndsInit ==
    /\ MediaClientInit
    /\ \/ end \in {"host", "sender"} /\ Init /\ BridgeUnused
       \/ end = "unload" /\ Unload!SystemInit

\* Bounds: apart from the bridge only its reader calls, and where the host is shut
\* down there are two capture threads at once.
OnlyReader == \A t \in Callers \ {"reader"} : call'[t] = "none"
TwoCaptures == Cardinality({c \in Captures : thread'[c].pc # "off"}) <= 2

EndsNext ==
    /\ UNCHANGED end
    /\ \/ /\ end = "host"
          /\ Next
          /\ OnlyReader /\ (thread'["shutdown"].pc = "idle" \/ TwoCaptures)
          /\ UNCHANGED <<bridgeOnlyVars, mediaClientVars>>
       \/ end = "sender" /\ MediaClientNext /\ UNCHANGED <<bridgeOnlyVars, playbackVars>>
       \/ end = "unload" /\ Unload!SystemNext /\ TwoCaptures /\ UNCHANGED mediaClientVars

EndsSpec == EndsInit /\ [][EndsNext]_<<playbackVars, bridgeOnlyVars, mediaClientVars, end>>

\* Capture threads differ in nothing but their name.
CaptureSymmetry == Permutations(Captures)

\* MediaPlayback's HostAtRest; and the state of the host and of the sender is what
\* their modules say.
HostAtRest ==
    /\ TypeOK
    /\ end = "sender" => MediaClientTypeOK
    /\ end = "unload" => Unload!HostAtRest
=============================================================================
