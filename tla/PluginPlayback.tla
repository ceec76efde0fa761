---------------------------- MODULE PluginPlayback ----------------------------
(***************************************************************************)
(* The playback half of PluginHostBackend (sdk/plugin_host_backend.cpp):   *)
(* activate_media_playback swaps TeamSpeak's capture device for the        *)
(* plugin's own and starts a capture thread, deactivate_media_playback     *)
(* joins that thread and puts the device back.  Both are called by the     *)
(* media bridge's threads; deactivate also by the capture thread itself,   *)
(* by TeamSpeak's callback thread when a connection ends, and by           *)
(* shutdown().  An action is one critical section of mutex_, or one call   *)
(* into TeamSpeak made outside of it.                                      *)
(***************************************************************************)
EXTENDS MediaPlaybackControl

CONSTANTS
    Captures,      \* capture threads (bound: at most this many exist at once)
    NoCapture,     \* a std::jthread that is not joinable
    Happens        \* which of HostEvents may happen

HostEvents == {"resolve fails", "register fails", "open fails", "flags fail",
               "restore fails", "process fails", "disconnect", "shutdown"}

ASSUME PlaybackAssumption ==
    /\ Callers \cap {"callback", "shutdown"} = {}
    /\ Captures \cap (Callers \cup {"callback", "shutdown"}) = {}
    /\ NoCapture \notin Captures \cup Callers \cup {"callback", "shutdown"}
    /\ Happens \subseteq HostEvents

ASSUME PlaybackCallers == "reader" \in Callers

VARIABLES
    mediaPlaybackActive,    \* media_playback_active_
    session,                \* media_playback_session_
    captureThread,          \* media_capture_thread_
    registered,             \* custom_capture_device_registered_
    bridgeSet,              \* media_bridge_ is not null
    thread,                 \* each thread's pc, saved session, thread it joins;
                            \* a capture thread's stop request and observation
    device,                 \* the capture device TeamSpeak has open
    input                   \* whose mute and input settings TeamSpeak has

hostVars == <<mediaPlaybackActive, session, captureThread, registered, bridgeSet, thread,
              device, input>>
playbackVars == <<hostVars, call>>

HostThreads == Callers \cup {"callback", "shutdown"}
Threads == HostThreads \cup Captures

\* A snapshot knows the user's device, or found the custom one, or nothing.
Inputs == {"user", "playback"}
Sessions == [open : BOOLEAN, known : BOOLEAN, input : Inputs]
NoSession == [open |-> FALSE, known |-> FALSE, input |-> "user"]

Idle(pc) == [pc |-> pc, saved |-> NoSession, joins |-> NoCapture,
             stop |-> FALSE, observed |-> FALSE]

Init ==
    /\ mediaPlaybackActive = FALSE /\ session = NoSession /\ captureThread = NoCapture
    /\ registered = FALSE /\ bridgeSet = TRUE
    /\ thread = [t \in Threads |-> Idle(IF t \in Captures THEN "off" ELSE "idle")]
    /\ device = "mic" /\ input = "user"
    /\ CallInit

\* media_capture_thread_ is assigned under mutex_, and the thread it held is
\* joined by that assignment: the mutex is held meanwhile.
MutexFree == \A t \in Threads : thread[t].pc # "assign"

Goes(t, pc) == thread' = [thread EXCEPT ![t].pc = pc]

\* Thread t joins the thread it took out of media_capture_thread_, if any.
Joined(t) == thread[t].joins # NoCapture => thread[thread[t].joins].pc = "done"

\* The joined thread is gone and t goes on to pc.
AfterJoin(th, t, pc) ==
    [x \in Threads |->
        IF x = t THEN [th[t] EXCEPT !.pc = pc, !.joins = NoCapture]
        ELSE IF x = th[t].joins THEN Idle("off") ELSE th[x]]

\* Thread t, as th has it, returns from activate or deactivate.
Ends(th, t, result) ==
    /\ thread' = [th EXCEPT ![t] = Idle(CASE t \in Captures -> "done"
                                          [] t = "shutdown" -> IF result = "ok" THEN "unregister"
                                                               ELSE "finished"
                                          [] OTHER -> "idle")]
    /\ IF t \in Callers THEN Answer(t, result) ELSE UNCHANGED call

Returns(t, result) == Ends(thread, t, result)

-----------------------------------------------------------------------------
(* activate_media_playback                                                 *)

\* Mutant: the thread to join is not moved out of the field.
ActivateBeginCopies(t) ==
    /\ call[t] = "activate" /\ thread[t].pc = "idle" /\ MutexFree
    /\ thread' = [thread EXCEPT ![t].pc = "stale",
                     ![t].joins = IF mediaPlaybackActive THEN NoCapture ELSE captureThread]
    /\ UNCHANGED <<mediaPlaybackActive, session, captureThread, registered, bridgeSet,
                   device, input, call>>

\* A capture thread that ended its session itself is left over: take it.
ActivateBegin(t) ==
    /\ call[t] = "activate" /\ thread[t].pc = "idle" /\ MutexFree
    /\ \/ /\ ~mediaPlaybackActive
          /\ thread' = [thread EXCEPT ![t].pc = "stale", ![t].joins = captureThread]
          /\ captureThread' = NoCapture
       \/ /\ mediaPlaybackActive
          /\ Goes(t, "stale")
          /\ UNCHANGED captureThread
    /\ UNCHANGED <<mediaPlaybackActive, session, registered, bridgeSet, device, input, call>>

ActivateJoined(t) ==
    /\ thread[t].pc = "stale" /\ Joined(t)
    /\ thread' = AfterJoin(thread, t, "check")
    /\ UNCHANGED <<mediaPlaybackActive, session, captureThread, registered, bridgeSet,
                   device, input, call>>

\* resolve_handler_id, then the mutex again: playback may be active already.
ActivateCheck(t) ==
    /\ thread[t].pc = "check" /\ MutexFree
    /\ \/ "resolve fails" \in Happens /\ Returns(t, "failed")
       \/ mediaPlaybackActive /\ Returns(t, "ok")
       \/ ~mediaPlaybackActive /\ Goes(t, "register") /\ UNCHANGED call
    /\ UNCHANGED <<mediaPlaybackActive, session, captureThread, registered, bridgeSet,
                   device, input>>

ensure_custom_capture_device_registered(t) ==
    /\ thread[t].pc = "register" /\ MutexFree
    /\ \/ /\ "register fails" \in Happens /\ ~registered
          /\ Returns(t, "failed")
          /\ UNCHANGED registered
       \/ /\ registered' = TRUE
          /\ Goes(t, "snapshot") /\ UNCHANGED call
    /\ UNCHANGED <<mediaPlaybackActive, session, captureThread, bridgeSet, device, input>>

\* The custom device, and a closed one, are not a device to go back to.
snapshot_media_playback_session(t) ==
    /\ thread[t].pc = "snapshot"
    /\ thread' = [thread EXCEPT ![t].pc = "close",
                                ![t].saved = [open |-> TRUE, known |-> device = "mic", input |-> input]]
    /\ UNCHANGED <<mediaPlaybackActive, session, captureThread, registered, bridgeSet,
                   device, input, call>>

\* activate_custom_capture_device: close, open and activate, set the flags.  A
\* failure needs the mutex for its message and undoes what was done.
CustomClose(t) ==
    /\ thread[t].pc = "close"
    /\ device' = "closed"
    /\ Goes(t, "open")
    /\ UNCHANGED <<mediaPlaybackActive, session, captureThread, registered, bridgeSet,
                   input, call>>

CustomOpen(t) ==
    /\ thread[t].pc = "open"
    /\ \/ "open fails" \in Happens /\ MutexFree /\ Goes(t, "restore close") /\ UNCHANGED device
       \/ device' = "custom" /\ Goes(t, "flags")
    /\ UNCHANGED <<mediaPlaybackActive, session, captureThread, registered, bridgeSet,
                   input, call>>

CustomFlags(t) ==
    /\ thread[t].pc = "flags"
    /\ \/ /\ "flags fail" \in Happens /\ MutexFree
          /\ input' \in {input, "playback"}
          /\ Goes(t, "restore close")
       \/ input' = "playback" /\ Goes(t, "commit")
    /\ UNCHANGED <<mediaPlaybackActive, session, captureThread, registered, bridgeSet,
                   device, call>>

\* The new capture thread is assigned to media_capture_thread_, which still
\* holds one if that thread ended its session after ActivateBegin looked.
ActivateCommit(t) ==
    /\ thread[t].pc = "commit" /\ MutexFree
    /\ mediaPlaybackActive' = TRUE /\ session' = thread[t].saved
    /\ \E c \in Captures :
        /\ thread[c].pc = "off"
        /\ captureThread' = c
        /\ \/ /\ captureThread = NoCapture
              /\ Ends([thread EXCEPT ![c] = Idle("loop")], t, "ok")
           \/ /\ captureThread # NoCapture
              /\ thread' = [thread EXCEPT ![c] = Idle("loop"), ![captureThread].stop = TRUE,
                                          ![t].pc = "assign", ![t].joins = captureThread]
              /\ UNCHANGED call
    /\ UNCHANGED <<registered, bridgeSet, device, input>>

ActivateAssigned(t) ==
    /\ thread[t].pc = "assign" /\ Joined(t)
    /\ Ends(AfterJoin(thread, t, "idle"), t, "ok")
    /\ UNCHANGED <<mediaPlaybackActive, session, captureThread, registered, bridgeSet,
                   device, input>>

-----------------------------------------------------------------------------
(* deactivate_media_playback, at pc "lock" in the thread that runs it      *)

DeactivateBegin(t) ==
    /\ call[t] = "deactivate" /\ thread[t].pc = "idle"
    /\ Goes(t, "lock")
    /\ UNCHANGED <<mediaPlaybackActive, session, captureThread, registered, bridgeSet,
                   device, input, call>>

\* Mutant: a capture thread that ends its own session joins itself.
TakesSelf(t) == [thread EXCEPT ![t].pc = "join", ![t].saved = session, ![t].joins = captureThread]

\* Thread t takes the session to restore and the capture thread to join.
Takes(t) == [thread EXCEPT ![t].pc = "join", ![t].saved = session,
                           ![t].joins = IF captureThread = t THEN NoCapture ELSE captureThread]

\* The session and its capture thread are taken; a capture thread that ends
\* its own session stays in media_capture_thread_ for somebody else to join.
DeactivateLock(t) ==
    /\ thread[t].pc = "lock" /\ MutexFree
    /\ mediaPlaybackActive' = FALSE /\ session' = NoSession
    /\ \/ /\ ~mediaPlaybackActive /\ captureThread = NoCapture
          /\ Returns(t, "ok")
          /\ UNCHANGED captureThread
       \/ /\ mediaPlaybackActive \/ captureThread # NoCapture
          /\ captureThread' = IF captureThread = t THEN t ELSE NoCapture
          /\ thread' = [x \in Threads |-> [Takes(t)[x] EXCEPT !.stop = @ \/ x = captureThread]]
          /\ UNCHANGED call
    /\ UNCHANGED <<registered, bridgeSet, device, input>>

DeactivateJoined(t) ==
    /\ thread[t].pc = "join" /\ Joined(t)
    /\ IF thread[t].saved.open
       THEN thread' = AfterJoin(thread, t, "restore close") /\ UNCHANGED call
       ELSE Ends(AfterJoin(thread, t, "idle"), t, "ok")
    /\ UNCHANGED <<mediaPlaybackActive, session, captureThread, registered, bridgeSet,
                   device, input>>

\* restore_media_playback_session: the first failure leaves the rest undone.
RestoreClose(t) ==
    /\ thread[t].pc = "restore close"
    /\ device' = "closed"
    /\ Goes(t, IF thread[t].saved.known THEN "restore open" ELSE "restore flags")
    /\ UNCHANGED <<mediaPlaybackActive, session, captureThread, registered, bridgeSet,
                   input, call>>

RestoreOpen(t) ==
    /\ thread[t].pc = "restore open"
    /\ \/ "restore fails" \in Happens /\ Goes(t, "restore error") /\ UNCHANGED device
       \/ device' = "mic" /\ Goes(t, "restore flags")
    /\ UNCHANGED <<mediaPlaybackActive, session, captureThread, registered, bridgeSet, input, call>>

\* Mutant: the settings are left as playback wants them.
RestoreFlagsKeeps(t) ==
    /\ thread[t].pc = "restore flags"
    /\ Returns(t, IF t \in Callers /\ call[t] = "activate" THEN "failed" ELSE "ok")
    /\ UNCHANGED <<mediaPlaybackActive, session, captureThread, registered, bridgeSet,
                   device, input>>

\* An activation that failed reports its own failure, restored or not.
RestoreFlags(t) ==
    /\ thread[t].pc = "restore flags"
    /\ \/ "restore fails" \in Happens /\ Goes(t, "restore error") /\ UNCHANGED <<input, call>>
       \/ /\ input' = thread[t].saved.input
          /\ Returns(t, IF t \in Callers /\ call[t] = "activate" THEN "failed" ELSE "ok")
    /\ UNCHANGED <<mediaPlaybackActive, session, captureThread, registered, bridgeSet, device>>

\* translate_error takes the mutex.
RestoreError(t) ==
    /\ thread[t].pc = "restore error" /\ MutexFree
    /\ Returns(t, "failed")
    /\ UNCHANGED <<mediaPlaybackActive, session, captureThread, registered, bridgeSet, device, input>>

-----------------------------------------------------------------------------
(* media_capture_loop.  Whether the bridge filled a tick is its business.  *)

\* Mutant: the capture thread returns from a drained session without ending it.
AfterFillReturns(c, filled) ==
    IF filled THEN "process" ELSE IF thread[c].observed THEN "done" ELSE "loop"

\* Where the capture thread goes with a tick, or with none: a session that was
\* played before is over.
AfterFill(c, filled) == IF filled THEN "process" ELSE IF thread[c].observed THEN "lock" ELSE "loop"

\* A session is this thread's when its handler is: there is one connection.
CaptureLoop(c) ==
    /\ thread[c].pc = "loop"
    /\ \/ thread[c].stop /\ Goes(c, "done")
       \/ /\ ~thread[c].stop /\ MutexFree
          /\ Goes(c, IF ~mediaPlaybackActive THEN "done"
                     ELSE IF bridgeSet THEN "fill" ELSE AfterFill(c, FALSE))
    /\ UNCHANGED <<mediaPlaybackActive, session, captureThread, registered, bridgeSet,
                   device, input, call>>

CaptureFills(c, filled) ==
    /\ thread[c].pc = "fill"
    /\ thread' = [thread EXCEPT ![c].pc = AfterFill(c, filled), ![c].observed = @ \/ filled]
    /\ UNCHANGED <<mediaPlaybackActive, session, captureThread, registered, bridgeSet,
                   device, input, call>>

\* processCustomCaptureData fails: media.playback.error, and the session ends.
CaptureProcess(c) ==
    /\ thread[c].pc = "process"
    /\ \/ Goes(c, "loop")
       \/ "process fails" \in Happens /\ Goes(c, "lock")
    /\ UNCHANGED <<mediaPlaybackActive, session, captureThread, registered, bridgeSet,
                   device, input, call>>

-----------------------------------------------------------------------------
(* on_connect_status_change(STATUS_DISCONNECTED) and shutdown              *)

Disconnected ==
    /\ "disconnect" \in Happens
    /\ thread["callback"].pc = "idle" /\ MutexFree
    /\ mediaPlaybackActive
    /\ Goes("callback", "lock")
    /\ UNCHANGED <<mediaPlaybackActive, session, captureThread, registered, bridgeSet,
                   device, input, call>>

\* SocketBridgeServer::stop takes the bridge away, then calls shutdown.
ShutdownBegin ==
    /\ "shutdown" \in Happens
    /\ thread["shutdown"].pc = "idle" /\ MutexFree
    /\ bridgeSet' = FALSE
    /\ Goes("shutdown", "lock")
    /\ UNCHANGED <<mediaPlaybackActive, session, captureThread, registered, device, input, call>>

\* A capture thread that is still there is joined, and not asked to stop.
ShutdownUnregister ==
    /\ thread["shutdown"].pc = "unregister" /\ MutexFree
    /\ registered' = FALSE
    /\ thread' = [thread EXCEPT !["shutdown"].pc = "unjoined", !["shutdown"].joins = captureThread]
    /\ captureThread' = NoCapture
    /\ UNCHANGED <<mediaPlaybackActive, session, bridgeSet, device, input, call>>

ShutdownJoined ==
    /\ thread["shutdown"].pc = "unjoined" /\ Joined("shutdown")
    /\ thread' = AfterJoin(thread, "shutdown", "finished")
    /\ UNCHANGED <<mediaPlaybackActive, session, captureThread, registered, bridgeSet,
                   device, input, call>>

-----------------------------------------------------------------------------
Activating(t) == ActivateBegin(t) \/ ActivateJoined(t) \/ ActivateCheck(t)
                 \/ ensure_custom_capture_device_registered(t)
                 \/ snapshot_media_playback_session(t) \/ CustomClose(t) \/ CustomOpen(t)
                 \/ CustomFlags(t) \/ ActivateCommit(t) \/ ActivateAssigned(t)

Deactivating(t) == DeactivateLock(t) \/ DeactivateJoined(t) \/ RestoreClose(t) \/ RestoreOpen(t)
                   \/ RestoreFlags(t) \/ RestoreError(t)

\* What the host does between the bridge's calls and the capture thread's.
HostNext ==
    \/ \E t \in Callers : Activating(t) \/ DeactivateBegin(t)
    \/ \E t \in Threads : Deactivating(t)
    \/ \E c \in Captures : CaptureLoop(c) \/ CaptureProcess(c)
    \/ Disconnected \/ ShutdownBegin \/ ShutdownUnregister \/ ShutdownJoined

\* The bridge: only its reader activates, and any of its threads deactivates.
BridgeCalls(t) ==
    /\ \/ \E request \in Requests :
            (request = "activate" => t = "reader") /\ Invoke(t, request)
       \/ \E result \in Results : Consume(t, result)
    /\ UNCHANGED hostVars

BridgeFills == \E c \in Captures, filled \in BOOLEAN : CaptureFills(c, filled)

Next == HostNext \/ (\E t \in Callers : BridgeCalls(t)) \/ BridgeFills

Spec == Init /\ [][Next]_playbackVars

(***************************************************************************)
(* Fairness: each host thread that can take a step does, and one that      *)
(* waits for the mutex while others come and go gets it in the end, hence  *)
(* strong fairness.  The bridge's threads need not call, and               *)
(* fill_playback_samples always returns.                                   *)
(***************************************************************************)
HostFairness ==
    /\ \A t \in Callers : SF_playbackVars(Activating(t) \/ DeactivateBegin(t))
    /\ \A t \in Threads : SF_playbackVars(Deactivating(t))
    /\ \A c \in Captures : SF_playbackVars(CaptureLoop(c) \/ CaptureProcess(c))
    /\ WF_playbackVars(ShutdownUnregister \/ ShutdownJoined)

FairSpec == Spec /\ HostFairness
            /\ \A c \in Captures : WF_playbackVars(\E filled \in BOOLEAN : CaptureFills(c, filled))

-----------------------------------------------------------------------------
(* Properties                                                              *)

ThreadPcs == {"idle", "off", "stale", "check", "register", "snapshot", "close", "open", "flags",
              "commit", "assign", "lock", "join", "restore close", "restore open", "restore flags",
              "restore error",
              "loop", "fill", "process", "done", "unregister", "unjoined", "finished"}

ThreadStates == [pc : ThreadPcs, saved : Sessions, joins : Captures \cup {NoCapture},
                 stop : BOOLEAN, observed : BOOLEAN]

\* The variables have their types.
TypeOK ==
    /\ mediaPlaybackActive \in BOOLEAN /\ registered \in BOOLEAN /\ bridgeSet \in BOOLEAN
    /\ session \in Sessions
    /\ captureThread \in Captures \cup {NoCapture}
    /\ thread \in [Threads -> ThreadStates]
    /\ device \in {"mic", "custom", "closed"} /\ input \in Inputs
    /\ CallTypeOK

Owners(c) == {t \in Threads : thread[t].joins = c}

\* Every capture thread is in the hands of exactly one owner, the field or a
\* thread that joins it: none is joined twice, none is destroyed while it runs.
CaptureOwnedOnce ==
    \A c \in Captures :
        /\ thread[c].pc = "off" <=> captureThread # c /\ Owners(c) = {}
        /\ \A t, u \in Owners(c) : t = u
        /\ captureThread = c => Owners(c) = {}

\* While playback is active there is a session to restore and a capture thread
\* that feeds it and was not asked to stop, so that the swap always ends.
ActiveHasFeeder ==
    mediaPlaybackActive =>
        /\ session.open
        /\ captureThread # NoCapture \/ thread["shutdown"].pc = "unjoined"
        /\ captureThread # NoCapture =>
              /\ thread[captureThread].pc \in {"loop", "fill", "process", "lock"}
              /\ ~thread[captureThread].stop

\* What thread t is blocked on: the capture thread it joins, or the thread that
\* holds the mutex t needs next.
NeedsMutex(t) ==
    \/ thread[t].pc \in {"check", "register", "commit", "lock", "restore error", "unregister"}
    \/ thread[t].pc = "loop" /\ ~thread[t].stop
    \/ t \in Callers /\ thread[t].pc = "idle" /\ call[t] = "activate"

BlockedOn(t) ==
    {u \in Threads :
        \/ thread[t].joins = u /\ thread[t].pc \in {"stale", "assign", "join", "unjoined"}
        \/ thread[u].pc = "assign" /\ NeedsMutex(t)}

\* The threads that join each other, the capture thread among them, never wait
\* in a circle: mutex_ is not held by a thread that joins one that needs it.  The
\* exception is a capture thread about to report a failed restore, see
\* ActivationReturns.
NoCircularWait ==
    LET failing == {c \in Captures : thread[c].pc = "restore error"}
        waiting == {t \in Threads \ failing : BlockedOn(t) # {}}
    IN  \A circle \in SUBSET waiting : circle # {} => \E t \in circle : BlockedOn(t) \cap circle = {}

\* Every control call returns.
ControlReturns ==
    \A t \in Callers : call[t] \in Requests ~> call[t] \notin Requests

\* docs/media-bridge.md: playback.started is sent after a valid playback.start.
\* An activation is answered.
ActivationReturns == (call["reader"] = "activate") ~> (call["reader"] # "activate")
================================================================================
