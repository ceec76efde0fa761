------------------------- MODULE PluginPlayback_proofs -------------------------
(* Proofs about the host's half of playback, for any callers and any number of *)
(* capture threads, with every call into TeamSpeak failing at will.            *)
EXTENDS PluginPlayback, TLAPS

USE DEF Threads, HostThreads

-----------------------------------------------------------------------------
(* Types                                                                   *)

\* A thread at rest is a thread.
LEMMA IdleType == \A pc \in ThreadPcs : Idle(pc) \in ThreadStates
BY DEF Idle, ThreadStates, NoSession, Sessions, Inputs

\* There is a session, an open one even: lemmas about sessions are about something.
LEMMA SessionTypes ==
    /\ NoSession \in Sessions /\ ~NoSession.open
    /\ \A saved \in Sessions : saved.open \in BOOLEAN /\ saved.known \in BOOLEAN /\ saved.input \in Inputs
BY DEF NoSession, Sessions, Inputs

\* A thread that goes to another pc stays a thread.
LEMMA GoesType ==
    ASSUME TypeOK, NEW t \in Threads, NEW pc \in ThreadPcs, Goes(t, pc)
    PROVE  thread' \in [Threads -> ThreadStates]
BY DEF TypeOK, Goes, ThreadStates

\* So does one that takes a session to end, or a capture thread to join.
LEMMA SavesType ==
    ASSUME NEW th \in [Threads -> ThreadStates], NEW t \in Threads, NEW pc \in ThreadPcs,
           NEW saved \in Sessions
    PROVE  [th EXCEPT ![t].pc = pc, ![t].saved = saved] \in [Threads -> ThreadStates]
BY DEF ThreadStates

LEMMA TakesType ==
    ASSUME NEW th \in [Threads -> ThreadStates], NEW t \in Threads, NEW pc \in ThreadPcs,
           NEW c \in Captures \cup {NoCapture}
    PROVE  [th EXCEPT ![t].pc = pc, ![t].joins = c] \in [Threads -> ThreadStates]
BY DEF ThreadStates

\* So does one that is asked to stop.
LEMMA StopsType ==
    ASSUME NEW th \in [Threads -> ThreadStates], NEW t \in Threads
    PROVE  [th EXCEPT ![t].stop = TRUE] \in [Threads -> ThreadStates]
BY DEF ThreadStates

\* A thread that takes a session to end, and what the field has unless that is itself.
LEMMA TakesShape ==
    ASSUME TypeOK, NEW t \in Threads
    PROVE  /\ Takes(t) \in [Threads -> ThreadStates]
           /\ Takes(t)[t].pc = "join" /\ Takes(t)[t].saved = session
           /\ Takes(t)[t].joins = IF captureThread = t THEN NoCapture ELSE captureThread
           /\ \A x \in Threads \ {t} : Takes(t)[x] = thread[x]
<1>1. thread \in [Threads -> ThreadStates] /\ session \in Sessions
      /\ captureThread \in Captures \cup {NoCapture} /\ "join" \in ThreadPcs
  BY DEF TypeOK, ThreadPcs
<1> DEFINE r == [thread[t] EXCEPT !.pc = "join", !.saved = session,
                    !.joins = IF captureThread = t THEN NoCapture ELSE captureThread]
<1>2. /\ r \in ThreadStates /\ r.pc = "join" /\ r.saved = session
      /\ r.joins = IF captureThread = t THEN NoCapture ELSE captureThread
  BY <1>1 DEF ThreadStates
<1>3. Takes(t) = [thread EXCEPT ![t] = r]
  BY <1>1 DEF Takes
<1> HIDE DEF r
<1> QED BY <1>1, <1>2, <1>3

\* A capture thread that has asked for a tick changes no more than its pc and whether
\* it has seen one.
LEMMA FillsShape ==
    ASSUME TypeOK, NEW c \in Captures, NEW filled \in BOOLEAN, CaptureFills(c, filled)
    PROVE  /\ thread' \in [Threads -> ThreadStates]
           /\ thread'[c].pc = AfterFill(c, filled) /\ thread'[c].joins = thread[c].joins
           /\ thread'[c].stop = thread[c].stop /\ thread'[c].saved = thread[c].saved
           /\ \A x \in Threads \ {c} : thread'[x] = thread[x]
<1> DEFINE r == [thread[c] EXCEPT !.pc = AfterFill(c, filled), !.observed = @ \/ filled]
<1>1. thread \in [Threads -> ThreadStates] /\ AfterFill(c, filled) \in ThreadPcs
  BY DEF TypeOK, AfterFill, ThreadPcs
<1>2. /\ r \in ThreadStates /\ r.pc = AfterFill(c, filled)
      /\ r.joins = thread[c].joins /\ r.stop = thread[c].stop /\ r.saved = thread[c].saved
  BY <1>1 DEF ThreadStates
<1>3. thread' = [thread EXCEPT ![c] = r]
  BY <1>1 DEF CaptureFills
<1> HIDE DEF r
<1> QED BY <1>1, <1>2, <1>3

\* So do a thread that has joined another and the one it joined.
LEMMA AfterJoinType ==
    ASSUME TypeOK, NEW t \in Threads, NEW pc \in ThreadPcs
    PROVE  AfterJoin(thread, t, pc) \in [Threads -> ThreadStates]
<1>1. Idle("off") \in ThreadStates
  BY IdleType DEF ThreadPcs
<1> QED BY <1>1 DEF TypeOK, AfterJoin, ThreadStates

\* A thread that returns is back where it belongs, and its caller has its answer.
LEMMA EndsType ==
    ASSUME CallTypeOK, NEW th \in [Threads -> ThreadStates], NEW t \in Threads,
           NEW result \in Results, Ends(th, t, result)
    PROVE  thread' \in [Threads -> ThreadStates] /\ CallTypeOK'
<1>1. \A pc \in {"done", "unregister", "finished", "idle"} : Idle(pc) \in ThreadStates
  BY IdleType DEF ThreadPcs
<1>2. thread' \in [Threads -> ThreadStates]
  BY <1>1 DEF Ends
<1>3. CallTypeOK'
  BY DEF Ends, Answer, CallTypeOK, CallStates
<1> QED BY <1>2, <1>3

\* The host that nobody has called yet is well typed.
LEMMA TypeInit == Init => TypeOK
<1> SUFFICES ASSUME Init PROVE TypeOK
  OBVIOUS
<1>1. \A pc \in {"off", "idle"} : Idle(pc) \in ThreadStates
  BY IdleType DEF ThreadPcs
<1>2. thread \in [Threads -> ThreadStates]
  BY <1>1 DEF Init
<1> QED BY <1>2 DEF Init, TypeOK, NoSession, Sessions, Inputs, CallInit, CallTypeOK, CallStates

\* An activation keeps the types.
LEMMA ActivatingType ==
    ASSUME TypeOK, NEW t \in Callers, Activating(t)
    PROVE  TypeOK'
<1> USE DEF TypeOK
<1>0. /\ "stale" \in ThreadPcs /\ "check" \in ThreadPcs /\ "register" \in ThreadPcs
      /\ "snapshot" \in ThreadPcs /\ "close" \in ThreadPcs /\ "open" \in ThreadPcs
      /\ "flags" \in ThreadPcs /\ "commit" \in ThreadPcs /\ "assign" \in ThreadPcs
      /\ "restore close" \in ThreadPcs /\ "idle" \in ThreadPcs
  BY DEF ThreadPcs
<1>1. CASE ActivateBegin(t)
  <2>1. CASE mediaPlaybackActive
    BY <1>0, <1>1, <2>1, GoesType DEF ActivateBegin, CallTypeOK
  <2>2. CASE ~mediaPlaybackActive
    <3>1. thread' \in [Threads -> ThreadStates]
      <4>1. thread' = [thread EXCEPT ![t].pc = "stale", ![t].joins = captureThread]
        BY <1>1, <2>2 DEF ActivateBegin
      <4>2. "stale" \in ThreadPcs /\ captureThread \in Captures \cup {NoCapture}
        BY <1>0 DEF TypeOK
      <4> QED BY <1>0, <4>1, <4>2, TakesType
    <3> QED BY <1>1, <2>2, <3>1 DEF ActivateBegin, CallTypeOK
  <2> QED BY <2>1, <2>2
<1>2. CASE ActivateJoined(t)
  BY <1>0, <1>2, AfterJoinType DEF ActivateJoined, CallTypeOK
<1>3. CASE ActivateCheck(t)
  BY <1>0, <1>3, GoesType, EndsType DEF ActivateCheck, Returns, Results, CallTypeOK
<1>4. CASE ensure_custom_capture_device_registered(t)
  BY <1>0, <1>4, GoesType, EndsType
  DEF ensure_custom_capture_device_registered, Returns, Results, CallTypeOK
<1>5. CASE snapshot_media_playback_session(t)
  <2>1. [open |-> TRUE, known |-> device = "mic", input |-> input] \in Sessions
    BY DEF Sessions
  <2>2. thread' \in [Threads -> ThreadStates]
    BY <1>0, <1>5, <2>1, SavesType DEF snapshot_media_playback_session
  <2> QED BY <1>5, <2>2 DEF snapshot_media_playback_session, CallTypeOK
<1>6. CASE CustomClose(t)
  BY <1>0, <1>6, GoesType DEF CustomClose, CallTypeOK
<1>7. CASE CustomOpen(t)
  BY <1>0, <1>7, GoesType DEF CustomOpen, CallTypeOK
<1>8. CASE CustomFlags(t)
  BY <1>0, <1>8, GoesType DEF CustomFlags, Inputs, CallTypeOK
<1>9. CASE ActivateCommit(t)
  <2>1. PICK c \in Captures :
            /\ thread[c].pc = "off" /\ captureThread' = c
            /\ \/ /\ captureThread = NoCapture
                  /\ Ends([thread EXCEPT ![c] = Idle("loop")], t, "ok")
               \/ /\ captureThread # NoCapture
                  /\ thread' = [thread EXCEPT ![c] = Idle("loop"), ![captureThread].stop = TRUE,
                                              ![t].pc = "assign", ![t].joins = captureThread]
                  /\ UNCHANGED call
    BY <1>9 DEF ActivateCommit
  <2>2. Idle("loop") \in ThreadStates
    BY IdleType DEF ThreadPcs
  <2>3. thread' \in [Threads -> ThreadStates] /\ CallTypeOK'
    <3>1. CASE captureThread = NoCapture
      BY <2>1, <2>2, <3>1, EndsType DEF Results
    <3>2. CASE captureThread # NoCapture
      <4> DEFINE th == [thread EXCEPT ![c] = Idle("loop")]
                 stopped == [th EXCEPT ![captureThread].stop = TRUE]
      <4>1. th \in [Threads -> ThreadStates]
        BY <2>2
      <4>2. stopped \in [Threads -> ThreadStates]
        <5> HIDE DEF th
        <5>1. captureThread \in Threads
          BY <3>2
        <5> QED BY <4>1, <5>1, StopsType
      <4>3. thread' = [stopped EXCEPT ![t].pc = "assign", ![t].joins = captureThread]
        BY <2>1, <3>2
      <4>4. thread' \in [Threads -> ThreadStates]
        <5> HIDE DEF stopped
        <5> QED BY <1>0, <4>2, <4>3, TakesType
      <4> QED BY <2>1, <3>2, <4>4 DEF CallTypeOK
    <3> QED BY <3>1, <3>2
  <2> QED BY <1>9, <2>1, <2>3 DEF ActivateCommit, ThreadStates
<1>10. CASE ActivateAssigned(t)
  BY <1>0, <1>10, AfterJoinType, EndsType DEF ActivateAssigned, Results
<1> QED BY <1>1, <1>2, <1>3, <1>4, <1>5, <1>6, <1>7, <1>8, <1>9, <1>10 DEF Activating

\* The end of a session keeps the types.
LEMMA DeactivatingType ==
    ASSUME TypeOK, NEW t \in Threads, Deactivating(t)
    PROVE  TypeOK'
<1> USE DEF TypeOK
<1>0. /\ "join" \in ThreadPcs /\ "restore close" \in ThreadPcs /\ "restore open" \in ThreadPcs
      /\ "restore flags" \in ThreadPcs /\ "restore error" \in ThreadPcs /\ "idle" \in ThreadPcs
  BY DEF ThreadPcs
<1>1. CASE DeactivateLock(t)
  <2>1. session' \in Sessions /\ mediaPlaybackActive' \in BOOLEAN
        /\ captureThread' \in Captures \cup {NoCapture}
    BY <1>1, SessionTypes DEF DeactivateLock
  <2>2. thread' \in [Threads -> ThreadStates] /\ CallTypeOK'
    <3>1. CASE ~mediaPlaybackActive /\ captureThread = NoCapture /\ Returns(t, "ok")
      BY <3>1, EndsType DEF Returns, Results
    <3>2. CASE /\ thread' = [x \in Threads |-> [Takes(t)[x] EXCEPT !.stop = @ \/ x = captureThread]]
               /\ UNCHANGED call
      <4>1. Takes(t) \in [Threads -> ThreadStates]
        BY TakesShape
      <4>2. thread' \in [Threads -> ThreadStates]
        <5> DEFINE th == Takes(t)
        <5>1. th \in [Threads -> ThreadStates] /\ thread' = [x \in Threads |-> [th[x] EXCEPT !.stop = @ \/ x = captureThread]]
          BY <3>2, <4>1
        <5> HIDE DEF th
        <5> QED BY <5>1 DEF ThreadStates
      <4> QED BY <3>2, <4>2 DEF CallTypeOK
    <3> QED BY <1>1, <3>1, <3>2 DEF DeactivateLock
  <2> QED BY <1>1, <2>1, <2>2 DEF DeactivateLock
<1>2. CASE DeactivateJoined(t)
  <2>1. CASE thread[t].saved.open
    BY <1>0, <1>2, <2>1, AfterJoinType DEF DeactivateJoined, CallTypeOK
  <2>2. CASE ~thread[t].saved.open
    <3>1. AfterJoin(thread, t, "idle") \in [Threads -> ThreadStates]
      BY <1>0, AfterJoinType
    <3>2. Ends(AfterJoin(thread, t, "idle"), t, "ok")
      BY <1>2, <2>2 DEF DeactivateJoined
    <3> QED BY <1>2, <3>1, <3>2, EndsType DEF DeactivateJoined, Results
  <2> QED BY <2>1, <2>2
<1>3. CASE RestoreClose(t)
  BY <1>0, <1>3, GoesType DEF RestoreClose, CallTypeOK
<1>4. CASE RestoreOpen(t)
  BY <1>0, <1>4, GoesType DEF RestoreOpen, CallTypeOK
<1>5. CASE RestoreFlags(t)
  <2>1. thread[t].saved.input \in Inputs
    BY SessionTypes DEF ThreadStates
  <2>2. CASE Goes(t, "restore error") /\ UNCHANGED <<input, call>>
    BY <1>0, <1>5, <2>2, GoesType DEF RestoreFlags, CallTypeOK
  <2>3. CASE /\ input' = thread[t].saved.input
             /\ Returns(t, IF t \in Callers /\ call[t] = "activate" THEN "failed" ELSE "ok")
    <3>1. \E result \in Results : Ends(thread, t, result)
      BY <2>3 DEF Returns, Results
    <3> QED BY <1>5, <2>1, <2>3, <3>1, EndsType DEF RestoreFlags
  <2> QED BY <1>5, <2>2, <2>3 DEF RestoreFlags
<1>6. CASE RestoreError(t)
  BY <1>6, EndsType DEF RestoreError, Returns, Results
<1> QED BY <1>1, <1>2, <1>3, <1>4, <1>5, <1>6 DEF Deactivating

\* A capture thread keeps the types.
LEMMA CapturingType ==
    ASSUME TypeOK, NEW c \in Captures,
           CaptureLoop(c) \/ CaptureProcess(c) \/ \E filled \in BOOLEAN : CaptureFills(c, filled)
    PROVE  TypeOK'
<1> USE DEF TypeOK
<1>0. /\ "loop" \in ThreadPcs /\ "fill" \in ThreadPcs /\ "process" \in ThreadPcs
      /\ "lock" \in ThreadPcs /\ "done" \in ThreadPcs
  BY DEF ThreadPcs
<1>1. \A filled \in BOOLEAN : AfterFill(c, filled) \in ThreadPcs
  BY <1>0 DEF AfterFill
<1>2. CASE CaptureLoop(c)
  <2>1. \E pc \in ThreadPcs : Goes(c, pc)
    BY <1>0, <1>1, <1>2 DEF CaptureLoop
  <2> QED BY <1>2, <2>1, GoesType DEF CaptureLoop, CallTypeOK
<1>3. CASE CaptureProcess(c)
  BY <1>0, <1>3, GoesType DEF CaptureProcess, CallTypeOK
<1>4. ASSUME NEW filled \in BOOLEAN, CaptureFills(c, filled) PROVE TypeOK'
  <2>1. thread' \in [Threads -> ThreadStates]
    BY <1>4, FillsShape
  <2> QED BY <1>4, <2>1 DEF CaptureFills, CallTypeOK
<1> QED BY <1>2, <1>3, <1>4

\* The callback thread and shutdown keep the types.
LEMMA EndingType ==
    ASSUME TypeOK, Disconnected \/ ShutdownBegin \/ ShutdownUnregister \/ ShutdownJoined
    PROVE  TypeOK'
<1> USE DEF TypeOK
<1>0. "lock" \in ThreadPcs /\ "unjoined" \in ThreadPcs /\ "finished" \in ThreadPcs
  BY DEF ThreadPcs
<1>1. CASE Disconnected
  BY <1>0, <1>1, GoesType DEF Disconnected, CallTypeOK
<1>2. CASE ShutdownBegin
  BY <1>0, <1>2, GoesType DEF ShutdownBegin, CallTypeOK
<1>3. CASE ShutdownUnregister
  BY <1>0, <1>3, TakesType DEF ShutdownUnregister, CallTypeOK
<1>4. CASE ShutdownJoined
  BY <1>0, <1>4, AfterJoinType DEF ShutdownJoined, CallTypeOK
<1> QED BY <1>1, <1>2, <1>3, <1>4

\* A thread of the bridge that calls, or looks at its answer, keeps the types.
LEMMA BridgeCallsType ==
    ASSUME TypeOK, NEW t \in Callers, BridgeCalls(t)
    PROVE  TypeOK'
BY DEF TypeOK, BridgeCalls, hostVars, Invoke, Consume, CallTypeOK, CallStates, Requests, Results

\* Every step keeps the types.
LEMMA TypeStep == TypeOK /\ [Next]_playbackVars => TypeOK'
<1> SUFFICES ASSUME TypeOK, [Next]_playbackVars PROVE TypeOK'
  OBVIOUS
<1>1. CASE UNCHANGED playbackVars
  BY <1>1 DEF playbackVars, hostVars, TypeOK, CallTypeOK
<1>2. CASE Next
  <2>1. ASSUME NEW t \in Callers, Activating(t) PROVE TypeOK'
    BY <2>1, ActivatingType
  <2>2. ASSUME NEW t \in Callers, DeactivateBegin(t) PROVE TypeOK'
    <3>1. "lock" \in ThreadPcs
      BY DEF ThreadPcs
    <3> QED BY <2>2, <3>1, GoesType DEF DeactivateBegin, TypeOK, CallTypeOK
  <2>3. ASSUME NEW t \in Threads, Deactivating(t) PROVE TypeOK'
    BY <2>3, DeactivatingType
  <2>4. ASSUME NEW t \in Callers, BridgeCalls(t) PROVE TypeOK'
    BY <2>4, BridgeCallsType
  <2> QED BY <1>2, <2>1, <2>2, <2>3, <2>4, CapturingType, EndingType DEF Next, HostNext, BridgeFills
<1> QED BY <1>1, <1>2

\* The variables always have their types (sdk/plugin_host_backend.cpp, the
\* media_playback_* members and the threads that use them).
THEOREM PlaybackTypeCorrect == Spec => []TypeOK
BY TypeInit, TypeStep, PTL DEF Spec

-----------------------------------------------------------------------------
(* The inductive invariant                                                 *)

CapturePcs == {"off", "loop", "fill", "process", "lock", "join", "restore close", "restore open",
               "restore flags", "restore error", "done"}
ActivationPcs == {"stale", "check", "register", "snapshot", "close", "open", "flags", "commit",
                  "assign"}
SwapPcs == {"register", "snapshot", "close", "open", "flags", "commit"}
JoiningPcs == {"stale", "assign", "join", "unjoined"}

\* A capture thread that feeds its session, and one that is past the end of it.
FeedingPcs == {"loop", "fill", "process", "lock"}
EndedPcs == {"join", "restore close", "restore open", "restore flags", "restore error", "done"}

\* What the pc of thread t, at r, says of it: who it is, and what it may hold.
Placed(t, r) ==
    /\ t \in Captures => r.pc \in CapturePcs
    /\ t \notin Captures => r.pc \notin {"off", "loop", "fill", "process", "done"}
    /\ r.pc \in ActivationPcs => t = "reader"
    /\ r.pc \in {"unregister", "unjoined", "finished"} => t = "shutdown"
    /\ r.joins # NoCapture => r.pc \in JoiningPcs
    /\ r.pc \in {"close", "open", "flags", "commit"} => r.saved.open

\* Only the reader activates, and it swaps the device while no session is on.
PlacedInv ==
    /\ \A t \in Threads : Placed(t, thread[t])
    /\ \A t \in Callers : call[t] = "activate" => t = "reader"
    /\ thread["reader"].pc \in SwapPcs => ~mediaPlaybackActive

\* A capture thread is off unless the field or one thread that joins it has it;
\* the one in the field joins none, and nowhere do threads join in a circle.
OwnershipInv ==
    /\ \A c \in Captures :
        thread[c].pc = "off" <=> captureThread # c /\ \A t \in Threads : thread[t].joins # c
    /\ \A t, u \in Threads : thread[t].joins = thread[u].joins => t = u \/ thread[t].joins = NoCapture
    /\ captureThread # NoCapture => \A t \in Threads : thread[t].joins # captureThread
    /\ captureThread # NoCapture => thread[captureThread].joins = NoCapture
    /\ \A S \in SUBSET Threads : S # {} => \E t \in S : thread[t].joins \notin S

Feeds(c) == thread[c].pc \in FeedingPcs /\ ~thread[c].stop
Ended(c) == thread[c].pc \in EndedPcs /\ thread[c].joins = NoCapture

\* The capture thread of a session that is on feeds it, in the field or, once the
\* host is shut down, in the hands of shutdown; what the field has of a session that
\* is over, and what an assignment joins under the mutex, is past the end of it.
FeederInv ==
    /\ mediaPlaybackActive =>
        /\ session.open
        /\ \E c \in Captures :
            /\ Feeds(c)
            /\ \/ captureThread = c
               \/ /\ captureThread = NoCapture
                  /\ thread["shutdown"].pc = "unjoined" /\ thread["shutdown"].joins = c
    /\ ~mediaPlaybackActive /\ captureThread # NoCapture => Ended(captureThread)
    /\ \A t \in Threads : thread[t].pc = "assign" =>
            thread[t].joins \in Captures /\ Ended(thread[t].joins)

PlaybackInv == TypeOK /\ PlacedInv /\ OwnershipInv /\ FeederInv

\* Before anybody calls, every capture thread is off and nobody holds anything.
LEMMA InvInit == Init => PlaybackInv
<1> SUFFICES ASSUME Init PROVE PlaybackInv
  OBVIOUS
<1>1. \A t \in Threads :
        /\ thread[t].pc = (IF t \in Captures THEN "off" ELSE "idle")
        /\ thread[t].joins = NoCapture
  BY DEF Init, Idle
<1>2. PlacedInv
  BY <1>1, PlaybackAssumption, PlaybackCallers
  DEF Init, CallInit, PlacedInv, Placed, CapturePcs, ActivationPcs, SwapPcs
<1>3. OwnershipInv
  <2>1. ASSUME NEW S \in SUBSET Threads, S # {} PROVE \E t \in S : thread[t].joins \notin S
    <3>1. PICK t \in S : TRUE
      BY <2>1
    <3> QED BY <1>1, <3>1, PlaybackAssumption
  <2>2. captureThread = NoCapture /\ NoCapture \notin Captures
    BY PlaybackAssumption DEF Init
  <2> QED BY <1>1, <2>1, <2>2 DEF OwnershipInv
<1>4. FeederInv
  BY <1>1, PlaybackAssumption DEF Init, FeederInv
<1> QED BY <1>2, <1>3, <1>4, TypeInit DEF PlaybackInv

\* What Goes leaves alone, what it changes.
LEMMA GoesShape ==
    ASSUME TypeOK, NEW t \in Threads, NEW pc \in ThreadPcs, Goes(t, pc)
    PROVE  /\ thread'[t].pc = pc /\ thread'[t].joins = thread[t].joins
           /\ thread'[t].saved = thread[t].saved /\ thread'[t].stop = thread[t].stop
           /\ \A x \in Threads \ {t} : thread'[x] = thread[x]
BY DEF TypeOK, Goes, ThreadStates

\* A thread that returns holds nothing any more and goes where its kind goes.
LEMMA EndsShape ==
    ASSUME CallTypeOK, NEW th \in [Threads -> ThreadStates], NEW t \in Threads,
           NEW result \in Results, Ends(th, t, result)
    PROVE  /\ thread'[t].joins = NoCapture
           /\ t \in Captures => thread'[t].pc = "done"
           /\ t = "shutdown" => thread'[t].pc \in {"unregister", "finished"}
           /\ t \notin Captures \cup {"shutdown"} => thread'[t].pc = "idle"
           /\ \A x \in Threads \ {t} : thread'[x] = th[x]
           /\ \A u \in Callers : call'[u] = call[u] \/ call'[u] = result
<1>1. thread'[t] = Idle(CASE t \in Captures -> "done"
                          [] t = "shutdown" -> IF result = "ok" THEN "unregister" ELSE "finished"
                          [] OTHER -> "idle")
  BY DEF Ends
<1>2. \A x \in Threads \ {t} : thread'[x] = th[x]
  BY DEF Ends
<1>3. \A u \in Callers : call'[u] = call[u] \/ call'[u] = result
  BY DEF Ends, Answer, CallTypeOK
<1> QED BY <1>1, <1>2, <1>3, PlaybackAssumption DEF Idle

\* A thread that has joined another holds nothing any more, and the other is off.
LEMMA AfterJoinShape ==
    ASSUME TypeOK, NEW t \in Threads, NEW pc \in ThreadPcs, thread[t].joins # t
    PROVE  /\ AfterJoin(thread, t, pc) \in [Threads -> ThreadStates]
           /\ AfterJoin(thread, t, pc)[t].pc = pc /\ AfterJoin(thread, t, pc)[t].joins = NoCapture
           /\ AfterJoin(thread, t, pc)[t].saved = thread[t].saved
           /\ \A x \in Threads \ {t} :
                AfterJoin(thread, t, pc)[x] =
                    IF x = thread[t].joins THEN Idle("off") ELSE thread[x]
<1> DEFINE r == [thread[t] EXCEPT !.pc = pc, !.joins = NoCapture]
<1>1. thread[t] \in ThreadStates
  BY DEF TypeOK
<1>2. r.pc = pc /\ r.joins = NoCapture /\ r.saved = thread[t].saved
  BY <1>1 DEF ThreadStates
<1>3. AfterJoin(thread, t, pc) = [x \in Threads |-> IF x = t THEN r
                                    ELSE IF x = thread[t].joins THEN Idle("off") ELSE thread[x]]
  BY DEF AfterJoin
<1> HIDE DEF r
<1> QED BY <1>2, <1>3, AfterJoinType

-----------------------------------------------------------------------------
(* PlacedInv                                                               *)

\* A thread that is off, and one that has just become a capture thread or is at
\* rest, is where it belongs.
LEMMA IdlePlaced ==
    /\ \A c \in Captures : Placed(c, Idle("off")) /\ Placed(c, Idle("loop")) /\ Placed(c, Idle("done"))
    /\ \A t \in HostThreads : Placed(t, Idle("idle"))
    /\ Placed("shutdown", Idle("unregister")) /\ Placed("shutdown", Idle("finished"))
BY PlaybackAssumption, PlaybackCallers
DEF Placed, Idle, CapturePcs, ActivationPcs, JoiningPcs

\* So is everyone else when a thread has joined another.
LEMMA OthersPlaced ==
    ASSUME PlacedInv, NEW t \in Threads, thread[t].joins \in Captures \cup {NoCapture}, NEW th,
           \A x \in Threads \ {t} : th[x] = IF x = thread[t].joins THEN Idle("off") ELSE thread[x]
    PROVE  \A x \in Threads \ {t} : Placed(x, th[x])
<1> SUFFICES ASSUME NEW x \in Threads \ {t} PROVE Placed(x, th[x])
  OBVIOUS
<1>1. CASE x = thread[t].joins
  BY <1>1, IdlePlaced, PlaybackAssumption
<1>2. CASE x # thread[t].joins
  BY <1>2 DEF PlacedInv
<1> QED BY <1>1, <1>2

\* A thread that returns is where it belongs, and answers are no requests.
LEMMA EndsPlaced ==
    ASSUME CallTypeOK, NEW th \in [Threads -> ThreadStates], NEW t \in Threads,
           NEW result \in Results, Ends(th, t, result),
           \A x \in Threads \ {t} : Placed(x, th[x]),
           \A u \in Callers : call[u] = "activate" => u = "reader"
    PROVE  /\ \A x \in Threads : Placed(x, thread'[x])
           /\ \A u \in Callers : call'[u] = "activate" => u = "reader"
           /\ thread'[t].pc \notin SwapPcs
<1>1. thread'[t] = Idle(CASE t \in Captures -> "done"
                          [] t = "shutdown" -> IF result = "ok" THEN "unregister" ELSE "finished"
                          [] OTHER -> "idle")
  BY DEF Ends
<1>2. Placed(t, thread'[t])
  BY <1>1, IdlePlaced, PlaybackAssumption
<1>3. \A x \in Threads \ {t} : thread'[x] = th[x]
  BY EndsShape
<1>4. \A u \in Callers : call'[u] = call[u] \/ call'[u] = result
  BY EndsShape
<1>5. thread'[t].pc \in {"done", "unregister", "finished", "idle"}
  BY <1>1 DEF Idle
<1> QED BY <1>2, <1>3, <1>4, <1>5 DEF Results, SwapPcs

\* A thread that returns keeps PlacedInv.
LEMMA EndsKeepsPlaced ==
    ASSUME TypeOK, PlacedInv, NEW t \in Threads, NEW result \in Results, Ends(thread, t, result),
           UNCHANGED mediaPlaybackActive
    PROVE  PlacedInv'
<1>1. thread \in [Threads -> ThreadStates] /\ CallTypeOK /\ \A x \in Threads : Placed(x, thread[x])
      /\ \A u \in Callers : call[u] = "activate" => u = "reader"
  BY DEF TypeOK, PlacedInv
<1>2. /\ \A x \in Threads : Placed(x, thread'[x])
      /\ \A u \in Callers : call'[u] = "activate" => u = "reader"
      /\ thread'[t].pc \notin SwapPcs
      /\ \A x \in Threads \ {t} : thread'[x] = thread[x]
  BY <1>1, EndsPlaced, EndsShape
<1> QED BY <1>2, PlaybackCallers DEF PlacedInv

\* Where a thread may go that holds no thread to join.
MayGo(t, r, pc) ==
    \/ t = "reader" /\ pc \in ActivationPcs
       /\ (pc \in {"close", "open", "flags", "commit"} => r.saved.open)
    \/ pc \in {"lock", "restore close", "restore open", "restore flags", "restore error"}
    \/ t \in Captures /\ pc \in CapturePcs

\* Going there, it is where it belongs.
LEMMA MovePlaced ==
    ASSUME NEW t \in Threads, NEW r \in ThreadStates, NEW pc \in ThreadPcs,
           Placed(t, r), r.pc \notin JoiningPcs, MayGo(t, r, pc)
    PROVE  Placed(t, [r EXCEPT !.pc = pc])
<1> DEFINE q == [r EXCEPT !.pc = pc]
<1>1. q.pc = pc /\ q.joins = r.joins /\ q.saved = r.saved
  BY DEF ThreadStates
<1>2. q.joins = NoCapture
  BY <1>1 DEF Placed
<1> HIDE DEF q
<1>3. Placed(t, q)
  BY <1>1, <1>2, PlaybackAssumption, PlaybackCallers
  DEF Placed, MayGo, ActivationPcs, CapturePcs
<1> QED BY <1>3 DEF q

\* A thread that goes on keeps PlacedInv.
LEMMA GoesPlaced ==
    ASSUME TypeOK, PlacedInv, NEW t \in Threads, NEW pc \in ThreadPcs, Goes(t, pc),
           thread[t].pc \notin JoiningPcs, MayGo(t, thread[t], pc),
           UNCHANGED <<call, mediaPlaybackActive>>,
           pc \in SwapPcs => t = "reader" /\ ~mediaPlaybackActive
    PROVE  PlacedInv'
<1>1. thread'[t] = [thread[t] EXCEPT !.pc = pc] /\ \A x \in Threads \ {t} : thread'[x] = thread[x]
  BY DEF TypeOK, Goes
<1>2. Placed(t, thread'[t])
  BY <1>1, MovePlaced DEF TypeOK, PlacedInv
<1>3. thread'[t].pc = pc
  BY GoesShape
<1> QED BY <1>1, <1>2, <1>3, PlaybackCallers DEF PlacedInv

\* A thread never joins itself.
LEMMA JoinsAnother ==
    ASSUME OwnershipInv, NEW t \in Threads
    PROVE  thread[t].joins # t
<1>1. {t} \in SUBSET Threads /\ {t} # {}
  OBVIOUS
<1>2. \E u \in {t} : thread[u].joins \notin {t}
  BY <1>1 DEF OwnershipInv
<1> QED BY <1>2

\* An activation keeps every thread where it belongs.
LEMMA ActivatingPlaced ==
    ASSUME PlaybackInv, NEW t \in Callers, Activating(t)
    PROVE  PlacedInv'
<1> USE DEF PlaybackInv
<1>0. TypeOK /\ CallTypeOK /\ PlacedInv /\ thread[t].joins # t /\ t \in Threads /\ t \notin Captures
      /\ t # "shutdown" /\ thread \in [Threads -> ThreadStates]
  BY JoinsAnother, PlaybackAssumption DEF TypeOK
<1>1. /\ "stale" \in ThreadPcs /\ "check" \in ThreadPcs /\ "register" \in ThreadPcs
      /\ "snapshot" \in ThreadPcs /\ "close" \in ThreadPcs /\ "open" \in ThreadPcs
      /\ "flags" \in ThreadPcs /\ "commit" \in ThreadPcs /\ "assign" \in ThreadPcs
      /\ "restore close" \in ThreadPcs /\ "idle" \in ThreadPcs
  BY DEF ThreadPcs
<1>p. Placed(t, thread[t])
  BY <1>0 DEF PlacedInv
<1>2. CASE ActivateBegin(t)
  <2>1. t = "reader"
    BY <1>0, <1>2 DEF ActivateBegin, PlacedInv
  <2>2. thread[t].joins = NoCapture
    BY <1>2, <1>p DEF ActivateBegin, Placed, JoiningPcs
  <2>3. /\ thread'[t].pc = "stale" /\ \A x \in Threads \ {t} : thread'[x] = thread[x]
        /\ UNCHANGED <<mediaPlaybackActive, call>>
    <3>1. CASE thread' = [thread EXCEPT ![t].pc = "stale", ![t].joins = captureThread]
      BY <1>0, <1>2, <3>1 DEF ActivateBegin
    <3>2. CASE Goes(t, "stale")
      BY <1>0, <1>1, <1>2, <3>2, GoesShape DEF ActivateBegin
    <3> QED BY <1>2, <3>1, <3>2 DEF ActivateBegin
  <2>4. Placed(t, thread'[t])
    BY <1>0, <2>1, <2>3 DEF Placed, ActivationPcs, JoiningPcs
  <2> QED BY <1>0, <2>1, <2>3, <2>4 DEF PlacedInv, SwapPcs
<1>3. CASE ActivateJoined(t)
  <2> DEFINE th == AfterJoin(thread, t, "check")
  <2>1. t = "reader" /\ UNCHANGED <<mediaPlaybackActive, call>> /\ thread' = th
    BY <1>3, <1>p DEF ActivateJoined, Placed, ActivationPcs
  <2>2. /\ th[t].pc = "check" /\ th[t].joins = NoCapture
        /\ \A x \in Threads \ {t} : th[x] = IF x = thread[t].joins THEN Idle("off") ELSE thread[x]
    <3>1. TypeOK /\ t \in Threads /\ thread[t].joins # t
      BY <1>0
    <3>2. "check" \in ThreadPcs
      BY <1>1
    <3> HIDE DEF Threads, HostThreads
    <3> QED BY ONLY <3>1, <3>2, AfterJoinShape
  <2>3. thread[t].joins \in Captures \cup {NoCapture}
    BY <1>0 DEF ThreadStates
  <2> HIDE DEF th
  <2>4. \A x \in Threads \ {t} : Placed(x, th[x])
    BY <1>0, <2>2, <2>3, OthersPlaced
  <2>5. Placed(t, th[t])
    BY <1>0, <2>1, <2>2 DEF Placed, ActivationPcs
  <2> QED BY <1>0, <2>1, <2>2, <2>4, <2>5 DEF PlacedInv, SwapPcs
<1>4. CASE ActivateCheck(t)
  <2>1. CASE Returns(t, "failed") \/ Returns(t, "ok")
    <3>1. \E result \in Results : Ends(thread, t, result)
      BY <2>1 DEF Returns, Results
    <3> QED BY <1>0, <1>4, <3>1, EndsKeepsPlaced DEF ActivateCheck
  <2>2. CASE ~mediaPlaybackActive /\ Goes(t, "register") /\ UNCHANGED call
    BY <1>0, <1>1, <1>4, <1>p, <2>2, GoesPlaced
    DEF ActivateCheck, Placed, MayGo, ActivationPcs, JoiningPcs
  <2> QED BY <1>4, <2>1, <2>2 DEF ActivateCheck
<1>5. CASE ensure_custom_capture_device_registered(t)
  <2>1. CASE Returns(t, "failed")
    BY <1>0, <1>5, <2>1, EndsKeepsPlaced
    DEF ensure_custom_capture_device_registered, Returns, Results
  <2>2. CASE Goes(t, "snapshot") /\ UNCHANGED call
    <3>1. t = "reader" /\ ~mediaPlaybackActive
      BY <1>0, <1>5, <1>p
      DEF ensure_custom_capture_device_registered, Placed, PlacedInv, ActivationPcs, SwapPcs
    <3> QED BY <1>0, <1>1, <1>5, <2>2, <3>1, GoesPlaced
        DEF ensure_custom_capture_device_registered, MayGo, ActivationPcs, JoiningPcs
  <2> QED BY <1>5, <2>1, <2>2 DEF ensure_custom_capture_device_registered
<1>s. thread[t].pc \in SwapPcs => t = "reader" /\ ~mediaPlaybackActive
  BY <1>0, <1>p DEF Placed, PlacedInv, ActivationPcs, SwapPcs
<1>6. CASE snapshot_media_playback_session(t)
  <2>1. /\ thread'[t].pc = "close" /\ thread'[t].saved.open /\ thread'[t].joins = thread[t].joins
        /\ \A x \in Threads \ {t} : thread'[x] = thread[x]
        /\ UNCHANGED <<mediaPlaybackActive, call>> /\ thread[t].pc = "snapshot"
    BY <1>0, <1>6 DEF snapshot_media_playback_session, ThreadStates
  <2>2. t = "reader" /\ ~mediaPlaybackActive /\ thread[t].joins = NoCapture
    BY <1>s, <1>p, <2>1 DEF Placed, SwapPcs, JoiningPcs
  <2>3. Placed(t, thread'[t])
    BY <1>0, <2>1, <2>2 DEF Placed, ActivationPcs
  <2> QED BY <1>0, <2>1, <2>2, <2>3 DEF PlacedInv
<1>7. CASE CustomClose(t)
  <2>1. t = "reader" /\ ~mediaPlaybackActive /\ thread[t].saved.open
    BY <1>7, <1>s, <1>p DEF CustomClose, SwapPcs, Placed
  <2> QED BY <1>0, <1>1, <1>7, <2>1, GoesPlaced
      DEF CustomClose, MayGo, ActivationPcs, JoiningPcs
<1>8. CASE CustomOpen(t)
  <2>1. t = "reader" /\ ~mediaPlaybackActive /\ thread[t].saved.open
    BY <1>8, <1>s, <1>p DEF CustomOpen, SwapPcs, Placed
  <2> QED BY <1>0, <1>1, <1>8, <2>1, GoesPlaced
      DEF CustomOpen, MayGo, ActivationPcs, JoiningPcs
<1>9. CASE CustomFlags(t)
  <2>1. t = "reader" /\ ~mediaPlaybackActive /\ thread[t].saved.open
    BY <1>9, <1>s, <1>p DEF CustomFlags, SwapPcs, Placed
  <2> QED BY <1>0, <1>1, <1>9, <2>1, GoesPlaced
      DEF CustomFlags, MayGo, ActivationPcs, JoiningPcs
<1>10. CASE ActivateCommit(t)
  <2>1. PICK c \in Captures :
            /\ thread[c].pc = "off" /\ captureThread' = c
            /\ \/ /\ captureThread = NoCapture
                  /\ Ends([thread EXCEPT ![c] = Idle("loop")], t, "ok")
               \/ /\ captureThread # NoCapture
                  /\ thread' = [thread EXCEPT ![c] = Idle("loop"), ![captureThread].stop = TRUE,
                                              ![t].pc = "assign", ![t].joins = captureThread]
                  /\ UNCHANGED call
    BY <1>10 DEF ActivateCommit
  <2>2. t = "reader"
    BY <1>10, <1>p DEF ActivateCommit, Placed, ActivationPcs
  <2>3. CASE captureThread = NoCapture
    <3> DEFINE th == [thread EXCEPT ![c] = Idle("loop")]
    <3>1. th \in [Threads -> ThreadStates]
      BY <1>0, IdleType DEF ThreadPcs
    <3>2. \A x \in Threads \ {t} : Placed(x, th[x])
      BY <1>0, IdlePlaced DEF PlacedInv
    <3>3. Ends(th, t, "ok")
      BY <2>1, <2>3
    <3> HIDE DEF th
    <3> QED BY <1>0, <2>2, <3>1, <3>2, <3>3, EndsPlaced DEF Results, PlacedInv
  <2>4. CASE captureThread # NoCapture
    <3>1. captureThread \in Captures /\ captureThread # t /\ captureThread # c /\ c # t
      BY <1>0, <2>1, <2>4 DEF TypeOK, OwnershipInv
    <3>2. /\ thread'[t].pc = "assign"
          /\ thread'[c] = Idle("loop")
          /\ \A x \in Threads \ {t, c} :
                /\ thread'[x].pc = thread[x].pc /\ thread'[x].joins = thread[x].joins
                /\ thread'[x].saved = thread[x].saved
      BY <1>0, <2>1, <2>4, <3>1 DEF ThreadStates
    <3>3. Placed(t, thread'[t])
      BY <1>0, <2>2, <3>2 DEF Placed, ActivationPcs, JoiningPcs
    <3>4. \A x \in Threads \ {t} : Placed(x, thread'[x])
      BY <1>0, <3>2, IdlePlaced DEF PlacedInv, Placed
    <3> QED BY <1>0, <2>1, <2>2, <2>4, <3>2, <3>3, <3>4 DEF PlacedInv, SwapPcs
  <2> QED BY <2>3, <2>4
<1>11. CASE ActivateAssigned(t)
  <2> DEFINE th == AfterJoin(thread, t, "idle")
  <2>1. /\ th \in [Threads -> ThreadStates]
        /\ \A x \in Threads \ {t} : th[x] = IF x = thread[t].joins THEN Idle("off") ELSE thread[x]
    <3>1. TypeOK /\ t \in Threads /\ thread[t].joins # t
      BY <1>0
    <3>2. "idle" \in ThreadPcs
      BY <1>1
    <3> HIDE DEF Threads, HostThreads
    <3> QED BY ONLY <3>1, <3>2, AfterJoinShape
  <2>5. thread[t].joins \in Captures \cup {NoCapture}
    BY <1>0 DEF ThreadStates
  <2>2. \A x \in Threads \ {t} : Placed(x, th[x])
    BY <1>0, <2>1, <2>5, OthersPlaced
  <2>3. Ends(th, t, "ok")
    BY <1>11 DEF ActivateAssigned
  <2>4. t = "reader"
    BY <1>11, <1>p DEF ActivateAssigned, Placed, ActivationPcs
  <2> HIDE DEF th
  <2> QED BY <1>0, <2>1, <2>2, <2>3, <2>4, EndsPlaced DEF Results, PlacedInv
<1> QED BY <1>2, <1>3, <1>4, <1>5, <1>6, <1>7, <1>8, <1>9, <1>10, <1>11 DEF Activating

\* The end of a session keeps every thread where it belongs.
LEMMA DeactivatingPlaced ==
    ASSUME PlaybackInv, NEW t \in Threads, Deactivating(t)
    PROVE  PlacedInv'
<1> USE DEF PlaybackInv
<1>0. TypeOK /\ CallTypeOK /\ PlacedInv /\ Placed(t, thread[t]) /\ thread[t].joins # t
      /\ thread \in [Threads -> ThreadStates]
  BY JoinsAnother DEF TypeOK, PlacedInv
<1>1. /\ "lock" \in ThreadPcs /\ "join" \in ThreadPcs /\ "restore close" \in ThreadPcs
      /\ "restore open" \in ThreadPcs /\ "restore flags" \in ThreadPcs
      /\ "restore error" \in ThreadPcs /\ "idle" \in ThreadPcs
  BY DEF ThreadPcs
<1>2. CASE DeactivateLock(t)
  <2>1. CASE ~mediaPlaybackActive /\ Returns(t, "ok")
    <3>1. mediaPlaybackActive' = mediaPlaybackActive
      BY <1>0, <1>2, <2>1 DEF DeactivateLock, TypeOK
    <3> QED BY <1>0, <1>2, <2>1, <3>1, EndsKeepsPlaced DEF Returns, Results
  <2>2. CASE /\ thread' = [x \in Threads |-> [Takes(t)[x] EXCEPT !.stop = @ \/ x = captureThread]]
             /\ UNCHANGED call
    <3>1. /\ Takes(t)[t].pc = "join" /\ Takes(t)[t] \in ThreadStates
          /\ \A x \in Threads \ {t} : Takes(t)[x] = thread[x]
      BY <1>0, <1>1 DEF Takes, TypeOK, ThreadStates
    <3>2. /\ thread'[t].pc = "join"
          /\ \A x \in Threads \ {t} :
                /\ thread'[x].pc = thread[x].pc /\ thread'[x].joins = thread[x].joins
                /\ thread'[x].saved = thread[x].saved
      BY <1>0, <2>2, <3>1 DEF ThreadStates
    <3>3. Placed(t, thread'[t])
      BY <1>0, <1>2, <3>2
      DEF Placed, DeactivateLock, CapturePcs, ActivationPcs, JoiningPcs
    <3>4. \A x \in Threads \ {t} : Placed(x, thread'[x])
      BY <1>0, <3>2 DEF PlacedInv, Placed
    <3>5. ~mediaPlaybackActive' /\ UNCHANGED call
      BY <1>2, <2>2 DEF DeactivateLock
    <3>6. \A x \in Threads : Placed(x, thread'[x])
      BY <3>3, <3>4
    <3> QED BY ONLY <1>0, <3>5, <3>6 DEF PlacedInv
  <2> QED BY <1>2, <2>1, <2>2 DEF DeactivateLock
<1>3. CASE DeactivateJoined(t)
  <2>1. thread[t].joins \in Captures \cup {NoCapture} /\ UNCHANGED mediaPlaybackActive
    BY <1>0, <1>3 DEF ThreadStates, DeactivateJoined
  <2>2. CASE thread' = AfterJoin(thread, t, "restore close") /\ UNCHANGED call
    <3> DEFINE th == AfterJoin(thread, t, "restore close")
    <3>1. /\ th[t].pc = "restore close" /\ th[t].joins = NoCapture
          /\ \A x \in Threads \ {t} : th[x] = IF x = thread[t].joins THEN Idle("off") ELSE thread[x]
      <4>1. TypeOK /\ t \in Threads /\ thread[t].joins # t
        BY <1>0
      <4>2. "restore close" \in ThreadPcs
        BY <1>1
      <4> HIDE DEF Threads, HostThreads
      <4> QED BY ONLY <4>1, <4>2, AfterJoinShape
    <3>2. thread' = th
      BY <2>2
    <3> HIDE DEF th
    <3>3. \A x \in Threads \ {t} : Placed(x, th[x])
      BY <1>0, <2>1, <3>1, OthersPlaced
    <3>4. Placed(t, th[t])
      BY <1>0, <3>1 DEF Placed, CapturePcs, ActivationPcs
    <3>5. \A x \in Threads : thread'[x].pc \in SwapPcs => thread[x].pc \in SwapPcs
      <4>1. thread'[t].pc \notin SwapPcs
        BY <3>1, <3>2 DEF SwapPcs
      <4>2. Idle("off").pc \notin SwapPcs
        BY DEF Idle, SwapPcs
      <4>3. \A x \in Threads \ {t} : thread'[x] = Idle("off") \/ thread'[x] = thread[x]
        BY <3>1, <3>2
      <4> QED BY <4>1, <4>2, <4>3
    <3> QED BY <1>0, <2>1, <2>2, <3>2, <3>3, <3>4, <3>5, PlaybackCallers DEF PlacedInv
  <2>3. CASE Ends(AfterJoin(thread, t, "idle"), t, "ok")
    <3> DEFINE th == AfterJoin(thread, t, "idle")
    <3>1. /\ th \in [Threads -> ThreadStates]
          /\ \A x \in Threads \ {t} : th[x] = IF x = thread[t].joins THEN Idle("off") ELSE thread[x]
      <4>1. TypeOK /\ t \in Threads /\ thread[t].joins # t
        BY <1>0
      <4>2. "idle" \in ThreadPcs
        BY <1>1
      <4> HIDE DEF Threads, HostThreads
      <4> QED BY ONLY <4>1, <4>2, AfterJoinShape
    <3>2. Ends(th, t, "ok")
      BY <2>3
    <3> HIDE DEF th
    <3>3. \A x \in Threads \ {t} : Placed(x, th[x])
      BY <1>0, <2>1, <3>1, OthersPlaced
    <3>4. /\ \A x \in Threads : Placed(x, thread'[x])
          /\ \A u \in Callers : call'[u] = "activate" => u = "reader"
          /\ thread'[t].pc \notin SwapPcs
          /\ \A x \in Threads \ {t} : thread'[x] = th[x]
      BY <1>0, <3>1, <3>2, <3>3, EndsPlaced, EndsShape DEF PlacedInv, Results
    <3>5. \A x \in Threads : thread'[x].pc \in SwapPcs => thread[x].pc \in SwapPcs
      BY <2>1, <3>1, <3>4, PlaybackAssumption DEF SwapPcs, Idle
    <3> QED BY <1>0, <2>1, <3>4, <3>5, PlaybackCallers DEF PlacedInv
  <2> QED BY <1>3, <2>2, <2>3 DEF DeactivateJoined
<1>4. CASE RestoreClose(t)
  <2>1. \E pc \in {"restore open", "restore flags"} : Goes(t, pc)
    BY <1>4 DEF RestoreClose
  <2> QED BY <1>0, <1>1, <1>4, <2>1, GoesPlaced DEF RestoreClose, MayGo, JoiningPcs, SwapPcs
<1>5. CASE RestoreOpen(t)
  BY <1>0, <1>1, <1>5, GoesPlaced DEF RestoreOpen, MayGo, JoiningPcs, SwapPcs
<1>6. CASE RestoreFlags(t)
  <2>1. CASE Goes(t, "restore error") /\ UNCHANGED <<input, call>>
    BY <1>0, <1>1, <1>6, <2>1, GoesPlaced DEF RestoreFlags, MayGo, JoiningPcs, SwapPcs
  <2>2. CASE Returns(t, IF t \in Callers /\ call[t] = "activate" THEN "failed" ELSE "ok")
    <3>1. \E result \in Results : Ends(thread, t, result)
      BY <2>2 DEF Returns, Results
    <3> QED BY <1>0, <1>6, <3>1, EndsKeepsPlaced DEF RestoreFlags
  <2> QED BY <1>6, <2>1, <2>2 DEF RestoreFlags
<1>7. CASE RestoreError(t)
  BY <1>0, <1>7, EndsKeepsPlaced DEF RestoreError, Returns, Results
<1> QED BY <1>2, <1>3, <1>4, <1>5, <1>6, <1>7 DEF Deactivating

\* So does a capture thread.
LEMMA CapturingPlaced ==
    ASSUME PlaybackInv, NEW c \in Captures,
           CaptureLoop(c) \/ CaptureProcess(c) \/ \E filled \in BOOLEAN : CaptureFills(c, filled)
    PROVE  PlacedInv'
<1> USE DEF PlaybackInv
<1>0. TypeOK /\ PlacedInv /\ Placed(c, thread[c]) /\ thread \in [Threads -> ThreadStates]
  BY DEF TypeOK, PlacedInv
<1>1. \A pc \in {"loop", "fill", "process", "lock", "done"} :
        pc \in ThreadPcs /\ pc \in CapturePcs /\ pc \notin SwapPcs
  BY DEF ThreadPcs, CapturePcs, SwapPcs
<1>2. \A filled \in BOOLEAN : AfterFill(c, filled) \in {"process", "lock", "loop"}
  BY DEF AfterFill
<1>3. CASE CaptureLoop(c)
  <2>1. \E pc \in {"loop", "fill", "process", "lock", "done"} : Goes(c, pc)
    BY <1>2, <1>3 DEF CaptureLoop
  <2>2. thread[c].pc \notin JoiningPcs /\ UNCHANGED <<call, mediaPlaybackActive>>
    BY <1>3 DEF CaptureLoop, JoiningPcs
  <2> QED BY <1>0, <1>1, <2>1, <2>2, GoesPlaced DEF MayGo
<1>4. CASE CaptureProcess(c)
  <2>1. \E pc \in {"loop", "fill", "process", "lock", "done"} : Goes(c, pc)
    BY <1>4 DEF CaptureProcess
  <2>2. thread[c].pc \notin JoiningPcs /\ UNCHANGED <<call, mediaPlaybackActive>>
    BY <1>4 DEF CaptureProcess, JoiningPcs
  <2> QED BY <1>0, <1>1, <2>1, <2>2, GoesPlaced DEF MayGo
<1>5. ASSUME NEW filled \in BOOLEAN, CaptureFills(c, filled) PROVE PlacedInv'
  <2>1. /\ thread'[c].pc \in {"process", "lock", "loop"}
        /\ thread'[c].joins = thread[c].joins
        /\ \A x \in Threads \ {c} : thread'[x] = thread[x]
        /\ UNCHANGED <<call, mediaPlaybackActive>> /\ thread[c].pc = "fill"
    <3>1. /\ thread'[c].pc = AfterFill(c, filled) /\ thread'[c].joins = thread[c].joins
          /\ \A x \in Threads \ {c} : thread'[x] = thread[x]
      BY <1>0, <1>5, FillsShape
    <3> QED BY <1>2, <1>5, <3>1 DEF CaptureFills
  <2>2. Placed(c, thread'[c])
    BY <1>0, <2>1 DEF Placed, CapturePcs, ActivationPcs, JoiningPcs
  <2>3. c # "reader"
    BY PlaybackAssumption, PlaybackCallers
  <2> QED BY <1>0, <2>1, <2>2, <2>3, PlaybackCallers DEF PlacedInv
<1> QED BY <1>3, <1>4, <1>5

\* So do the callback thread and shutdown.
LEMMA EndingPlaced ==
    ASSUME PlaybackInv, Disconnected \/ ShutdownBegin \/ ShutdownUnregister \/ ShutdownJoined
    PROVE  PlacedInv'
<1> USE DEF PlaybackInv
<1>0. TypeOK /\ PlacedInv /\ thread \in [Threads -> ThreadStates]
      /\ "callback" \in Threads /\ "shutdown" \in Threads
      /\ thread["shutdown"].joins # "shutdown" /\ "lock" \in ThreadPcs /\ "finished" \in ThreadPcs
  BY JoinsAnother DEF TypeOK, PlacedInv, ThreadPcs
<1>1. CASE Disconnected
  BY <1>0, <1>1, GoesPlaced DEF Disconnected, MayGo, JoiningPcs, SwapPcs
<1>2. CASE ShutdownBegin
  BY <1>0, <1>2, GoesPlaced DEF ShutdownBegin, MayGo, JoiningPcs, SwapPcs
<1>3. CASE ShutdownUnregister
  <2>1. /\ thread'["shutdown"].pc = "unjoined"
        /\ \A x \in Threads \ {"shutdown"} : thread'[x] = thread[x]
        /\ UNCHANGED <<call, mediaPlaybackActive>>
    BY <1>0, <1>3 DEF ShutdownUnregister
  <2>2. Placed("shutdown", thread'["shutdown"])
    BY <1>0, <2>1, PlaybackAssumption DEF Placed, ActivationPcs, JoiningPcs
  <2> QED BY <1>0, <2>1, <2>2, PlaybackCallers DEF PlacedInv, SwapPcs
<1>4. CASE ShutdownJoined
  <2> DEFINE th == AfterJoin(thread, "shutdown", "finished")
  <2>1. /\ th["shutdown"].pc = "finished" /\ th["shutdown"].joins = NoCapture
        /\ \A x \in Threads \ {"shutdown"} :
              th[x] = IF x = thread["shutdown"].joins THEN Idle("off") ELSE thread[x]
    BY <1>0, AfterJoinShape
  <2>2. thread' = th /\ UNCHANGED <<call, mediaPlaybackActive>>
    BY <1>4 DEF ShutdownJoined
  <2>3. thread["shutdown"].joins \in Captures \cup {NoCapture}
    BY <1>0 DEF ThreadStates
  <2> HIDE DEF th
  <2>4. \A x \in Threads \ {"shutdown"} : Placed(x, th[x])
    BY <1>0, <2>1, <2>3, OthersPlaced
  <2>5. Placed("shutdown", th["shutdown"])
    BY <2>1, PlaybackAssumption DEF Placed, ActivationPcs
  <2>6. \A x \in Threads : thread'[x].pc \in SwapPcs => thread[x].pc \in SwapPcs
    BY <2>1, <2>2, <2>3, PlaybackAssumption DEF SwapPcs, Idle
  <2> QED BY <1>0, <2>2, <2>4, <2>5, <2>6, PlaybackCallers DEF PlacedInv
<1> QED BY <1>1, <1>2, <1>3, <1>4

\* So does a call that is made or answered: only the reader asks for an activation.
LEMMA BridgeCallsPlaced ==
    ASSUME PlaybackInv, NEW t \in Callers, BridgeCalls(t)
    PROVE  PlacedInv'
<1>1. UNCHANGED <<thread, mediaPlaybackActive>>
  BY DEF BridgeCalls, hostVars
<1>2. \A u \in Callers : call'[u] = "activate" => u = "reader"
  BY DEF PlaybackInv, TypeOK, CallTypeOK, PlacedInv, BridgeCalls, Invoke, Consume, Requests, Results
<1> QED BY <1>1, <1>2 DEF PlaybackInv, PlacedInv
-----------------------------------------------------------------------------
(* OwnershipInv                                                            *)

\* A step that touches no owner, and starts and removes no capture thread.
LEMMA KeepsOwners ==
    ASSUME TypeOK, OwnershipInv, captureThread' = captureThread,
           \A x \in Threads : thread'[x].joins = thread[x].joins,
           \A c \in Captures : thread'[c].pc = "off" <=> thread[c].pc = "off"
    PROVE  OwnershipInv'
<1>1. captureThread # NoCapture => captureThread \in Threads
  BY DEF TypeOK
<1> QED BY <1>1 DEF OwnershipInv

\* A thread that has joined another: the other is off, and nobody's.
LEMMA JoinsOwners ==
    ASSUME TypeOK, OwnershipInv, captureThread' = captureThread, NEW t \in Threads,
           thread'[t].joins = NoCapture,
           \A x \in Threads \ {t} : thread'[x].joins = thread[x].joins,
           \A c \in Captures : thread'[c].pc = "off" <=> thread[c].pc = "off" \/ c = thread[t].joins
    PROVE  OwnershipInv'
<1>1. captureThread # NoCapture => captureThread \in Captures
  BY DEF TypeOK
<1>2. ASSUME NEW c \in Captures
      PROVE  thread'[c].pc = "off" <=> captureThread' # c /\ \A x \in Threads : thread'[x].joins # c
  <2>1. NoCapture # c
    BY PlaybackAssumption
  <2>2. CASE c = thread[t].joins
    BY <2>1, <2>2 DEF OwnershipInv
  <2>3. CASE c # thread[t].joins
    BY <2>1, <2>3 DEF OwnershipInv
  <2> QED BY <2>2, <2>3
<1>3. \A x, y \in Threads :
        thread'[x].joins = thread'[y].joins => x = y \/ thread'[x].joins = NoCapture
  BY DEF OwnershipInv
<1>4. captureThread' # NoCapture =>
        /\ \A x \in Threads : thread'[x].joins # captureThread'
        /\ thread'[captureThread'].joins = NoCapture
  BY <1>1 DEF OwnershipInv
<1>5. ASSUME NEW S \in SUBSET Threads, S # {} PROVE \E x \in S : thread'[x].joins \notin S
  <2>1. PICK x \in S : thread[x].joins \notin S
    BY <1>5 DEF OwnershipInv
  <2>2. NoCapture \notin S
    BY PlaybackAssumption
  <2> QED BY <2>1, <2>2
<1> QED BY <1>2, <1>3, <1>4, <1>5 DEF OwnershipInv

\* A thread that takes the field's capture thread, which joins nobody, to join it.
LEMMA TakesOwners ==
    ASSUME TypeOK, OwnershipInv, NEW t \in Threads,
           captureThread # NoCapture, captureThread # t, captureThread' = NoCapture,
           thread[t].joins = NoCapture, thread'[t].joins = captureThread,
           \A x \in Threads \ {t} : thread'[x].joins = thread[x].joins,
           \A c \in Captures : thread'[c].pc = "off" <=> thread[c].pc = "off"
    PROVE  OwnershipInv'
<1>1. captureThread \in Captures /\ captureThread \in Threads
  BY DEF TypeOK
<1>2. ASSUME NEW c \in Captures
      PROVE  thread'[c].pc = "off" <=> captureThread' # c /\ \A x \in Threads : thread'[x].joins # c
  <2>1. NoCapture # c
    BY PlaybackAssumption
  <2>2. CASE c = captureThread
    BY <2>1, <2>2 DEF OwnershipInv
  <2>3. CASE c # captureThread
    BY <2>1, <2>3 DEF OwnershipInv
  <2> QED BY <2>2, <2>3
<1>3. \A x, y \in Threads :
        thread'[x].joins = thread'[y].joins => x = y \/ thread'[x].joins = NoCapture
  BY DEF OwnershipInv
<1>4. ASSUME NEW S \in SUBSET Threads, S # {} PROVE \E x \in S : thread'[x].joins \notin S
  <2>1. NoCapture \notin S
    BY PlaybackAssumption
  <2>2. CASE captureThread \in S
    BY <1>1, <2>1, <2>2 DEF OwnershipInv
  <2>3. CASE captureThread \notin S
    <3>1. PICK x \in S : thread[x].joins \notin S
      BY <1>4 DEF OwnershipInv
    <3> QED BY <2>3, <3>1
  <2> QED BY <2>2, <2>3
<1> QED BY <1>2, <1>3, <1>4 DEF OwnershipInv

\* A new capture thread for the field, when the field is empty.
LEMMA StartsOwners ==
    ASSUME TypeOK, OwnershipInv, NEW c \in Captures, thread[c].pc = "off", thread[c].joins = NoCapture,
           captureThread = NoCapture, captureThread' = c,
           \A x \in Threads : thread'[x].joins = thread[x].joins,
           \A d \in Captures : thread'[d].pc = "off" <=> thread[d].pc = "off" /\ d # c
    PROVE  OwnershipInv'
BY PlaybackAssumption DEF OwnershipInv

\* A new capture thread for the field, and its old one in the hands of thread t.
LEMMA ReplacesOwners ==
    ASSUME TypeOK, OwnershipInv, NEW c \in Captures, NEW t \in Threads,
           thread[c].pc = "off", thread[c].joins = NoCapture, thread[t].joins = NoCapture,
           captureThread # NoCapture, captureThread # t, c # t, captureThread' = c,
           thread'[t].joins = captureThread,
           \A x \in Threads \ {t} : thread'[x].joins = thread[x].joins,
           \A d \in Captures : thread'[d].pc = "off" <=> thread[d].pc = "off" /\ d # c
    PROVE  OwnershipInv'
<1>1. captureThread \in Captures /\ captureThread \in Threads /\ captureThread # c /\ c # NoCapture
      /\ \A x \in Threads : thread[x].joins # c
  BY PlaybackAssumption DEF TypeOK, OwnershipInv
<1>2. ASSUME NEW d \in Captures
      PROVE  thread'[d].pc = "off" <=> captureThread' # d /\ \A x \in Threads : thread'[x].joins # d
  <2>1. CASE d = captureThread
    BY <1>1, <2>1 DEF OwnershipInv
  <2>2. CASE d # captureThread
    <3>1. NoCapture # d
      BY PlaybackAssumption
    <3> QED BY <1>1, <2>2, <3>1 DEF OwnershipInv
  <2> QED BY <2>1, <2>2
<1>3. \A x, y \in Threads :
        thread'[x].joins = thread'[y].joins => x = y \/ thread'[x].joins = NoCapture
  BY DEF OwnershipInv
<1>4. /\ \A x \in Threads : thread'[x].joins # captureThread'
      /\ thread'[captureThread'].joins = NoCapture
  BY <1>1
<1>5. ASSUME NEW S \in SUBSET Threads, S # {} PROVE \E x \in S : thread'[x].joins \notin S
  <2>1. NoCapture \notin S
    BY PlaybackAssumption
  <2>2. CASE captureThread \in S
    BY <1>1, <2>1, <2>2 DEF OwnershipInv
  <2>3. CASE captureThread \notin S
    <3>1. PICK x \in S : thread[x].joins \notin S
      BY <1>5 DEF OwnershipInv
    <3> QED BY <2>3, <3>1
  <2> QED BY <2>2, <2>3
<1> QED BY <1>2, <1>3, <1>4, <1>5 DEF OwnershipInv

\* A thread that goes on, is no new capture thread, and keeps what it holds.
LEMMA GoesOwned ==
    ASSUME TypeOK, OwnershipInv, NEW t \in Threads, NEW pc \in ThreadPcs, Goes(t, pc),
           thread[t].pc # "off", pc # "off", UNCHANGED captureThread
    PROVE  OwnershipInv'
<1>1. /\ thread'[t].pc = pc /\ thread'[t].joins = thread[t].joins
      /\ \A x \in Threads \ {t} : thread'[x] = thread[x]
  BY GoesShape
<1> QED BY <1>1, KeepsOwners

\* A thread that returns had nothing left to join.
LEMMA EndsOwned ==
    ASSUME TypeOK, OwnershipInv, NEW t \in Threads, NEW result \in Results, Ends(thread, t, result),
           thread[t].pc # "off", thread[t].joins = NoCapture, UNCHANGED captureThread
    PROVE  OwnershipInv'
<1>1. thread \in [Threads -> ThreadStates] /\ CallTypeOK
  BY DEF TypeOK
<1>2. /\ thread'[t].joins = NoCapture
      /\ t \in Captures => thread'[t].pc = "done"
      /\ \A x \in Threads \ {t} : thread'[x] = thread[x]
  BY <1>1, EndsShape
<1>3. \A x \in Threads : thread'[x].joins = thread[x].joins
  BY <1>2
<1>4. \A c \in Captures : thread'[c].pc = "off" <=> thread[c].pc = "off"
  BY <1>2
<1> QED BY <1>3, <1>4, KeepsOwners

\* A thread that has joined another goes on, or returns.
LEMMA JoinedOwned ==
    ASSUME TypeOK, PlacedInv, OwnershipInv, NEW t \in Threads, NEW pc \in ThreadPcs,
           Joined(t), thread[t].pc # "off", pc # "off", UNCHANGED captureThread,
           \/ thread' = AfterJoin(thread, t, pc)
           \/ \E result \in Results : Ends(AfterJoin(thread, t, pc), t, result)
    PROVE  OwnershipInv'
<1> DEFINE th == AfterJoin(thread, t, pc)
<1>1. /\ th \in [Threads -> ThreadStates] /\ th[t].pc = pc /\ th[t].joins = NoCapture
      /\ \A x \in Threads \ {t} : th[x] = IF x = thread[t].joins THEN Idle("off") ELSE thread[x]
  <2>1. TypeOK /\ t \in Threads /\ pc \in ThreadPcs /\ thread[t].joins # t
    BY JoinsAnother
  <2> HIDE DEF Threads, HostThreads
  <2> QED BY ONLY <2>1, AfterJoinShape
<1>2. thread[t].joins # NoCapture =>
        thread[t].joins \in Captures /\ thread[thread[t].joins].joins = NoCapture
  <2>1. thread[t].joins \in Captures \cup {NoCapture}
    BY DEF TypeOK, ThreadStates
  <2> QED BY <2>1 DEF Joined, PlacedInv, Placed, JoiningPcs
<1>3. thread' = th \/ \E result \in Results : Ends(th, t, result)
  OBVIOUS
<1> HIDE DEF th
<1>4. /\ thread'[t].joins = NoCapture
      /\ t \in Captures => thread'[t].pc # "off"
      /\ \A x \in Threads \ {t} : thread'[x] = th[x]
  <2>1. CASE thread' = th
    BY <1>1, <2>1
  <2>2. ASSUME NEW result \in Results, Ends(th, t, result)
        PROVE  /\ thread'[t].joins = NoCapture
               /\ t \in Captures => thread'[t].pc # "off"
               /\ \A x \in Threads \ {t} : thread'[x] = th[x]
    <3>1. CallTypeOK
      BY DEF TypeOK
    <3> QED BY <1>1, <2>2, <3>1, EndsShape
  <2> QED BY <1>3, <2>1, <2>2
<1>5. \A x \in Threads \ {t} : thread'[x].joins = thread[x].joins
  BY <1>1, <1>2, <1>4, PlaybackAssumption DEF Idle
<1>6. \A c \in Captures : thread'[c].pc = "off" <=> thread[c].pc = "off" \/ c = thread[t].joins
  <2>1. thread[t].joins # t
    BY JoinsAnother
  <2>2. Idle("off").pc = "off"
    BY DEF Idle
  <2>3. ASSUME NEW c \in Captures
        PROVE  thread'[c].pc = "off" <=> thread[c].pc = "off" \/ c = thread[t].joins
    <3>1. CASE c = t
      BY <1>4, <2>1, <3>1
    <3>2. CASE c # t
      <4>1. c \in Threads \ {t}
        BY <3>2
      <4>2. thread'[c] = IF c = thread[t].joins THEN Idle("off") ELSE thread[c]
        BY <1>1, <1>4, <4>1
      <4> QED BY <2>2, <4>2
    <3> QED BY <3>1, <3>2
  <2> QED BY <2>3
<1>7. thread'[t].joins = NoCapture
  BY <1>4
<1>8. captureThread' = captureThread
  OBVIOUS
<1> QED BY <1>5, <1>6, <1>7, <1>8, JoinsOwners
\* A thread that takes what the field has, to join it, unless that is nothing.
LEMMA MayTakeOwned ==
    ASSUME TypeOK, OwnershipInv, NEW t \in Threads, NEW pc \in ThreadPcs,
           pc # "off", thread[t].pc # "off", thread[t].joins = NoCapture,
           captureThread # t, captureThread' = NoCapture,
           thread'[t].pc = pc, thread'[t].joins = captureThread,
           \A x \in Threads \ {t} : thread'[x].pc = thread[x].pc /\ thread'[x].joins = thread[x].joins
    PROVE  OwnershipInv'
<1>1. \A c \in Captures : thread'[c].pc = "off" <=> thread[c].pc = "off"
  OBVIOUS
<1>2. \A x \in Threads \ {t} : thread'[x].joins = thread[x].joins
  OBVIOUS
<1>3. CASE captureThread = NoCapture
  <2>1. \A x \in Threads : thread'[x].joins = thread[x].joins
    BY <1>2, <1>3
  <2>2. captureThread' = captureThread
    BY <1>3
  <2> QED BY <1>1, <2>1, <2>2, KeepsOwners
<1>4. CASE captureThread # NoCapture
  BY <1>1, <1>2, <1>4, TakesOwners
<1> QED BY <1>3, <1>4

\* An activation keeps the owners in order.
LEMMA ActivatingOwned ==
    ASSUME PlaybackInv, NEW t \in Callers, Activating(t)
    PROVE  OwnershipInv'
<1> USE DEF PlaybackInv
<1>0. TypeOK /\ CallTypeOK /\ PlacedInv /\ OwnershipInv /\ t \in Threads /\ t \notin Captures
      /\ thread \in [Threads -> ThreadStates]
  BY PlaybackAssumption DEF TypeOK
<1>1. /\ "stale" \in ThreadPcs /\ "check" \in ThreadPcs /\ "register" \in ThreadPcs
      /\ "snapshot" \in ThreadPcs /\ "open" \in ThreadPcs /\ "flags" \in ThreadPcs
      /\ "commit" \in ThreadPcs /\ "restore close" \in ThreadPcs /\ "idle" \in ThreadPcs
  BY DEF ThreadPcs
<1>p. Placed(t, thread[t]) /\ thread[t].pc # "off"
  BY <1>0 DEF PlacedInv, Placed
<1>c. captureThread # t
  BY <1>0, PlaybackAssumption DEF TypeOK
<1>2. CASE ActivateBegin(t)
  <2>1. thread[t].joins = NoCapture
    BY <1>2, <1>p DEF ActivateBegin, Placed, JoiningPcs
  <2>2. CASE /\ thread' = [thread EXCEPT ![t].pc = "stale", ![t].joins = captureThread]
             /\ captureThread' = NoCapture
    <3>1. /\ thread'[t].pc = "stale" /\ thread'[t].joins = captureThread
          /\ \A x \in Threads \ {t} : thread'[x] = thread[x]
      BY <1>0, <2>2 DEF ThreadStates
    <3> QED BY <1>0, <1>1, <1>p, <1>c, <2>1, <2>2, <3>1, MayTakeOwned
  <2>3. CASE Goes(t, "stale") /\ UNCHANGED captureThread
    BY <1>0, <1>1, <1>p, <2>3, GoesOwned
  <2> QED BY <1>2, <2>2, <2>3 DEF ActivateBegin
<1>3. CASE ActivateJoined(t)
  BY <1>0, <1>1, <1>p, <1>3, JoinedOwned DEF ActivateJoined
<1>4. CASE ActivateCheck(t)
  <2>1. thread[t].joins = NoCapture /\ UNCHANGED captureThread
    BY <1>4, <1>p DEF ActivateCheck, Placed, JoiningPcs
  <2>2. CASE Returns(t, "failed") \/ Returns(t, "ok")
    <3>1. \E result \in Results : Ends(thread, t, result)
      BY <2>2 DEF Returns, Results
    <3> QED BY <1>0, <1>p, <2>1, <3>1, EndsOwned
  <2>3. CASE Goes(t, "register")
    BY <1>0, <1>1, <1>p, <2>1, <2>3, GoesOwned
  <2> QED BY <1>4, <2>2, <2>3 DEF ActivateCheck
<1>5. CASE ensure_custom_capture_device_registered(t)
  <2>1. thread[t].joins = NoCapture /\ UNCHANGED captureThread
    BY <1>5, <1>p DEF ensure_custom_capture_device_registered, Placed, JoiningPcs
  <2>2. CASE Returns(t, "failed")
    <3>1. \E result \in Results : Ends(thread, t, result)
      BY <2>2 DEF Returns, Results
    <3> QED BY <1>0, <1>p, <2>1, <3>1, EndsOwned
  <2>3. CASE Goes(t, "snapshot")
    BY <1>0, <1>1, <1>p, <2>1, <2>3, GoesOwned
  <2> QED BY <1>5, <2>2, <2>3 DEF ensure_custom_capture_device_registered
<1>6. CASE snapshot_media_playback_session(t)
  <2>1. /\ thread'[t].pc = "close" /\ thread'[t].joins = thread[t].joins
        /\ \A x \in Threads \ {t} : thread'[x] = thread[x]
    BY <1>0, <1>6 DEF snapshot_media_playback_session, ThreadStates
  <2>2. \A x \in Threads : thread'[x].joins = thread[x].joins
    BY <2>1
  <2>3. \A c \in Captures : thread'[c].pc = "off" <=> thread[c].pc = "off"
    BY <1>0, <2>1
  <2> QED BY <1>0, <1>6, <2>2, <2>3, KeepsOwners DEF snapshot_media_playback_session
<1>7. CASE CustomClose(t)
  BY <1>0, <1>1, <1>p, <1>7, GoesOwned DEF CustomClose
<1>8. CASE CustomOpen(t)
  BY <1>0, <1>1, <1>p, <1>8, GoesOwned DEF CustomOpen
<1>9. CASE CustomFlags(t)
  BY <1>0, <1>1, <1>p, <1>9, GoesOwned DEF CustomFlags
<1>10. CASE ActivateCommit(t)
  <2>1. PICK c \in Captures :
            /\ thread[c].pc = "off" /\ captureThread' = c
            /\ \/ /\ captureThread = NoCapture
                  /\ Ends([thread EXCEPT ![c] = Idle("loop")], t, "ok")
               \/ /\ captureThread # NoCapture
                  /\ thread' = [thread EXCEPT ![c] = Idle("loop"), ![captureThread].stop = TRUE,
                                              ![t].pc = "assign", ![t].joins = captureThread]
                  /\ UNCHANGED call
    BY <1>10 DEF ActivateCommit
  <2>2. thread[t].joins = NoCapture /\ thread[c].joins = NoCapture /\ c # t
    BY <1>0, <1>10, <1>p, <2>1 DEF ActivateCommit, PlacedInv, Placed, JoiningPcs
  <2>3. Idle("loop").joins = NoCapture /\ Idle("loop").pc # "off"
    BY DEF Idle
  <2>4. CASE captureThread = NoCapture
    <3> DEFINE th == [thread EXCEPT ![c] = Idle("loop")]
    <3>1. th \in [Threads -> ThreadStates]
      BY <1>0, IdleType DEF ThreadPcs
    <3>2. th[c] = Idle("loop") /\ \A x \in Threads \ {c} : th[x] = thread[x]
      BY <1>0
    <3>3. Ends(th, t, "ok")
      BY <2>1, <2>4
    <3> HIDE DEF th
    <3>4. thread'[t].joins = NoCapture /\ \A x \in Threads \ {t} : thread'[x] = th[x]
      BY <1>0, <3>1, <3>3, EndsShape DEF Results
    <3>5. \A x \in Threads : thread'[x].joins = thread[x].joins
      BY <2>2, <2>3, <3>2, <3>4
    <3>6. \A d \in Captures : thread'[d].pc = "off" <=> thread[d].pc = "off" /\ d # c
      BY <1>0, <2>3, <3>2, <3>4
    <3> QED BY <1>0, <2>1, <2>2, <2>4, <3>5, <3>6, StartsOwners
  <2>5. CASE captureThread # NoCapture
    <3>1. captureThread \in Captures /\ captureThread # c
      BY <1>0, <2>1, <2>5 DEF TypeOK, OwnershipInv
    <3>2. /\ thread'[t].joins = captureThread
          /\ thread'[c] = Idle("loop")
          /\ \A x \in Threads \ {t, c} : thread'[x].pc = thread[x].pc /\ thread'[x].joins = thread[x].joins
      BY <1>0, <1>c, <2>1, <2>2, <2>5, <3>1 DEF ThreadStates
    <3>3. \A x \in Threads \ {t} : thread'[x].joins = thread[x].joins
      BY <2>2, <2>3, <3>2
    <3>4. \A d \in Captures : thread'[d].pc = "off" <=> thread[d].pc = "off" /\ d # c
      BY <1>0, <2>3, <3>2
    <3> QED BY <1>0, <1>c, <2>1, <2>2, <2>5, <3>2, <3>3, <3>4, ReplacesOwners
  <2> QED BY <2>4, <2>5
<1>11. CASE ActivateAssigned(t)
  <2>1. "ok" \in Results
    BY DEF Results
  <2> QED BY <1>0, <1>1, <1>p, <1>11, <2>1, JoinedOwned DEF ActivateAssigned
<1> QED BY <1>2, <1>3, <1>4, <1>5, <1>6, <1>7, <1>8, <1>9, <1>10, <1>11 DEF Activating

\* So does the end of a session.
LEMMA DeactivatingOwned ==
    ASSUME PlaybackInv, NEW t \in Threads, Deactivating(t)
    PROVE  OwnershipInv'
<1> USE DEF PlaybackInv
<1>0. TypeOK /\ CallTypeOK /\ PlacedInv /\ OwnershipInv /\ Placed(t, thread[t])
      /\ thread \in [Threads -> ThreadStates]
  BY DEF TypeOK, PlacedInv
<1>1. /\ "join" \in ThreadPcs /\ "restore close" \in ThreadPcs /\ "restore open" \in ThreadPcs
      /\ "restore flags" \in ThreadPcs /\ "restore error" \in ThreadPcs /\ "idle" \in ThreadPcs
  BY DEF ThreadPcs
<1>2. CASE DeactivateLock(t)
  <2>1. thread[t].joins = NoCapture /\ thread[t].pc # "off"
    BY <1>0, <1>2 DEF DeactivateLock, Placed, JoiningPcs
  <2>2. CASE Returns(t, "ok") /\ UNCHANGED captureThread
    <3>1. \E result \in Results : Ends(thread, t, result)
      BY <2>2 DEF Returns, Results
    <3> QED BY <1>0, <2>1, <2>2, <3>1, EndsOwned
  <2>3. CASE /\ captureThread' = IF captureThread = t THEN t ELSE NoCapture
             /\ thread' = [x \in Threads |-> [Takes(t)[x] EXCEPT !.stop = @ \/ x = captureThread]]
    <3> DEFINE th == Takes(t)
    <3>1. /\ th \in [Threads -> ThreadStates] /\ th[t].pc = "join"
          /\ th[t].joins = IF captureThread = t THEN NoCapture ELSE captureThread
          /\ \A x \in Threads \ {t} : th[x] = thread[x]
      BY <1>0, TakesShape
    <3>2. thread' = [x \in Threads |-> [th[x] EXCEPT !.stop = @ \/ x = captureThread]]
      BY <2>3
    <3> HIDE DEF th
    <3>3. \A x \in Threads : thread'[x].pc = th[x].pc /\ thread'[x].joins = th[x].joins
      BY <3>1, <3>2 DEF ThreadStates
    <3>4. CASE captureThread = t
      <4>1. \A x \in Threads : thread'[x].joins = thread[x].joins
        BY <2>1, <3>1, <3>3, <3>4
      <4>2. \A c \in Captures : thread'[c].pc = "off" <=> thread[c].pc = "off"
        BY <2>1, <3>1, <3>3
      <4>3. captureThread' = captureThread
        BY <2>3, <3>4
      <4> QED BY <1>0, <4>1, <4>2, <4>3, KeepsOwners
    <3>5. CASE captureThread # t
      <4>1. /\ captureThread' = NoCapture /\ thread'[t].pc = "join"
            /\ thread'[t].joins = captureThread
            /\ \A x \in Threads \ {t} :
                  thread'[x].pc = thread[x].pc /\ thread'[x].joins = thread[x].joins
        BY <2>3, <3>1, <3>3, <3>5
      <4> QED BY <1>0, <1>1, <2>1, <3>5, <4>1, MayTakeOwned
    <3> QED BY <3>4, <3>5
  <2> QED BY <1>2, <2>2, <2>3 DEF DeactivateLock
<1>3. CASE DeactivateJoined(t)
  <2>1. thread[t].pc # "off" /\ "ok" \in Results
    BY <1>3 DEF DeactivateJoined, Results
  <2>2. CASE thread' = AfterJoin(thread, t, "restore close")
    BY <1>0, <1>1, <1>3, <2>1, <2>2, JoinedOwned DEF DeactivateJoined
  <2>3. CASE Ends(AfterJoin(thread, t, "idle"), t, "ok")
    BY <1>0, <1>1, <1>3, <2>1, <2>3, JoinedOwned DEF DeactivateJoined
  <2> QED BY <1>3, <2>2, <2>3 DEF DeactivateJoined
<1>4. CASE RestoreClose(t)
  <2>1. \E pc \in {"restore open", "restore flags"} : Goes(t, pc)
    BY <1>4 DEF RestoreClose
  <2> QED BY <1>0, <1>1, <1>4, <2>1, GoesOwned DEF RestoreClose
<1>5. CASE RestoreOpen(t)
  BY <1>0, <1>1, <1>5, GoesOwned DEF RestoreOpen
<1>6. CASE RestoreFlags(t)
  <2>1. thread[t].joins = NoCapture /\ thread[t].pc # "off" /\ UNCHANGED captureThread
    BY <1>0, <1>6 DEF RestoreFlags, Placed, JoiningPcs
  <2>2. CASE Goes(t, "restore error")
    BY <1>0, <1>1, <2>1, <2>2, GoesOwned
  <2>3. CASE Returns(t, IF t \in Callers /\ call[t] = "activate" THEN "failed" ELSE "ok")
    <3>1. \E result \in Results : Ends(thread, t, result)
      BY <2>3 DEF Returns, Results
    <3> QED BY <1>0, <2>1, <3>1, EndsOwned
  <2> QED BY <1>6, <2>2, <2>3 DEF RestoreFlags
<1>7. CASE RestoreError(t)
  <2>1. thread[t].joins = NoCapture /\ thread[t].pc # "off" /\ UNCHANGED captureThread
    BY <1>0, <1>7 DEF RestoreError, Placed, JoiningPcs
  <2>2. \E result \in Results : Ends(thread, t, result)
    BY <1>7 DEF RestoreError, Returns, Results
  <2> QED BY <1>0, <2>1, <2>2, EndsOwned
<1> QED BY <1>2, <1>3, <1>4, <1>5, <1>6, <1>7 DEF Deactivating

\* So does a capture thread.
LEMMA CapturingOwned ==
    ASSUME PlaybackInv, NEW c \in Captures,
           CaptureLoop(c) \/ CaptureProcess(c) \/ \E filled \in BOOLEAN : CaptureFills(c, filled)
    PROVE  OwnershipInv'
<1> USE DEF PlaybackInv
<1>0. TypeOK /\ OwnershipInv /\ thread \in [Threads -> ThreadStates]
  BY DEF TypeOK
<1>1. \A pc \in {"loop", "fill", "process", "lock", "done"} : pc \in ThreadPcs /\ pc # "off"
  BY DEF ThreadPcs
<1>2. \A filled \in BOOLEAN : AfterFill(c, filled) \in {"process", "lock", "loop"}
  BY DEF AfterFill
<1>3. CASE CaptureLoop(c) \/ CaptureProcess(c)
  <2>1. \E pc \in {"loop", "fill", "process", "lock", "done"} : Goes(c, pc)
    BY <1>2, <1>3 DEF CaptureLoop, CaptureProcess
  <2>2. thread[c].pc # "off" /\ UNCHANGED captureThread
    BY <1>3 DEF CaptureLoop, CaptureProcess
  <2> QED BY <1>0, <1>1, <2>1, <2>2, GoesOwned
<1>4. ASSUME NEW filled \in BOOLEAN, CaptureFills(c, filled) PROVE OwnershipInv'
  <2>1. thread[c].pc = "fill" /\ UNCHANGED captureThread
    BY <1>4 DEF CaptureFills
  <2>2. AfterFill(c, filled) \in ThreadPcs /\ AfterFill(c, filled) # "off"
    BY <1>1, <1>2
  <2>3. /\ thread'[c].pc = AfterFill(c, filled) /\ thread'[c].joins = thread[c].joins
        /\ \A x \in Threads \ {c} : thread'[x] = thread[x]
    BY <1>0, <1>4, FillsShape
  <2> QED BY <1>0, <2>1, <2>2, <2>3, KeepsOwners
<1> QED BY <1>3, <1>4

\* So do the callback thread and shutdown.
LEMMA EndingOwned ==
    ASSUME PlaybackInv, Disconnected \/ ShutdownBegin \/ ShutdownUnregister \/ ShutdownJoined
    PROVE  OwnershipInv'
<1> USE DEF PlaybackInv
<1>0. TypeOK /\ PlacedInv /\ OwnershipInv /\ thread \in [Threads -> ThreadStates]
      /\ "callback" \in Threads /\ "shutdown" \in Threads /\ captureThread # "shutdown"
      /\ "lock" \in ThreadPcs /\ "finished" \in ThreadPcs /\ "unjoined" \in ThreadPcs
  BY PlaybackAssumption DEF TypeOK, ThreadPcs
<1>1. CASE Disconnected
  BY <1>0, <1>1, GoesOwned DEF Disconnected
<1>2. CASE ShutdownBegin
  BY <1>0, <1>2, GoesOwned DEF ShutdownBegin
<1>3. CASE ShutdownUnregister
  <2>1. /\ thread'["shutdown"].pc = "unjoined" /\ thread'["shutdown"].joins = captureThread
        /\ \A x \in Threads \ {"shutdown"} : thread'[x] = thread[x]
        /\ captureThread' = NoCapture /\ thread["shutdown"].pc = "unregister"
    BY <1>0, <1>3 DEF ShutdownUnregister, ThreadStates
  <2>2. thread["shutdown"].joins = NoCapture
    BY <1>0, <2>1 DEF PlacedInv, Placed, JoiningPcs
  <2> QED BY <1>0, <2>1, <2>2, MayTakeOwned
<1>4. CASE ShutdownJoined
  BY <1>0, <1>4, JoinedOwned DEF ShutdownJoined
<1> QED BY <1>1, <1>2, <1>3, <1>4
-----------------------------------------------------------------------------
(* FeederInv                                                               *)

\* A step of thread t that takes nothing from the field: a capture thread that
\* feeds a session that is on goes on feeding it, and the end of one is final.
LEMMA KeepsFeeder ==
    ASSUME TypeOK, FeederInv, NEW t \in Threads,
           UNCHANGED <<mediaPlaybackActive, captureThread>>, mediaPlaybackActive => UNCHANGED session,
           \A x \in Threads \ {t} : thread'[x] = thread[x],
           thread[t].pc # "unjoined", thread'[t].pc # "assign",
           t \in Captures => /\ mediaPlaybackActive /\ Feeds(t) => Feeds(t)'
                             /\ Ended(t) => Ended(t)'
    PROVE  FeederInv'
<1>1. \A c \in Captures : mediaPlaybackActive /\ Feeds(c) => Feeds(c)'
  BY DEF Feeds
<1>2. \A c \in Captures : Ended(c) => Ended(c)'
  BY DEF Ended
<1>3. mediaPlaybackActive' =>
        /\ session'.open
        /\ \E c \in Captures :
            /\ Feeds(c)'
            /\ \/ captureThread' = c
               \/ /\ captureThread' = NoCapture
                  /\ thread'["shutdown"].pc = "unjoined" /\ thread'["shutdown"].joins = c
  BY <1>1 DEF FeederInv
<1>4. ~mediaPlaybackActive' /\ captureThread' # NoCapture => Ended(captureThread)'
  BY <1>2 DEF FeederInv, TypeOK, Ended
<1>5. \A x \in Threads : thread'[x].pc = "assign" =>
        thread'[x].joins \in Captures /\ Ended(thread[x].joins)'
  BY <1>2 DEF FeederInv, Ended
<1> QED BY <1>3, <1>4, <1>5 DEF FeederInv, Ended, Feeds

\* What Goes may do to it.
LEMMA GoesFed ==
    ASSUME TypeOK, FeederInv, NEW t \in Threads, NEW pc \in ThreadPcs, Goes(t, pc),
           UNCHANGED <<mediaPlaybackActive, session, captureThread>>,
           thread[t].pc # "unjoined", pc # "assign",
           t \in Captures => /\ mediaPlaybackActive /\ Feeds(t) => pc \in FeedingPcs
                             /\ thread[t].pc \in EndedPcs => pc \in EndedPcs
    PROVE  FeederInv'
<1>1. /\ thread'[t].pc = pc /\ thread'[t].joins = thread[t].joins
      /\ thread'[t].stop = thread[t].stop
      /\ \A x \in Threads \ {t} : thread'[x] = thread[x]
  BY GoesShape
<1>2. t \in Captures => /\ mediaPlaybackActive /\ Feeds(t) => Feeds(t)'
                        /\ Ended(t) => Ended(t)'
  BY <1>1 DEF Feeds, Ended
<1> QED BY <1>1, <1>2, KeepsFeeder

\* A thread that returns: a capture thread is past the end of its session.
LEMMA EndsFed ==
    ASSUME TypeOK, FeederInv, NEW t \in Threads, NEW result \in Results, Ends(thread, t, result),
           UNCHANGED <<mediaPlaybackActive, captureThread>>, mediaPlaybackActive => UNCHANGED session,
           thread[t].pc # "unjoined", t \in Captures => ~(mediaPlaybackActive /\ Feeds(t))
    PROVE  FeederInv'
<1>1. thread \in [Threads -> ThreadStates] /\ CallTypeOK
  BY DEF TypeOK
<1>2. /\ thread'[t].joins = NoCapture
      /\ t \in Captures => thread'[t].pc = "done"
      /\ thread'[t].pc # "assign"
      /\ \A x \in Threads \ {t} : thread'[x] = thread[x]
  BY <1>1, EndsShape
<1>3. t \in Captures => Ended(t)'
  BY <1>2 DEF Ended, EndedPcs
<1> QED BY <1>2, <1>3, KeepsFeeder

\* A thread that has joined another, which had ended and is neither the field's
\* nor joined by an assignment of another thread.
LEMMA JoinedFed ==
    ASSUME TypeOK, PlacedInv, OwnershipInv, FeederInv, NEW t \in Threads, NEW pc \in ThreadPcs,
           Joined(t), UNCHANGED <<mediaPlaybackActive, session, captureThread>>,
           thread[t].pc \in JoiningPcs, pc # "assign",
           \/ thread' = AfterJoin(thread, t, pc) /\ (t \in Captures => pc \in EndedPcs)
           \/ \E result \in Results : Ends(AfterJoin(thread, t, pc), t, result)
    PROVE  FeederInv'
<1> DEFINE th == AfterJoin(thread, t, pc)
<1>1. /\ th \in [Threads -> ThreadStates] /\ th[t].pc = pc /\ th[t].joins = NoCapture
      /\ \A x \in Threads \ {t} : th[x] = IF x = thread[t].joins THEN Idle("off") ELSE thread[x]
  <2>1. TypeOK /\ t \in Threads /\ pc \in ThreadPcs /\ thread[t].joins # t
    BY JoinsAnother
  <2> HIDE DEF Threads, HostThreads
  <2> QED BY ONLY <2>1, AfterJoinShape
<1>2. \/ thread' = th /\ (t \in Captures => pc \in EndedPcs)
      \/ \E result \in Results : Ends(th, t, result)
  OBVIOUS
<1> HIDE DEF th
<1>3. /\ t \in Captures => Ended(t)'
      /\ thread'[t].pc # "assign"
      /\ \A x \in Threads \ {t} : thread'[x] = th[x]
  <2>1. CASE thread' = th /\ (t \in Captures => pc \in EndedPcs)
    BY <1>1, <2>1 DEF Ended
  <2>2. ASSUME NEW result \in Results, Ends(th, t, result)
        PROVE  /\ t \in Captures => Ended(t)'
               /\ thread'[t].pc # "assign"
               /\ \A x \in Threads \ {t} : thread'[x] = th[x]
    <3>1. /\ thread'[t].joins = NoCapture
          /\ t \in Captures => thread'[t].pc = "done"
          /\ thread'[t].pc # "assign"
          /\ \A x \in Threads \ {t} : thread'[x] = th[x]
      BY <1>1, <2>2, EndsShape DEF TypeOK
    <3> QED BY <3>1 DEF Ended, EndedPcs
  <2> QED BY <1>2, <2>1, <2>2
<1>4. \A x \in Threads \ {t} : x # thread[t].joins => thread'[x] = thread[x]
  BY <1>1, <1>3
<1>5. thread[t].joins \in Captures \cup {NoCapture}
      /\ (thread[t].joins # NoCapture => thread[thread[t].joins].pc = "done")
  BY DEF TypeOK, ThreadStates, Joined
<1>6. \A c \in Captures : Feeds(c) => Feeds(c)'
  <2>1. \A c \in Captures : Feeds(c) => c # t /\ c # thread[t].joins
    BY <1>5, PlaybackAssumption DEF Feeds, FeedingPcs, JoiningPcs
  <2> QED BY <1>4, <2>1 DEF Feeds
<1>7. \A c \in Captures : c # thread[t].joins /\ Ended(c) => Ended(c)'
  BY <1>3, <1>4 DEF Ended
<1>8. mediaPlaybackActive' =>
        /\ session'.open
        /\ \E c \in Captures :
            /\ Feeds(c)'
            /\ \/ captureThread' = c
               \/ /\ captureThread' = NoCapture
                  /\ thread'["shutdown"].pc = "unjoined" /\ thread'["shutdown"].joins = c
  <2>1. SUFFICES ASSUME mediaPlaybackActive
                 PROVE  /\ session'.open
                        /\ \E c \in Captures :
                            /\ Feeds(c)'
                            /\ \/ captureThread' = c
                               \/ /\ captureThread' = NoCapture
                                  /\ thread'["shutdown"].pc = "unjoined"
                                  /\ thread'["shutdown"].joins = c
    OBVIOUS
  <2>2. PICK c \in Captures :
            /\ Feeds(c)
            /\ \/ captureThread = c
               \/ /\ captureThread = NoCapture
                  /\ thread["shutdown"].pc = "unjoined" /\ thread["shutdown"].joins = c
    BY <2>1 DEF FeederInv
  <2>3. CASE captureThread = c
    BY <1>6, <2>1, <2>2, <2>3 DEF FeederInv
  <2>4. CASE captureThread = NoCapture /\ thread["shutdown"].pc = "unjoined"
             /\ thread["shutdown"].joins = c
    <3>1. t # "shutdown"
      BY <1>5, <2>2, <2>4, PlaybackAssumption DEF Feeds, FeedingPcs
    <3>2. thread["shutdown"].pc # "done" /\ "shutdown" # thread[t].joins
      BY <1>5, <2>4, PlaybackAssumption
    <3>3. thread'["shutdown"] = thread["shutdown"]
      BY <1>4, <3>1, <3>2
    <3> QED BY <1>6, <2>1, <2>2, <2>4, <3>3 DEF FeederInv
  <2> QED BY <2>2, <2>3, <2>4
<1>9. ~mediaPlaybackActive' /\ captureThread' # NoCapture => Ended(captureThread)'
  <2>1. SUFFICES ASSUME ~mediaPlaybackActive, captureThread # NoCapture PROVE Ended(captureThread)'
    BY DEF TypeOK
  <2>2. captureThread \in Captures /\ Ended(captureThread) /\ captureThread # thread[t].joins
    BY <2>1 DEF TypeOK, FeederInv, OwnershipInv
  <2> QED BY <1>7, <2>2 DEF Ended
<1>10. ASSUME NEW x \in Threads, thread'[x].pc = "assign"
       PROVE  thread'[x].joins \in Captures /\ Ended(thread[x].joins)' /\ thread'[x] = thread[x]
  <2>1. x # t /\ thread'[x] = thread[x]
    BY <1>1, <1>3, <1>10 DEF Idle
  <2>2. thread[x].joins \in Captures /\ Ended(thread[x].joins)
    BY <1>10, <2>1 DEF FeederInv
  <2>3. thread[x].joins # thread[t].joins
    BY <2>1, <2>2, PlaybackAssumption DEF OwnershipInv
  <2> QED BY <1>7, <2>1, <2>2, <2>3 DEF Ended
<1> QED BY <1>8, <1>9, <1>10 DEF FeederInv, Feeds, Ended
\* When the mutex is free no thread joins another under it.
LEMMA NoneAssigns ==
    ASSUME NEW t \in Threads, MutexFree, \A x \in Threads \ {t} : thread'[x].pc = thread[x].pc,
           thread'[t].pc # "assign"
    PROVE  \A x \in Threads : thread'[x].pc # "assign"
BY DEF MutexFree

\* An activation keeps the feeder.
LEMMA ActivatingFed ==
    ASSUME PlaybackInv, NEW t \in Callers, Activating(t)
    PROVE  FeederInv'
<1> USE DEF PlaybackInv
<1>0. TypeOK /\ CallTypeOK /\ PlacedInv /\ OwnershipInv /\ FeederInv /\ t \in Threads
      /\ t \notin Captures /\ thread \in [Threads -> ThreadStates]
  BY PlaybackAssumption DEF TypeOK
<1>1. /\ "stale" \in ThreadPcs /\ "check" \in ThreadPcs /\ "register" \in ThreadPcs
      /\ "snapshot" \in ThreadPcs /\ "open" \in ThreadPcs /\ "flags" \in ThreadPcs
      /\ "commit" \in ThreadPcs /\ "restore close" \in ThreadPcs /\ "idle" \in ThreadPcs
      /\ "stale" \in JoiningPcs /\ "assign" \in JoiningPcs
      /\ "ok" \in Results /\ "failed" \in Results
  BY DEF ThreadPcs, JoiningPcs, Results
<1>p. Placed(t, thread[t])
  BY <1>0 DEF PlacedInv
<1>c. captureThread # t
  BY <1>0, PlaybackAssumption DEF TypeOK
<1>2. CASE ActivateBegin(t)
  <2>1. CASE Goes(t, "stale") /\ UNCHANGED captureThread
    BY <1>0, <1>1, <1>2, <2>1, GoesFed DEF ActivateBegin
  <2>2. CASE /\ ~mediaPlaybackActive /\ captureThread' = NoCapture
             /\ thread' = [thread EXCEPT ![t].pc = "stale", ![t].joins = captureThread]
    <3>1. thread'[t].pc = "stale" /\ \A x \in Threads \ {t} : thread'[x] = thread[x]
      BY <1>0, <2>2 DEF ThreadStates
    <3>2. MutexFree /\ UNCHANGED mediaPlaybackActive
      BY <1>2 DEF ActivateBegin
    <3>3. \A x \in Threads : thread'[x].pc # "assign"
      BY <1>0, <3>1, <3>2, NoneAssigns
    <3> QED BY <2>2, <3>2, <3>3 DEF FeederInv
  <2> QED BY <1>2, <2>1, <2>2 DEF ActivateBegin
<1>3. CASE ActivateJoined(t)
  BY <1>0, <1>1, <1>3, JoinedFed DEF ActivateJoined
<1>4. CASE ActivateCheck(t)
  <2>1. thread[t].pc # "unjoined" /\ UNCHANGED <<mediaPlaybackActive, session, captureThread>>
    BY <1>4 DEF ActivateCheck
  <2>2. CASE Returns(t, "failed") \/ Returns(t, "ok")
    BY <1>0, <1>1, <2>1, <2>2, EndsFed DEF Returns
  <2>3. CASE Goes(t, "register")
    BY <1>0, <1>1, <2>1, <2>3, GoesFed
  <2> QED BY <1>4, <2>2, <2>3 DEF ActivateCheck
<1>5. CASE ensure_custom_capture_device_registered(t)
  <2>1. thread[t].pc # "unjoined" /\ UNCHANGED <<mediaPlaybackActive, session, captureThread>>
    BY <1>5 DEF ensure_custom_capture_device_registered
  <2>2. CASE Returns(t, "failed")
    BY <1>0, <1>1, <2>1, <2>2, EndsFed DEF Returns
  <2>3. CASE Goes(t, "snapshot")
    BY <1>0, <1>1, <2>1, <2>3, GoesFed
  <2> QED BY <1>5, <2>2, <2>3 DEF ensure_custom_capture_device_registered
<1>6. CASE snapshot_media_playback_session(t)
  <2>1. /\ thread'[t].pc = "close" /\ \A x \in Threads \ {t} : thread'[x] = thread[x]
        /\ thread[t].pc # "unjoined" /\ UNCHANGED <<mediaPlaybackActive, session, captureThread>>
    BY <1>0, <1>6 DEF snapshot_media_playback_session, ThreadStates
  <2> QED BY <1>0, <2>1, KeepsFeeder
<1>7. CASE CustomClose(t)
  BY <1>0, <1>1, <1>7, GoesFed DEF CustomClose
<1>8. CASE CustomOpen(t)
  BY <1>0, <1>1, <1>8, GoesFed DEF CustomOpen
<1>9. CASE CustomFlags(t)
  BY <1>0, <1>1, <1>9, GoesFed DEF CustomFlags
<1>10. CASE ActivateCommit(t)
  <2>1. PICK c \in Captures :
            /\ thread[c].pc = "off" /\ captureThread' = c
            /\ \/ /\ captureThread = NoCapture
                  /\ Ends([thread EXCEPT ![c] = Idle("loop")], t, "ok")
               \/ /\ captureThread # NoCapture
                  /\ thread' = [thread EXCEPT ![c] = Idle("loop"), ![captureThread].stop = TRUE,
                                              ![t].pc = "assign", ![t].joins = captureThread]
                  /\ UNCHANGED call
    BY <1>10 DEF ActivateCommit
  <2>2. /\ mediaPlaybackActive' /\ session'.open /\ c # t
        /\ MutexFree /\ ~mediaPlaybackActive
    BY <1>0, <1>10, <1>p, <2>1
    DEF ActivateCommit, PlacedInv, Placed, SwapPcs, ActivationPcs
  <2>3. Idle("loop").pc = "loop" /\ ~Idle("loop").stop
    BY DEF Idle
  <2>4. CASE captureThread = NoCapture
    <3> DEFINE th == [thread EXCEPT ![c] = Idle("loop")]
    <3>1. th \in [Threads -> ThreadStates]
      BY <1>0, IdleType DEF ThreadPcs
    <3>2. th[c] = Idle("loop") /\ \A x \in Threads \ {c} : th[x] = thread[x]
      BY <1>0
    <3>3. Ends(th, t, "ok")
      BY <2>1, <2>4
    <3> HIDE DEF th
    <3>4. thread'[t].pc # "assign" /\ \A x \in Threads \ {t} : thread'[x] = th[x]
      <4>1. /\ t = "shutdown" => thread'[t].pc \in {"unregister", "finished"}
            /\ t \notin Captures \cup {"shutdown"} => thread'[t].pc = "idle"
            /\ \A x \in Threads \ {t} : thread'[x] = th[x]
        BY <1>0, <1>1, <3>1, <3>3, EndsShape
      <4> QED BY <1>0, <4>1
    <3>5. Feeds(c)'
      BY <2>2, <2>3, <3>2, <3>4 DEF Feeds, FeedingPcs
    <3>6. \A x \in Threads : thread'[x].pc # "assign"
      BY <2>2, <2>3, <3>2, <3>4 DEF MutexFree
    <3> QED BY <2>1, <2>2, <3>5, <3>6 DEF FeederInv, Feeds
  <2>5. CASE captureThread # NoCapture
    <3>1. captureThread \in Captures /\ captureThread # c /\ Ended(captureThread)
      BY <1>0, <2>1, <2>2, <2>5 DEF TypeOK, OwnershipInv, FeederInv
    <3>2. /\ thread'[t].joins = captureThread
          /\ thread'[c] = Idle("loop")
          /\ \A x \in Threads \ {t, c} : thread'[x].pc = thread[x].pc /\ thread'[x].joins = thread[x].joins
      BY <1>0, <1>c, <2>1, <2>2, <2>5, <3>1 DEF ThreadStates
    <3>3. Feeds(c)'
      BY <2>3, <3>2 DEF Feeds, FeedingPcs
    <3>5. \A x \in Threads \ {t} : thread'[x].pc # "assign"
      BY <2>2, <2>3, <3>2 DEF MutexFree
    <3>6. thread'[t].joins \in Captures /\ thread'[t].joins = captureThread
          /\ thread'[captureThread].pc \in EndedPcs /\ thread'[captureThread].joins = NoCapture
      BY <1>c, <2>1, <3>1, <3>2 DEF Ended
    <3> QED BY <2>1, <2>2, <3>3, <3>5, <3>6 DEF FeederInv, Feeds, Ended
  <2> QED BY <2>4, <2>5
<1>11. CASE ActivateAssigned(t)
  BY <1>0, <1>1, <1>11, JoinedFed DEF ActivateAssigned
<1> QED BY <1>2, <1>3, <1>4, <1>5, <1>6, <1>7, <1>8, <1>9, <1>10, <1>11 DEF Activating

\* So does the end of a session.
LEMMA DeactivatingFed ==
    ASSUME PlaybackInv, NEW t \in Threads, Deactivating(t)
    PROVE  FeederInv'
<1> USE DEF PlaybackInv
<1>0. TypeOK /\ CallTypeOK /\ PlacedInv /\ OwnershipInv /\ FeederInv /\ Placed(t, thread[t])
      /\ thread \in [Threads -> ThreadStates]
  BY DEF TypeOK, PlacedInv
<1>1. /\ "join" \in ThreadPcs /\ "restore close" \in ThreadPcs /\ "restore open" \in ThreadPcs
      /\ "restore flags" \in ThreadPcs /\ "restore error" \in ThreadPcs /\ "idle" \in ThreadPcs
      /\ "join" \in JoiningPcs /\ "ok" \in Results /\ "failed" \in Results
  BY DEF ThreadPcs, JoiningPcs, Results
<1>e. /\ "restore close" \in EndedPcs /\ "restore open" \in EndedPcs
      /\ "restore flags" \in EndedPcs /\ "restore error" \in EndedPcs
  BY DEF EndedPcs
<1>f. thread[t].pc \in {"restore close", "restore open", "restore flags", "restore error"} => ~Feeds(t)
  BY DEF Feeds, FeedingPcs
<1>2. CASE DeactivateLock(t)
  <2>1. thread[t].joins = NoCapture /\ thread[t].pc = "lock" /\ MutexFree /\ ~mediaPlaybackActive'
    BY <1>0, <1>2 DEF DeactivateLock, Placed, JoiningPcs
  <2>2. CASE Returns(t, "ok") /\ UNCHANGED captureThread /\ ~mediaPlaybackActive
    <3>1. UNCHANGED mediaPlaybackActive
      BY <1>0, <1>2, <2>2 DEF DeactivateLock, TypeOK
    <3> QED BY <1>0, <1>1, <2>1, <2>2, <3>1, EndsFed DEF Returns
  <2>3. CASE /\ captureThread' = IF captureThread = t THEN t ELSE NoCapture
             /\ thread' = [x \in Threads |-> [Takes(t)[x] EXCEPT !.stop = @ \/ x = captureThread]]
    <3> DEFINE th == Takes(t)
    <3>1. /\ th \in [Threads -> ThreadStates] /\ th[t].pc = "join"
          /\ th[t].joins = IF captureThread = t THEN NoCapture ELSE captureThread
          /\ \A x \in Threads \ {t} : th[x] = thread[x]
      BY <1>0, TakesShape
    <3>2. thread' = [x \in Threads |-> [th[x] EXCEPT !.stop = @ \/ x = captureThread]]
      BY <2>3
    <3> HIDE DEF th
    <3>3. \A x \in Threads : thread'[x].pc = th[x].pc /\ thread'[x].joins = th[x].joins
      BY <3>1, <3>2 DEF ThreadStates
    <3>4. \A x \in Threads : thread'[x].pc # "assign"
      <4>1. thread'[t].pc # "assign" /\ \A x \in Threads \ {t} : thread'[x].pc = thread[x].pc
        BY <3>1, <3>3
      <4> QED BY <2>1, <4>1, NoneAssigns
    <3>5. captureThread' # NoCapture => captureThread' = t /\ Ended(t)'
      BY <2>3, <3>1, <3>3 DEF Ended, EndedPcs
    <3> QED BY <2>1, <3>4, <3>5 DEF FeederInv, Ended
  <2> QED BY <1>2, <2>2, <2>3 DEF DeactivateLock
<1>3. CASE DeactivateJoined(t)
  <2>1. CASE thread' = AfterJoin(thread, t, "restore close")
    BY <1>0, <1>1, <1>e, <1>3, <2>1, JoinedFed DEF DeactivateJoined
  <2>2. CASE Ends(AfterJoin(thread, t, "idle"), t, "ok")
    BY <1>0, <1>1, <1>3, <2>2, JoinedFed DEF DeactivateJoined
  <2> QED BY <1>3, <2>1, <2>2 DEF DeactivateJoined
<1>4. CASE RestoreClose(t)
  <2>1. \E pc \in {"restore open", "restore flags"} : Goes(t, pc)
    BY <1>4 DEF RestoreClose
  <2> QED BY <1>0, <1>1, <1>e, <1>f, <1>4, <2>1, GoesFed DEF RestoreClose
<1>5. CASE RestoreOpen(t)
  BY <1>0, <1>1, <1>e, <1>f, <1>5, GoesFed DEF RestoreOpen
<1>6. CASE RestoreFlags(t)
  <2>1. thread[t].pc = "restore flags" /\ UNCHANGED <<mediaPlaybackActive, session, captureThread>>
    BY <1>6 DEF RestoreFlags
  <2>2. CASE Goes(t, "restore error")
    BY <1>0, <1>1, <1>e, <1>f, <2>1, <2>2, GoesFed
  <2>3. CASE Returns(t, IF t \in Callers /\ call[t] = "activate" THEN "failed" ELSE "ok")
    <3>1. \E result \in Results : Ends(thread, t, result)
      BY <2>3 DEF Returns, Results
    <3> QED BY <1>0, <1>f, <2>1, <3>1, EndsFed
  <2> QED BY <1>6, <2>2, <2>3 DEF RestoreFlags
<1>7. CASE RestoreError(t)
  BY <1>0, <1>1, <1>f, <1>7, EndsFed DEF RestoreError, Returns
<1> QED BY <1>2, <1>3, <1>4, <1>5, <1>6, <1>7 DEF Deactivating

\* A capture thread feeds its session until that is over or it is asked to stop.
LEMMA CapturingFed ==
    ASSUME PlaybackInv, NEW c \in Captures,
           CaptureLoop(c) \/ CaptureProcess(c) \/ \E filled \in BOOLEAN : CaptureFills(c, filled)
    PROVE  FeederInv'
<1> USE DEF PlaybackInv
<1>0. TypeOK /\ FeederInv /\ thread \in [Threads -> ThreadStates]
  BY DEF TypeOK
<1>1. /\ "loop" \in ThreadPcs /\ "fill" \in ThreadPcs /\ "process" \in ThreadPcs
      /\ "lock" \in ThreadPcs /\ "done" \in ThreadPcs
      /\ "loop" \in FeedingPcs /\ "fill" \in FeedingPcs /\ "process" \in FeedingPcs
      /\ "lock" \in FeedingPcs
  BY DEF ThreadPcs, FeedingPcs
<1>2. \A filled \in BOOLEAN : AfterFill(c, filled) \in {"process", "lock", "loop"}
  BY DEF AfterFill
<1>3. CASE CaptureLoop(c)
  <2>1. /\ thread[c].pc = "loop" /\ thread[c].pc \notin EndedPcs
        /\ UNCHANGED <<mediaPlaybackActive, session, captureThread>>
    BY <1>3 DEF CaptureLoop, EndedPcs
  <2>2. CASE Goes(c, "done") /\ (thread[c].stop \/ ~mediaPlaybackActive)
    BY <1>0, <1>1, <2>1, <2>2, GoesFed DEF Feeds
  <2>3. CASE \E pc \in {"loop", "fill", "process", "lock"} : Goes(c, pc)
    BY <1>0, <1>1, <2>1, <2>3, GoesFed
  <2> QED BY <1>2, <1>3, <2>2, <2>3 DEF CaptureLoop
<1>4. CASE CaptureProcess(c)
  <2>1. /\ thread[c].pc = "process" /\ thread[c].pc \notin EndedPcs
        /\ UNCHANGED <<mediaPlaybackActive, session, captureThread>>
    BY <1>4 DEF CaptureProcess, EndedPcs
  <2>2. \E pc \in {"loop", "lock"} : Goes(c, pc)
    BY <1>4 DEF CaptureProcess
  <2> QED BY <1>0, <1>1, <2>1, <2>2, GoesFed
<1>5. ASSUME NEW filled \in BOOLEAN, CaptureFills(c, filled) PROVE FeederInv'
  <2>1. /\ thread[c].pc = "fill" /\ UNCHANGED <<mediaPlaybackActive, session, captureThread>>
    BY <1>5 DEF CaptureFills
  <2>2. AfterFill(c, filled) \in ThreadPcs /\ AfterFill(c, filled) \in FeedingPcs
    BY <1>1, <1>2
  <2>3. /\ thread'[c].pc = AfterFill(c, filled) /\ thread'[c].stop = thread[c].stop
        /\ \A x \in Threads \ {c} : thread'[x] = thread[x]
    BY <1>0, <1>5, FillsShape
  <2>4. thread'[c].pc # "assign" /\ (Feeds(c) => Feeds(c)') /\ ~Ended(c)
    BY <2>1, <2>2, <2>3 DEF Feeds, FeedingPcs, Ended, EndedPcs
  <2> QED BY <1>0, <2>1, <2>3, <2>4, KeepsFeeder
<1> QED BY <1>3, <1>4, <1>5

\* The callback thread and shutdown: a session that is on has its capture thread in
\* the hands of shutdown when that has emptied the field.
LEMMA EndingFed ==
    ASSUME PlaybackInv, Disconnected \/ ShutdownBegin \/ ShutdownUnregister \/ ShutdownJoined
    PROVE  FeederInv'
<1> USE DEF PlaybackInv
<1>0. TypeOK /\ PlacedInv /\ OwnershipInv /\ FeederInv /\ thread \in [Threads -> ThreadStates]
      /\ "callback" \in Threads /\ "shutdown" \in Threads
      /\ "callback" \notin Captures /\ "shutdown" \notin Captures
      /\ "lock" \in ThreadPcs /\ "finished" \in ThreadPcs /\ "unjoined" \in JoiningPcs
  BY PlaybackAssumption DEF TypeOK, ThreadPcs, JoiningPcs
<1>1. CASE Disconnected
  BY <1>0, <1>1, GoesFed DEF Disconnected
<1>2. CASE ShutdownBegin
  BY <1>0, <1>2, GoesFed DEF ShutdownBegin
<1>3. CASE ShutdownUnregister
  <2>1. /\ thread'["shutdown"].pc = "unjoined" /\ thread'["shutdown"].joins = captureThread
        /\ \A x \in Threads \ {"shutdown"} : thread'[x] = thread[x]
        /\ captureThread' = NoCapture /\ thread["shutdown"].pc = "unregister" /\ MutexFree
        /\ UNCHANGED <<mediaPlaybackActive, session>>
    BY <1>0, <1>3 DEF ShutdownUnregister, ThreadStates
  <2>2. \A x \in Threads : thread'[x].pc # "assign"
    <3>1. \A x \in Threads \ {"shutdown"} : thread'[x].pc = thread[x].pc
      BY <2>1
    <3> QED BY <1>0, <2>1, <3>1, NoneAssigns
  <2>3. mediaPlaybackActive =>
          session.open /\ \E c \in Captures : Feeds(c) /\ captureThread = c
    BY <2>1 DEF FeederInv
  <2>4. \A c \in Captures : Feeds(c) => Feeds(c)'
    BY <1>0, <2>1 DEF Feeds
  <2>5. mediaPlaybackActive' =>
          session'.open /\ \E c \in Captures : Feeds(c)' /\ thread'["shutdown"].joins = c
    BY <2>1, <2>3, <2>4
  <2> QED BY <2>1, <2>2, <2>5 DEF FeederInv, Feeds
<1>4. CASE ShutdownJoined
  BY <1>0, <1>4, JoinedFed DEF ShutdownJoined
<1> QED BY <1>1, <1>2, <1>3, <1>4
-----------------------------------------------------------------------------
(* The theorems                                                            *)

\* Every step of the host, of the bridge that calls it and of the threads between
\* keeps the invariant.
LEMMA InvStep == PlaybackInv /\ [Next]_playbackVars => PlaybackInv'
<1> SUFFICES ASSUME PlaybackInv, [Next]_playbackVars PROVE PlaybackInv'
  OBVIOUS
<1>0. TypeOK /\ PlacedInv /\ OwnershipInv /\ FeederInv
  BY DEF PlaybackInv
<1>1. TypeOK'
  BY <1>0, TypeStep
<1>2. PlacedInv' /\ OwnershipInv' /\ FeederInv'
  <2>1. CASE UNCHANGED playbackVars
    BY <1>0, <2>1
    DEF playbackVars, hostVars, PlacedInv, OwnershipInv, FeederInv, Feeds, Ended
  <2>2. ASSUME NEW t \in Callers, Activating(t) PROVE PlacedInv' /\ OwnershipInv' /\ FeederInv'
    BY <2>2, ActivatingPlaced, ActivatingOwned, ActivatingFed
  <2>3. ASSUME NEW t \in Callers, DeactivateBegin(t)
        PROVE  PlacedInv' /\ OwnershipInv' /\ FeederInv'
    <3>1. /\ t \in Threads /\ t \notin Captures /\ "lock" \in ThreadPcs /\ Goes(t, "lock")
          /\ thread[t].pc = "idle"
          /\ UNCHANGED <<mediaPlaybackActive, session, captureThread, call>>
      BY <2>3, PlaybackAssumption DEF DeactivateBegin, ThreadPcs
    <3>2. PlacedInv'
      BY <1>0, <3>1, GoesPlaced DEF MayGo, JoiningPcs, SwapPcs
    <3>3. OwnershipInv'
      BY <1>0, <3>1, GoesOwned
    <3>4. FeederInv'
      BY <1>0, <3>1, GoesFed
    <3> QED BY <3>2, <3>3, <3>4
  <2>4. ASSUME NEW t \in Threads, Deactivating(t) PROVE PlacedInv' /\ OwnershipInv' /\ FeederInv'
    BY <2>4, DeactivatingPlaced, DeactivatingOwned, DeactivatingFed
  <2>5. ASSUME NEW t \in Callers, BridgeCalls(t) PROVE PlacedInv' /\ OwnershipInv' /\ FeederInv'
    <3>1. PlacedInv'
      BY <2>5, BridgeCallsPlaced
    <3>2. UNCHANGED hostVars
      BY <2>5 DEF BridgeCalls
    <3> QED BY <1>0, <3>1, <3>2 DEF hostVars, OwnershipInv, FeederInv, Feeds, Ended
  <2>6. ASSUME NEW c \in Captures,
               CaptureLoop(c) \/ CaptureProcess(c) \/ \E filled \in BOOLEAN : CaptureFills(c, filled)
        PROVE  PlacedInv' /\ OwnershipInv' /\ FeederInv'
    BY <2>6, CapturingPlaced, CapturingOwned, CapturingFed
  <2>7. CASE Disconnected \/ ShutdownBegin \/ ShutdownUnregister \/ ShutdownJoined
    BY <2>7, EndingPlaced, EndingOwned, EndingFed
  <2> QED BY <2>1, <2>2, <2>3, <2>4, <2>5, <2>6, <2>7 DEF Next, HostNext, BridgeFills
<1> QED BY <1>1, <1>2 DEF PlaybackInv

\* The invariant holds, however the threads of the bridge, of TeamSpeak and of the
\* host itself interleave (sdk/plugin_host_backend.cpp:1320-1632).
THEOREM PlaybackInvHolds == Spec => []PlaybackInv
BY InvInit, InvStep, PTL DEF Spec

\* Every capture thread that runs, or has ended and is not joined yet, has exactly
\* one owner: it is neither joined twice nor destroyed while joinable
\* (media_capture_thread_, moved out of the field before each join).
THEOREM CapturesAreOwnedOnce == Spec => []CaptureOwnedOnce
<1>1. PlaybackInv => CaptureOwnedOnce
  BY PlaybackAssumption DEF PlaybackInv, OwnershipInv, CaptureOwnedOnce, Owners
<1> QED BY <1>1, PlaybackInvHolds, PTL

\* A session that is on can be restored and is fed by a capture thread that nobody
\* asked to stop, so that it is over once its samples are.
THEOREM ActiveSessionsAreFed == Spec => []ActiveHasFeeder
<1>1. PlaybackInv => ActiveHasFeeder
  BY PlaybackAssumption
  DEF PlaybackInv, FeederInv, Feeds, FeedingPcs, ActiveHasFeeder
<1> QED BY <1>1, PlaybackInvHolds, PTL

\* No set of threads waits for itself: activate_media_playback assigns
\* media_capture_thread_, and so joins the thread it held, under mutex_, but a thread
\* it can find there is past its last use of the mutex, unless its restore failed.
THEOREM JoinsDoNotDeadlock == Spec => []NoCircularWait
<1>1. PlaybackInv => NoCircularWait
  <2> DEFINE failing == {c \in Captures : thread[c].pc = "restore error"}
             waiting == {t \in Threads \ failing : BlockedOn(t) # {}}
  <2> SUFFICES ASSUME PlaybackInv, NEW circle \in SUBSET waiting, circle # {}
               PROVE  \E t \in circle : BlockedOn(t) \cap circle = {}
    BY DEF NoCircularWait
  <2>1. circle \in SUBSET Threads /\ NoCapture \notin circle
    BY PlaybackAssumption
  <2>2. CASE \A u \in Threads : thread[u].pc # "assign"
    <3>1. PICK t \in circle : thread[t].joins \notin circle
      BY <2>1 DEF PlaybackInv, OwnershipInv
    <3>2. BlockedOn(t) \cap circle = {}
      BY <2>2, <3>1 DEF BlockedOn
    <3> QED BY <3>2
  <2>3. ASSUME NEW u \in Threads, thread[u].pc = "assign"
        PROVE  \E t \in circle : BlockedOn(t) \cap circle = {}
    <3>1. \A v \in Threads : thread[v].pc = "assign" => v = u
      BY <2>3 DEF PlaybackInv, PlacedInv, Placed, ActivationPcs
    <3>2. PICK c \in Captures : thread[u].joins = c /\ Ended(c)
      BY <2>3 DEF PlaybackInv, FeederInv
    <3>3. BlockedOn(u) \subseteq {c}
      BY <2>3, <3>2 DEF BlockedOn, NeedsMutex
    <3>4. thread[c].pc # "restore error" => BlockedOn(c) = {}
      <4>1. thread[c].joins = NoCapture
        BY <3>2 DEF Ended
      <4>2. thread[c].pc # "restore error" => ~NeedsMutex(c)
        BY <3>2 DEF Ended, EndedPcs, NeedsMutex
      <4> QED BY <4>1, <4>2, PlaybackAssumption DEF BlockedOn
    <3>5. c \notin circle
      BY <3>4
    <3>6. CASE u \in circle
      BY <3>3, <3>5, <3>6
    <3>7. CASE u \notin circle
      <4>1. PICK t \in circle : thread[t].joins \notin circle
        BY <2>1 DEF PlaybackInv, OwnershipInv
      <4>2. BlockedOn(t) \cap circle = {}
        BY <3>1, <3>7, <4>1 DEF BlockedOn
      <4> QED BY <4>2
    <3> QED BY <3>6, <3>7
  <2> QED BY <2>2, <2>3
<1> QED BY <1>1, PlaybackInvHolds, PTL

-----------------------------------------------------------------------------
(* At rest.  When no control call is left and the host is shut down, no        *)
(* session and no capture thread is, wherever the calls came from.             *)

\* A caller is at work only inside its call, and a capture thread that is joined
\* by others is, through however many of them, in the end joined by no capture thread.
RestInv ==
    /\ \A t \in Callers : thread[t].pc # "idle" => call[t] \in Requests
    /\ \A S \in SUBSET Captures : S # {} => \E c \in S : \A d \in S : thread[d].joins # c

\* No capture thread joins another one anew.
JoinsLess == \A c \in Captures : thread'[c].joins \in {thread[c].joins, NoCapture}

\* The callers other than t neither move nor get an answer.
OthersStay(t) == \A u \in Callers \ {t} : thread'[u].pc = thread[u].pc /\ call'[u] = call[u]

\* A step of thread t with which no capture thread joins one more, and after which
\* t is idle or inside its call, keeps RestInv.
LEMMA RestKept ==
    ASSUME TypeOK, RestInv, NEW t, JoinsLess, OthersStay(t),
           t \in Callers => thread'[t].pc = "idle" \/ call'[t] \in Requests
    PROVE  RestInv'
<1>1. \A u \in Callers : thread'[u].pc # "idle" => call'[u] \in Requests
  BY DEF RestInv, OthersStay
<1>2. ASSUME NEW S \in SUBSET Captures, S # {}
      PROVE  \E c \in S : \A d \in S : thread'[d].joins # c
  <2>1. PICK c \in S : \A d \in S : thread[d].joins # c
    BY <1>2 DEF RestInv
  <2>2. \A d \in S : thread'[d].joins # c
    BY <2>1, PlaybackAssumption DEF JoinsLess
  <2> QED BY <2>2
<1> QED BY <1>1, <1>2 DEF RestInv

\* Thread t moves on.
LEMMA GoesRest ==
    ASSUME TypeOK, RestInv, NEW t \in Threads, NEW pc \in ThreadPcs, Goes(t, pc), UNCHANGED call,
           thread[t].pc # "idle" \/ t \notin Callers
    PROVE  RestInv'
<1>1. \A x \in Threads : thread'[x].joins = thread[x].joins /\ (x # t => thread'[x] = thread[x])
  BY GoesShape
<1>2. JoinsLess /\ OthersStay(t)
  BY <1>1 DEF JoinsLess, OthersStay
<1>3. t \in Callers => call'[t] \in Requests
  BY DEF RestInv
<1> QED BY ONLY TypeOK, RestInv, <1>2, <1>3, RestKept

\* Thread t, as th has it, returns.
LEMMA EndsRest ==
    ASSUME TypeOK, RestInv, NEW t \in Threads, NEW th \in [Threads -> ThreadStates],
           NEW result \in Results, Ends(th, t, result),
           \A c \in Captures : th[c].joins \in {thread[c].joins, NoCapture},
           \A u \in Callers : th[u].pc = thread[u].pc \/ u = t
    PROVE  RestInv'
<1>1. /\ thread'[t].joins = NoCapture
      /\ t \notin Captures \cup {"shutdown"} => thread'[t].pc = "idle"
      /\ \A x \in Threads \ {t} : thread'[x] = th[x]
  <2>1. CallTypeOK
    BY DEF TypeOK
  <2> QED BY <2>1, EndsShape
<1>2. \A u \in Callers \ {t} : call'[u] = call[u]
  BY DEF Ends, Answer, TypeOK, CallTypeOK
<1>3. JoinsLess /\ OthersStay(t)
  BY <1>1, <1>2 DEF JoinsLess, OthersStay
<1>4. t \in Callers => thread'[t].pc = "idle"
  BY <1>1, PlaybackAssumption
<1> QED BY <1>3, <1>4, RestKept

\* Thread t has joined another one, and goes on or returns.
LEMMA JoinedRest ==
    ASSUME PlaybackInv, RestInv, NEW t \in Threads, NEW pc \in ThreadPcs,
           thread[t].pc # "idle",
           \/ thread' = AfterJoin(thread, t, pc) /\ UNCHANGED call
           \/ \E result \in Results : Ends(AfterJoin(thread, t, pc), t, result)
    PROVE  RestInv'
<1> DEFINE th == AfterJoin(thread, t, pc)
<1>1. /\ TypeOK /\ thread[t].joins # t /\ thread[t].joins \in Captures \cup {NoCapture}
  BY JoinsAnother DEF PlaybackInv, TypeOK, ThreadStates
<1>2. /\ th \in [Threads -> ThreadStates] /\ th[t].joins = NoCapture
      /\ \A x \in Threads \ {t} : th[x] = IF x = thread[t].joins THEN Idle("off") ELSE thread[x]
  BY <1>1, AfterJoinShape
<1> HIDE DEF th
<1>3. \A c \in Captures : th[c].joins \in {thread[c].joins, NoCapture}
  BY <1>2 DEF Idle
<1>4. \A u \in Callers \ {t} : th[u] = thread[u]
  BY <1>1, <1>2, PlaybackAssumption
<1>5. CASE thread' = th /\ UNCHANGED call
  <2>1. JoinsLess /\ OthersStay(t)
    BY <1>3, <1>4, <1>5 DEF JoinsLess, OthersStay
  <2>2. t \in Callers => call'[t] \in Requests
    BY <1>5 DEF RestInv
  <2> QED BY <1>1, <2>1, <2>2, RestKept
<1>6. CASE \E result \in Results : Ends(th, t, result)
  BY <1>1, <1>2, <1>3, <1>4, <1>6, EndsRest
<1> QED BY <1>5, <1>6 DEF th

\* A capture thread that ends a session may join the capture thread of the next
\* one, which joins nobody: whoever joined the former last is first again.
LEMMA TakesRest ==
    ASSUME PlaybackInv, RestInv, NEW t \in Threads, UNCHANGED call,
           captureThread # t, thread[t].joins = NoCapture, thread'[t].joins = captureThread,
           \A x \in Threads \ {t} : thread'[x].joins = thread[x].joins /\ thread'[x].pc = thread[x].pc,
           t \in Callers => call[t] \in Requests
    PROVE  RestInv'
<1>1. captureThread # NoCapture => captureThread \in Captures /\ thread[captureThread].joins = NoCapture
  BY DEF PlaybackInv, TypeOK, OwnershipInv
<1>2. \A u \in Callers : thread'[u].pc # "idle" => call'[u] \in Requests
  BY DEF RestInv
<1>3. ASSUME NEW S \in SUBSET Captures, S # {}
      PROVE  \E c \in S : \A d \in S : thread'[d].joins # c
  <2>1. CASE captureThread \notin S
    <3>1. PICK c \in S : \A d \in S : thread[d].joins # c
      BY <1>3 DEF RestInv
    <3> QED BY <2>1, <3>1
  <2>2. CASE S = {captureThread}
    <3>1. thread'[captureThread].joins # captureThread
      BY <1>1, <1>3, <2>2, PlaybackAssumption
    <3> QED BY <2>2, <3>1
  <2>3. CASE captureThread \in S /\ S # {captureThread}
    <3>1. S \ {captureThread} \in SUBSET Captures /\ S \ {captureThread} # {}
      BY <1>3, <2>3
    <3>2. PICK c \in S \ {captureThread} : \A d \in S \ {captureThread} : thread[d].joins # c
      BY <3>1 DEF RestInv
    <3>3. \A d \in S : thread'[d].joins # c
      BY <1>1, <2>3, <3>2, PlaybackAssumption
    <3> QED BY <3>2, <3>3
  <2> QED BY <2>1, <2>2, <2>3
<1> QED BY <1>2, <1>3 DEF RestInv

\* An activation keeps RestInv.
LEMMA ActivatingRest ==
    ASSUME PlaybackInv, RestInv, NEW t \in Callers, Activating(t)
    PROVE  RestInv'
<1>0. /\ TypeOK /\ CallTypeOK /\ t \in Threads /\ thread \in [Threads -> ThreadStates]
      /\ t \notin Captures
  BY PlaybackAssumption DEF PlaybackInv, TypeOK
<1>1. /\ "stale" \in ThreadPcs /\ "check" \in ThreadPcs /\ "register" \in ThreadPcs
      /\ "snapshot" \in ThreadPcs /\ "open" \in ThreadPcs /\ "flags" \in ThreadPcs
      /\ "commit" \in ThreadPcs /\ "restore close" \in ThreadPcs /\ "idle" \in ThreadPcs
  BY DEF ThreadPcs
<1>2. ASSUME \E result \in Results : Ends(thread, t, result) PROVE RestInv'
  BY <1>0, <1>2, EndsRest
<1>3. CASE ActivateBegin(t)
  <2>1. call[t] \in Requests /\ UNCHANGED call
    BY <1>3 DEF ActivateBegin, Requests
  <2>2. \A x \in Threads \ {t} : thread'[x] = thread[x]
    BY <1>0, <1>3 DEF ActivateBegin, Goes
  <2>3. JoinsLess /\ OthersStay(t)
    BY <1>0, <2>1, <2>2 DEF JoinsLess, OthersStay
  <2> QED BY <1>0, <2>1, <2>3, RestKept
<1>4. CASE ActivateJoined(t)
  BY <1>0, <1>1, <1>4, JoinedRest DEF ActivateJoined
<1>5. CASE ActivateCheck(t)
  <2>1. CASE Returns(t, "failed") \/ Returns(t, "ok")
    BY <1>2, <2>1 DEF Returns, Results
  <2>2. CASE Goes(t, "register") /\ UNCHANGED call
    BY <1>0, <1>1, <1>5, <2>2, GoesRest DEF ActivateCheck
  <2> QED BY <1>5, <2>1, <2>2 DEF ActivateCheck
<1>6. CASE ensure_custom_capture_device_registered(t)
  <2>1. CASE Returns(t, "failed")
    BY <1>2, <2>1 DEF Returns, Results
  <2>2. CASE Goes(t, "snapshot") /\ UNCHANGED call
    BY <1>0, <1>1, <1>6, <2>2, GoesRest DEF ensure_custom_capture_device_registered
  <2> QED BY <1>6, <2>1, <2>2 DEF ensure_custom_capture_device_registered
<1>7. CASE snapshot_media_playback_session(t)
  <2>1. \A x \in Threads \ {t} : thread'[x] = thread[x]
    BY <1>0, <1>7 DEF snapshot_media_playback_session
  <2>2. UNCHANGED call /\ call[t] \in Requests
    BY <1>7 DEF snapshot_media_playback_session, RestInv
  <2>3. JoinsLess /\ OthersStay(t)
    BY <1>0, <2>1, <2>2 DEF JoinsLess, OthersStay
  <2> QED BY <1>0, <2>2, <2>3, RestKept
<1>8. CASE CustomClose(t)
  BY <1>0, <1>1, <1>8, GoesRest DEF CustomClose
<1>9. CASE CustomOpen(t)
  BY <1>0, <1>1, <1>9, GoesRest DEF CustomOpen
<1>10. CASE CustomFlags(t)
  BY <1>0, <1>1, <1>10, GoesRest DEF CustomFlags
<1>11. CASE ActivateCommit(t)
  <2>1. PICK c \in Captures :
            \/ Ends([thread EXCEPT ![c] = Idle("loop")], t, "ok")
            \/ /\ captureThread # NoCapture
               /\ thread' = [thread EXCEPT ![c] = Idle("loop"), ![captureThread].stop = TRUE,
                                           ![t].pc = "assign", ![t].joins = captureThread]
               /\ UNCHANGED call
    BY <1>11 DEF ActivateCommit
  <2>2. Idle("loop").joins = NoCapture
    BY DEF Idle
  <2>3. CASE Ends([thread EXCEPT ![c] = Idle("loop")], t, "ok")
    <3> DEFINE th == [thread EXCEPT ![c] = Idle("loop")]
    <3>1. th \in [Threads -> ThreadStates]
      BY <1>0, IdleType DEF ThreadPcs
    <3>2. th[c] = Idle("loop") /\ \A x \in Threads \ {c} : th[x] = thread[x]
      BY <1>0
    <3>3. Ends(th, t, "ok") /\ "ok" \in Results
      BY <2>3 DEF Results
    <3> HIDE DEF th
    <3>4. \A d \in Captures : th[d].joins \in {thread[d].joins, NoCapture}
      BY <2>2, <3>2
    <3>5. \A u \in Callers : th[u].pc = thread[u].pc
      BY <3>2, PlaybackAssumption
    <3> QED BY <1>0, <3>1, <3>3, <3>4, <3>5, EndsRest
  <2>4. CASE /\ captureThread # NoCapture
             /\ thread' = [thread EXCEPT ![c] = Idle("loop"), ![captureThread].stop = TRUE,
                                         ![t].pc = "assign", ![t].joins = captureThread]
             /\ UNCHANGED call
    <3>1. captureThread \in Captures
      BY <1>0, <2>4 DEF TypeOK
    <3>2. \A x \in Threads \ {t} :
            /\ thread'[x].joins = IF x = c THEN NoCapture ELSE thread[x].joins
            /\ x \notin Captures => thread'[x].pc = thread[x].pc
      BY <1>0, <2>2, <2>4, <3>1 DEF ThreadStates, Idle
    <3>3. JoinsLess /\ OthersStay(t)
      BY <1>0, <2>4, <3>2, PlaybackAssumption DEF JoinsLess, OthersStay
    <3>4. call[t] \in Requests
      BY <1>11 DEF ActivateCommit, RestInv
    <3> QED BY <1>0, <2>4, <3>3, <3>4, RestKept
  <2> QED BY <2>1, <2>3, <2>4
<1>12. CASE ActivateAssigned(t)
  <2>1. "ok" \in Results
    BY DEF Results
  <2> QED BY <1>0, <1>1, <1>12, <2>1, JoinedRest DEF ActivateAssigned
<1> QED
  BY <1>3, <1>4, <1>5, <1>6, <1>7, <1>8, <1>9, <1>10, <1>11, <1>12 DEF Activating

\* So does the end of a session.
LEMMA DeactivatingRest ==
    ASSUME PlaybackInv, RestInv, NEW t \in Threads, Deactivating(t)
    PROVE  RestInv'
<1>0. TypeOK /\ CallTypeOK /\ thread \in [Threads -> ThreadStates] /\ Placed(t, thread[t])
  BY DEF PlaybackInv, TypeOK, PlacedInv
<1>1. /\ "restore close" \in ThreadPcs /\ "restore open" \in ThreadPcs
      /\ "restore flags" \in ThreadPcs /\ "restore error" \in ThreadPcs /\ "idle" \in ThreadPcs
  BY DEF ThreadPcs
<1>2. ASSUME \E result \in Results : Ends(thread, t, result) PROVE RestInv'
  BY <1>0, <1>2, EndsRest
<1>3. CASE DeactivateLock(t)
  <2>1. CASE Returns(t, "ok")
    BY <1>2, <2>1 DEF Returns, Results
  <2>2. CASE /\ thread' = [x \in Threads |-> [Takes(t)[x] EXCEPT !.stop = @ \/ x = captureThread]]
             /\ UNCHANGED call
    <3>1. /\ thread'[t].joins = IF captureThread = t THEN NoCapture ELSE captureThread
          /\ \A x \in Threads \ {t} :
                thread'[x].joins = thread[x].joins /\ thread'[x].pc = thread[x].pc
      BY <1>0, <2>2, TakesShape DEF ThreadStates
    <3>2. thread[t].joins = NoCapture /\ (t \in Callers => call[t] \in Requests)
      BY <1>0, <1>3 DEF DeactivateLock, Placed, JoiningPcs, RestInv
    <3>3. CASE captureThread = t
      <4>1. JoinsLess /\ OthersStay(t)
        BY <2>2, <3>1, <3>3 DEF JoinsLess, OthersStay
      <4> QED BY <1>0, <2>2, <3>2, <4>1, RestKept
    <3>4. CASE captureThread # t
      BY <2>2, <3>1, <3>2, <3>4, TakesRest
    <3> QED BY <3>3, <3>4
  <2> QED BY <1>3, <2>1, <2>2 DEF DeactivateLock
<1>4. CASE DeactivateJoined(t)
  <2>1. "ok" \in Results
    BY DEF Results
  <2> QED BY <1>0, <1>1, <1>4, <2>1, JoinedRest DEF DeactivateJoined
<1>5. CASE RestoreClose(t)
  BY <1>0, <1>1, <1>5, GoesRest DEF RestoreClose
<1>6. CASE RestoreOpen(t)
  BY <1>0, <1>1, <1>6, GoesRest DEF RestoreOpen
<1>7. CASE RestoreFlags(t)
  <2>1. CASE Goes(t, "restore error") /\ UNCHANGED call
    BY <1>0, <1>1, <1>7, <2>1, GoesRest DEF RestoreFlags
  <2>2. CASE Returns(t, IF t \in Callers /\ call[t] = "activate" THEN "failed" ELSE "ok")
    BY <1>2, <2>2 DEF Returns, Results
  <2> QED BY <1>7, <2>1, <2>2 DEF RestoreFlags
<1>8. CASE RestoreError(t)
  BY <1>2, <1>8 DEF RestoreError, Returns, Results
<1> QED BY <1>3, <1>4, <1>5, <1>6, <1>7, <1>8 DEF Deactivating

\* So does every step of the host, of the bridge that calls it and of the threads
\* between.
LEMMA RestStep == PlaybackInv /\ RestInv /\ [Next]_playbackVars => RestInv'
<1> SUFFICES ASSUME PlaybackInv, RestInv, [Next]_playbackVars PROVE RestInv'
  OBVIOUS
<1>0. TypeOK /\ CallTypeOK /\ thread \in [Threads -> ThreadStates]
  BY DEF PlaybackInv, TypeOK
<1>1. \A pc \in {"lock", "loop", "fill", "process", "done", "finished", "unjoined"} : pc \in ThreadPcs
  BY DEF ThreadPcs
<1>2. CASE UNCHANGED playbackVars
  BY <1>2 DEF playbackVars, hostVars, RestInv
<1>3. ASSUME NEW t \in Callers, Activating(t) PROVE RestInv'
  BY <1>3, ActivatingRest
<1>4. ASSUME NEW t \in Callers, DeactivateBegin(t) PROVE RestInv'
  <2>1. \A x \in Threads : thread'[x].joins = thread[x].joins /\ (x # t => thread'[x] = thread[x])
    BY <1>0, <1>1, <1>4, GoesShape DEF DeactivateBegin
  <2>2. call[t] \in Requests /\ UNCHANGED call
    BY <1>4 DEF DeactivateBegin, Requests
  <2>3. JoinsLess /\ OthersStay(t)
    BY <2>1, <2>2 DEF JoinsLess, OthersStay
  <2> QED BY <1>0, <2>2, <2>3, RestKept
<1>5. ASSUME NEW t \in Threads, Deactivating(t) PROVE RestInv'
  BY <1>5, DeactivatingRest
<1>6. ASSUME NEW t \in Callers, BridgeCalls(t) PROVE RestInv'
  <2>1. UNCHANGED thread /\ \A u \in Callers : call[u] \in Requests => call'[u] = call[u]
    BY <1>0, <1>6 DEF BridgeCalls, hostVars, Invoke, Consume, Requests, Results, CallTypeOK
  <2> QED BY <2>1 DEF RestInv
<1>7. ASSUME NEW c \in Captures,
             CaptureLoop(c) \/ CaptureProcess(c) \/ \E filled \in BOOLEAN : CaptureFills(c, filled)
      PROVE  RestInv'
  <2>1. c \in Threads /\ c \notin Callers /\ UNCHANGED call
    BY <1>7, PlaybackAssumption DEF CaptureLoop, CaptureProcess, CaptureFills
  <2>2. CASE CaptureLoop(c) \/ CaptureProcess(c)
    <3>1. \E pc \in ThreadPcs : Goes(c, pc)
      BY <1>1, <2>2 DEF CaptureLoop, CaptureProcess, AfterFill
    <3> QED BY <1>0, <2>1, <3>1, GoesRest
  <2>3. CASE \E filled \in BOOLEAN : CaptureFills(c, filled)
    <3>1. thread'[c].joins = thread[c].joins /\ \A x \in Threads \ {c} : thread'[x] = thread[x]
      BY <1>0, <2>3, FillsShape
    <3>2. JoinsLess /\ OthersStay(c)
      BY <2>1, <3>1 DEF JoinsLess, OthersStay
    <3> QED BY <1>0, <2>1, <3>2, RestKept
  <2> QED BY <1>7, <2>2, <2>3
<1>8. CASE Disconnected \/ ShutdownBegin
  <2>1. /\ "callback" \in Threads /\ "callback" \notin Callers
        /\ "shutdown" \in Threads /\ "shutdown" \notin Callers /\ UNCHANGED call
    BY <1>8, PlaybackAssumption DEF Disconnected, ShutdownBegin
  <2> QED BY <1>0, <1>1, <1>8, <2>1, GoesRest DEF Disconnected, ShutdownBegin
<1>9. CASE ShutdownUnregister
  <2>1. "shutdown" \notin Captures \cup Callers
        /\ UNCHANGED call /\ \A x \in Threads \ {"shutdown"} : thread'[x] = thread[x]
    BY <1>0, <1>9, PlaybackAssumption DEF ShutdownUnregister
  <2>2. JoinsLess /\ OthersStay("shutdown")
    BY <2>1 DEF JoinsLess, OthersStay
  <2> QED BY <1>0, <2>1, <2>2, RestKept
<1>10. CASE ShutdownJoined
  BY <1>0, <1>1, <1>10, JoinedRest DEF ShutdownJoined
<1> QED BY <1>2, <1>3, <1>4, <1>5, <1>6, <1>7, <1>8, <1>9, <1>10 DEF Next, HostNext, BridgeFills

\* Before anybody calls, nobody is at work and nobody joins.
LEMMA RestInit == Init => RestInv
<1> SUFFICES ASSUME Init PROVE RestInv
  OBVIOUS
<1>1. \A x \in Threads : thread[x].joins = NoCapture /\ (x \notin Captures => thread[x].pc = "idle")
  BY DEF Init, Idle
<1> QED BY <1>1, PlaybackAssumption DEF RestInv

\* Whoever joins capture threads is at work: with no call left and nothing in the
\* field, no capture thread runs or waits to be joined, and no session is on.
LEMMA NobodyLeft ==
    ASSUME PlaybackInv, RestInv, captureThread = NoCapture,
           \A t \in Callers : call[t] \notin Requests,
           thread["callback"].pc = "idle", thread["shutdown"].pc = "finished"
    PROVE  ~mediaPlaybackActive /\ \A c \in Captures : thread[c].pc = "off"
<1>1. \A t \in HostThreads : thread[t].joins = NoCapture
  BY DEF PlaybackInv, PlacedInv, Placed, JoiningPcs, RestInv
<1> DEFINE S == {c \in Captures : thread[c].pc # "off"}
<1>2. ASSUME S # {} PROVE FALSE
  <2>1. S \in SUBSET Captures
    OBVIOUS
  <2>2. PICK c \in S : \A d \in S : thread[d].joins # c
    BY <1>2, <2>1 DEF RestInv
  <2>3. PICK t \in Threads : thread[t].joins = c
    BY <2>2, PlaybackAssumption DEF PlaybackInv, OwnershipInv
  <2>4. t \in Captures
    BY <1>1, <2>2, <2>3, PlaybackAssumption
  <2>5. thread[t].pc \in JoiningPcs
    BY <2>2, <2>3, PlaybackAssumption DEF PlaybackInv, PlacedInv, Placed
  <2>6. t \in S
    BY <2>4, <2>5 DEF JoiningPcs
  <2> QED BY <2>2, <2>3, <2>6
<1>3. \A c \in Captures : thread[c].pc = "off"
  BY <1>2
<1> QED BY <1>3 DEF PlaybackInv, FeederInv, Feeds, FeedingPcs

\* The end of a session moves the thread that runs it, and capture threads.
LEMMA DeactivatingMoves ==
    ASSUME PlaybackInv, NEW u \in Threads, Deactivating(u), NEW x \in HostThreads \ {u}
    PROVE  thread'[x].pc = thread[x].pc /\ (x \in Callers => call'[x] = call[x])
<1>0. /\ TypeOK /\ CallTypeOK /\ thread \in [Threads -> ThreadStates] /\ x \notin Captures
      /\ thread[u].joins # u /\ thread[u].joins \in Captures \cup {NoCapture}
      /\ x \in Threads \ {u} /\ x # thread[u].joins
  BY JoinsAnother, PlaybackAssumption DEF PlaybackInv, TypeOK, ThreadStates
<1>1. /\ "restore close" \in ThreadPcs /\ "restore open" \in ThreadPcs
      /\ "restore flags" \in ThreadPcs /\ "restore error" \in ThreadPcs /\ "idle" \in ThreadPcs
  BY DEF ThreadPcs
<1>2. ASSUME NEW th \in [Threads -> ThreadStates], th[x] = thread[x],
             \E result \in Results : Ends(th, u, result)
      PROVE  thread'[x].pc = thread[x].pc /\ (x \in Callers => call'[x] = call[x])
  <2>1. thread'[x] = th[x]
    BY <1>0, <1>2, EndsShape
  <2>2. x \in Callers => call'[x] = call[x]
    BY <1>0, <1>2 DEF Ends, Answer, CallTypeOK
  <2> QED BY <1>2, <2>1, <2>2
<1>3. ASSUME NEW pc \in ThreadPcs, Goes(u, pc), UNCHANGED call
      PROVE  thread'[x].pc = thread[x].pc /\ (x \in Callers => call'[x] = call[x])
  BY <1>0, <1>3, GoesShape
<1>4. \A pc \in ThreadPcs : /\ AfterJoin(thread, u, pc) \in [Threads -> ThreadStates]
                            /\ AfterJoin(thread, u, pc)[x] = thread[x]
  BY <1>0, AfterJoinShape
<1>5. CASE DeactivateLock(u)
  <2>1. CASE Returns(u, "ok")
    BY <1>0, <1>2, <2>1 DEF Returns, Results
  <2>2. CASE /\ thread' = [y \in Threads |-> [Takes(u)[y] EXCEPT !.stop = @ \/ y = captureThread]]
             /\ UNCHANGED call
    BY <1>0, <2>2, TakesShape DEF ThreadStates
  <2> QED BY <1>5, <2>1, <2>2 DEF DeactivateLock
<1>6. CASE DeactivateJoined(u)
  <2>1. CASE thread' = AfterJoin(thread, u, "restore close") /\ UNCHANGED call
    BY <1>1, <1>4, <2>1
  <2>2. CASE Ends(AfterJoin(thread, u, "idle"), u, "ok")
    BY <1>1, <1>2, <1>4, <2>2 DEF Results
  <2> QED BY <1>6, <2>1, <2>2 DEF DeactivateJoined
<1>7. CASE RestoreClose(u)
  BY <1>1, <1>3, <1>7 DEF RestoreClose
<1>8. CASE RestoreOpen(u)
  BY <1>1, <1>3, <1>8 DEF RestoreOpen
<1>9. CASE RestoreFlags(u)
  BY <1>0, <1>1, <1>2, <1>3, <1>9 DEF RestoreFlags, Returns, Results
<1>10. CASE RestoreError(u)
  BY <1>0, <1>2, <1>10 DEF RestoreError, Returns, Results
<1> QED BY <1>5, <1>6, <1>7, <1>8, <1>9, <1>10 DEF Deactivating

\* A session that is being ended stays out of the field, which only its own capture
\* thread is left in.
LEMMA DeactivatingField ==
    ASSUME PlaybackInv, NEW u \in Threads, Deactivating(u)
    PROVE  /\ captureThread = NoCapture => captureThread' = NoCapture
           /\ u \notin Captures /\ thread[u].pc = "lock" => captureThread' = NoCapture
<1>1. captureThread = u => u \in Captures
  BY PlaybackAssumption DEF PlaybackInv, TypeOK
<1>2. u # NoCapture
  BY PlaybackAssumption
<1> QED
  BY <1>1, <1>2 DEF Deactivating, DeactivateLock, DeactivateJoined, RestoreClose, RestoreOpen,
                    RestoreFlags, RestoreError

\* An activation moves the thread that runs it, and capture threads.
LEMMA ActivatingMoves ==
    ASSUME PlaybackInv, NEW u \in Callers, Activating(u), NEW x \in HostThreads \ {u}
    PROVE  thread'[x].pc = thread[x].pc
<1>0. /\ TypeOK /\ CallTypeOK /\ thread \in [Threads -> ThreadStates] /\ x \notin Captures
      /\ thread[u].joins # u /\ thread[u].joins \in Captures \cup {NoCapture}
      /\ x \in Threads \ {u} /\ x # thread[u].joins /\ u \in Threads /\ x # captureThread
  BY JoinsAnother, PlaybackAssumption DEF PlaybackInv, TypeOK, ThreadStates
<1>1. "check" \in ThreadPcs /\ "idle" \in ThreadPcs
  BY DEF ThreadPcs
<1>2. ASSUME NEW th \in [Threads -> ThreadStates], th[x] = thread[x],
             \E result \in Results : Ends(th, u, result)
      PROVE  thread'[x].pc = thread[x].pc
  BY <1>0, <1>2, EndsShape
<1>3. \A pc \in ThreadPcs : /\ AfterJoin(thread, u, pc) \in [Threads -> ThreadStates]
                            /\ AfterJoin(thread, u, pc)[x] = thread[x]
  BY <1>0, AfterJoinShape
<1>4. ASSUME NEW pc, Goes(u, pc) PROVE thread'[x].pc = thread[x].pc
  BY <1>0, <1>4 DEF Goes
<1>5. CASE ActivateBegin(u)
  BY <1>0, <1>4, <1>5 DEF ActivateBegin
<1>6. CASE ActivateJoined(u)
  BY <1>1, <1>3, <1>6 DEF ActivateJoined
<1>7. CASE ActivateCheck(u) \/ ensure_custom_capture_device_registered(u)
  BY <1>0, <1>2, <1>4, <1>7
  DEF ActivateCheck, ensure_custom_capture_device_registered, Returns, Results
<1>8. CASE snapshot_media_playback_session(u)
  BY <1>0, <1>8 DEF snapshot_media_playback_session
<1>9. CASE CustomClose(u) \/ CustomOpen(u) \/ CustomFlags(u)
  BY <1>4, <1>9 DEF CustomClose, CustomOpen, CustomFlags
<1>10. CASE ActivateCommit(u)
  <2>1. PICK c \in Captures :
            \/ Ends([thread EXCEPT ![c] = Idle("loop")], u, "ok")
            \/ thread' = [thread EXCEPT ![c] = Idle("loop"), ![captureThread].stop = TRUE,
                                        ![u].pc = "assign", ![u].joins = captureThread]
    BY <1>10 DEF ActivateCommit
  <2>2. x # c
    BY <1>0
  <2>3. CASE Ends([thread EXCEPT ![c] = Idle("loop")], u, "ok")
    <3>1. [thread EXCEPT ![c] = Idle("loop")] \in [Threads -> ThreadStates]
      BY <1>0, IdleType DEF ThreadPcs
    <3>2. [thread EXCEPT ![c] = Idle("loop")][x] = thread[x]
      BY <1>0, <2>2
    <3> QED BY <1>2, <2>3, <3>1, <3>2 DEF Results
  <2>4. CASE thread' = [thread EXCEPT ![c] = Idle("loop"), ![captureThread].stop = TRUE,
                                      ![u].pc = "assign", ![u].joins = captureThread]
    BY <1>0, <2>2, <2>4
  <2> QED BY <2>1, <2>3, <2>4
<1>11. CASE ActivateAssigned(u)
  BY <1>1, <1>2, <1>3, <1>11 DEF ActivateAssigned, Results
<1> QED BY <1>5, <1>6, <1>7, <1>8, <1>9, <1>10, <1>11 DEF Activating, ActivateCommit

\* What is so once the host is shut down and the bridge's reader has ended, of a thread
\* t of the bridge that ends what session there may be: the field is empty from then on.
LEMMA WindingDown ==
    ASSUME PlaybackInv, RestInv, HostNext, call["reader"] \notin Requests, NEW t \in Callers
    PROVE  /\ captureThread = NoCapture => captureThread' = NoCapture
           /\ \/ thread'[t].pc = thread[t].pc /\ call'[t] = call[t]
              \/ thread[t].pc = "idle" /\ thread'[t].pc = "lock" /\ call'[t] = call[t]
              \/ thread[t].pc = "lock" /\ captureThread' = NoCapture
              \/ thread[t].pc \notin {"idle", "lock"}
<1>0. /\ TypeOK /\ CallTypeOK /\ PlacedInv /\ thread \in [Threads -> ThreadStates]
      /\ t \in HostThreads /\ t # "shutdown" /\ t # "callback" /\ t \notin Captures
  BY PlaybackAssumption DEF PlaybackInv, TypeOK
<1>1. ASSUME NEW u \in Callers, Activating(u) PROVE FALSE
  <2>1. u = "reader"
    BY <1>0, <1>1 DEF Activating, ActivateBegin, ActivateJoined, ActivateCheck,
       ensure_custom_capture_device_registered, snapshot_media_playback_session, CustomClose,
       CustomOpen, CustomFlags, ActivateCommit, ActivateAssigned, PlacedInv, Placed, ActivationPcs
  <2>2. call[u] = "activate" \/ thread[u].pc # "idle"
    BY <1>1 DEF Activating, ActivateBegin, ActivateJoined, ActivateCheck,
       ensure_custom_capture_device_registered, snapshot_media_playback_session, CustomClose,
       CustomOpen, CustomFlags, ActivateCommit, ActivateAssigned
  <2> QED BY <2>1, <2>2 DEF RestInv, Requests
<1>2. ASSUME NEW u \in Callers, DeactivateBegin(u)
      PROVE  /\ captureThread = NoCapture => captureThread' = NoCapture
             /\ \/ thread'[t].pc = thread[t].pc /\ call'[t] = call[t]
                \/ thread[t].pc = "idle" /\ thread'[t].pc = "lock" /\ call'[t] = call[t]
  <2>1. "lock" \in ThreadPcs
    BY DEF ThreadPcs
  <2> QED BY <1>0, <1>2, <2>1, GoesShape DEF DeactivateBegin
<1>3. ASSUME NEW u \in Threads, Deactivating(u)
      PROVE  /\ captureThread = NoCapture => captureThread' = NoCapture
             /\ \/ thread'[t].pc = thread[t].pc /\ call'[t] = call[t]
                \/ thread[t].pc = "lock" /\ captureThread' = NoCapture
                \/ thread[t].pc \notin {"idle", "lock"}
  <2>1. thread[u].pc \notin {"idle", "finished"}
    BY <1>3 DEF Deactivating, DeactivateLock, DeactivateJoined, RestoreClose, RestoreOpen,
                RestoreFlags, RestoreError
  <2>2. u = t \/ (thread'[t].pc = thread[t].pc /\ call'[t] = call[t])
    BY <1>0, <1>3, DeactivatingMoves
  <2> QED BY <1>0, <1>3, <2>1, <2>2, DeactivatingField
<1>4. ASSUME NEW c \in Captures, CaptureLoop(c) \/ CaptureProcess(c)
      PROVE  /\ UNCHANGED <<captureThread, call>>
             /\ \A x \in HostThreads : thread'[x].pc = thread[x].pc
  BY <1>0, <1>4, PlaybackAssumption DEF CaptureLoop, CaptureProcess, Goes
<1>5. CASE Disconnected
  <2>1. \A x \in Threads \ {"callback"} : thread'[x] = thread[x]
    BY <1>0, <1>5 DEF Disconnected, Goes
  <2> QED BY <1>0, <1>5, <2>1 DEF Disconnected
<1>6. CASE ShutdownBegin \/ ShutdownUnregister \/ ShutdownJoined
  <2>1. UNCHANGED call /\ (captureThread' = captureThread \/ captureThread' = NoCapture)
    BY <1>6 DEF ShutdownBegin, ShutdownUnregister, ShutdownJoined
  <2>2. thread'[t] = thread[t]
    <3>1. CASE ShutdownBegin \/ ShutdownUnregister
      BY <1>0, <3>1 DEF ShutdownBegin, ShutdownUnregister, Goes
    <3>2. CASE ShutdownJoined
      <4>1. "finished" \in ThreadPcs /\ thread["shutdown"].joins \in Captures \cup {NoCapture}
            /\ thread["shutdown"].joins # "shutdown"
        BY <1>0, JoinsAnother DEF ThreadPcs, ThreadStates, PlaybackInv
      <4> QED BY <1>0, <3>2, <4>1, AfterJoinShape, PlaybackAssumption DEF ShutdownJoined
    <3> QED BY <1>6, <3>1, <3>2
  <2> QED BY <2>1, <2>2
<1> QED BY <1>0, <1>1, <1>2, <1>3, <1>4, <1>5, <1>6 DEF HostNext

\* A host that is shut down stays so.
LEMMA FinishedStays ==
    ASSUME PlaybackInv, HostNext, thread["shutdown"].pc = "finished"
    PROVE  thread'["shutdown"].pc = "finished"
<1>0. /\ thread \in [Threads -> ThreadStates]
      /\ "shutdown" \in HostThreads /\ "shutdown" \notin Captures \cup Callers
  BY PlaybackAssumption DEF PlaybackInv, TypeOK
<1>1. ASSUME NEW u \in Callers, Activating(u) PROVE thread'["shutdown"].pc = "finished"
  <2>1. "shutdown" \in HostThreads \ {u}
    BY <1>0
  <2> QED BY <1>1, <2>1, ActivatingMoves
<1>2. ASSUME NEW u \in Threads, Deactivating(u) PROVE thread'["shutdown"].pc = "finished"
  <2>1. thread[u].pc # "finished"
    BY <1>2 DEF Deactivating, DeactivateLock, DeactivateJoined, RestoreClose, RestoreOpen,
                RestoreFlags, RestoreError
  <2>2. "shutdown" \in HostThreads \ {u}
    BY <1>0, <2>1
  <2> QED BY <1>2, <2>2, DeactivatingMoves
<1>3. ASSUME NEW u \in Callers \cup Captures \cup {"callback"}, NEW pc, Goes(u, pc)
      PROVE  thread'["shutdown"].pc = "finished"
  BY <1>0, <1>3 DEF Goes
<1> QED
  BY <1>1, <1>2, <1>3
  DEF HostNext, DeactivateBegin, CaptureLoop, CaptureProcess, Disconnected, ShutdownBegin,
      ShutdownUnregister, ShutdownJoined

\* Without a disconnect TeamSpeak's callback ends no session.
LEMMA CallbackIdles ==
    ASSUME PlaybackInv, [Next]_playbackVars, "disconnect" \notin Happens,
           thread["callback"].pc = "idle"
    PROVE  thread'["callback"].pc = "idle"
<1>0. /\ TypeOK /\ thread \in [Threads -> ThreadStates]
      /\ "callback" \in HostThreads /\ "callback" \notin Captures \cup Callers
  BY PlaybackAssumption DEF PlaybackInv, TypeOK
<1>1. ASSUME NEW u \in Callers, Activating(u) PROVE thread'["callback"].pc = "idle"
  <2>1. "callback" \in HostThreads \ {u}
    BY <1>0
  <2> QED BY <1>1, <2>1, ActivatingMoves
<1>2. ASSUME NEW u \in Threads, Deactivating(u) PROVE thread'["callback"].pc = "idle"
  <2>1. thread[u].pc # "idle"
    BY <1>2 DEF Deactivating, DeactivateLock, DeactivateJoined, RestoreClose, RestoreOpen,
                RestoreFlags, RestoreError
  <2>2. "callback" \in HostThreads \ {u}
    BY <1>0, <2>1
  <2> QED BY <1>2, <2>2, DeactivatingMoves
<1>3. ASSUME NEW u \in Callers \cup Captures \cup {"shutdown"}, NEW pc, Goes(u, pc)
      PROVE  thread'["callback"].pc = "idle"
  BY <1>0, <1>3 DEF Goes
<1>4. CASE ShutdownUnregister \/ ShutdownJoined
  <2>1. "finished" \in ThreadPcs /\ thread["shutdown"].joins \in Captures \cup {NoCapture}
        /\ thread["shutdown"].joins # "shutdown" /\ "shutdown" \in Threads
    BY <1>0, JoinsAnother DEF ThreadPcs, ThreadStates, PlaybackInv
  <2> QED BY <1>0, <1>4, <2>1, AfterJoinShape, PlaybackAssumption DEF ShutdownUnregister, ShutdownJoined
<1>5. CASE HostNext
  BY <1>1, <1>2, <1>3, <1>4, <1>5
  DEF HostNext, DeactivateBegin, CaptureLoop, CaptureProcess, Disconnected, ShutdownBegin
<1>6. (\E t \in Callers : BridgeCalls(t)) \/ UNCHANGED playbackVars => UNCHANGED thread
  BY DEF BridgeCalls, hostVars, playbackVars
<1>7. CASE BridgeFills
  BY <1>0, <1>7 DEF BridgeFills, CaptureFills
<1> QED BY <1>5, <1>6, <1>7 DEF Next

\* The host's part in a control call is to answer it.
LEMMA HostAnswers ==
    HostNext \/ BridgeFills => UNCHANGED call \/ \E t \in Callers, result \in Results : Answer(t, result)
<1>1. ASSUME NEW th, NEW t, \E result \in Results : Ends(th, t, result)
      PROVE  UNCHANGED call \/ \E u \in Callers, result \in Results : Answer(u, result)
  BY <1>1 DEF Ends
<1>2. ASSUME NEW t, Activating(t)
      PROVE  UNCHANGED call \/ \E u \in Callers, result \in Results : Answer(u, result)
  <2>1. UNCHANGED call \/ \E th, result : result \in Results /\ Ends(th, t, result)
    BY <1>2 DEF Activating, ActivateBegin, ActivateJoined, ActivateCheck,
       ensure_custom_capture_device_registered, snapshot_media_playback_session, CustomClose,
       CustomOpen, CustomFlags, ActivateCommit, ActivateAssigned, Returns, Results
  <2> QED BY <1>1, <2>1
<1>3. ASSUME NEW t, Deactivating(t)
      PROVE  UNCHANGED call \/ \E u \in Callers, result \in Results : Answer(u, result)
  <2>1. UNCHANGED call \/ \E th, result : result \in Results /\ Ends(th, t, result)
    BY <1>3 DEF Deactivating, DeactivateLock, DeactivateJoined, RestoreClose, RestoreOpen,
                RestoreFlags, RestoreError, Returns, Results
  <2> QED BY <1>1, <2>1
<1>4. (\E t \in Callers : DeactivateBegin(t)) \/ (\E c \in Captures : CaptureLoop(c) \/ CaptureProcess(c))
      \/ Disconnected \/ ShutdownBegin \/ ShutdownUnregister \/ ShutdownJoined \/ BridgeFills
        => UNCHANGED call
  BY DEF DeactivateBegin, CaptureLoop, CaptureProcess, Disconnected, ShutdownBegin,
         ShutdownUnregister, ShutdownJoined, BridgeFills, CaptureFills
<1> QED BY <1>2, <1>3, <1>4 DEF HostNext

-----------------------------------------------------------------------------
(* The microphone.  Where restoring does not fail and no activation meets the *)
(* end of a session, the settings the user had are in one place at a time: in *)
(* TeamSpeak, in the session, or in the hands of one thread.                  *)

RestorePcs == {"restore close", "restore open", "restore flags", "restore error"}
EndingPcs == {"lock", "join", "restore close", "restore open", "restore flags"}
HoldingPcs == {"close", "open", "flags", "commit", "join", "restore close", "restore open",
               "restore flags"}

FromUser == [open |-> TRUE, known |-> TRUE, input |-> "user"]

\* While the reader activates, nobody is ending a session, or about to.
ActsApart ==
    call["reader"] = "activate" =>
        \A u \in Threads \ {"reader"} :
            thread[u].pc \notin EndingPcs /\ (u \in Callers => call[u] # "deactivate")

\* Thread t has the settings to go back to.
Holds(t) == thread[t].saved.open /\ thread[t].pc # "assign"

HeldInv ==
    /\ \A t \in Threads :
        /\ Holds(t) => /\ thread[t].saved = FromUser /\ thread[t].pc \in HoldingPcs
                       /\ ~mediaPlaybackActive
        /\ thread[t].pc \in RestorePcs => Holds(t) /\ thread[t].pc # "restore error"
        /\ thread[t].pc = "restore flags" => device = "mic"
    /\ \A t, u \in Threads : Holds(t) /\ Holds(u) => t = u
    /\ session = IF mediaPlaybackActive THEN FromUser ELSE NoSession
    /\ ~mediaPlaybackActive /\ (\A t \in Threads : ~Holds(t)) => device = "mic" /\ input = "user"

\* Thread x keeps what it has, or has nothing and gets nothing.
Stays(x) ==
    \/ thread'[x].saved = thread[x].saved /\ thread'[x].pc = thread[x].pc
    \/ ~Holds(x) /\ ~Holds(x)' /\ thread'[x].pc \notin RestorePcs

\* A step with which the settings stay where they are keeps HeldInv,
LEMMA NobodyHands ==
    ASSUME HeldInv, \A x \in Threads : Stays(x),
           UNCHANGED <<mediaPlaybackActive, session, device, input>>
    PROVE  HeldInv'
<1>1. \A x \in Threads : Holds(x)' <=> Holds(x)
  BY DEF Stays, Holds
<1>2. \A x \in Threads : Holds(x) => thread'[x].saved = thread[x].saved /\ thread'[x].pc = thread[x].pc
  BY DEF Stays
<1>3. \A x \in Threads : thread'[x].pc \in RestorePcs => thread'[x].pc = thread[x].pc
  BY DEF Stays
<1>4. \A x \in Threads : thread'[x].pc = "restore flags" => thread[x].pc = "restore flags"
  BY <1>3 DEF RestorePcs
<1> QED BY <1>1, <1>2, <1>3, <1>4 DEF HeldInv

\* and so does one of the thread that has them.
LEMMA HolderMoves ==
    ASSUME HeldInv, NEW t \in Threads, Holds(t), Holds(t)', thread'[t].saved = thread[t].saved,
           thread'[t].pc \in HoldingPcs, thread'[t].pc = "restore flags" => device' = "mic",
           \A x \in Threads \ {t} : Stays(x), UNCHANGED <<mediaPlaybackActive, session>>
    PROVE  HeldInv'
<1>1. \A x \in Threads \ {t} : ~Holds(x) /\ thread[x].pc \notin RestorePcs
  BY DEF HeldInv
<1>2. \A x \in Threads \ {t} : ~Holds(x)' /\ thread'[x].pc \notin RestorePcs
  BY <1>1 DEF Stays, Holds
<1>3. thread'[t].pc # "restore error"
  BY DEF HoldingPcs
<1>4. "restore flags" \in RestorePcs
  BY DEF RestorePcs
<1> QED BY <1>2, <1>3, <1>4 DEF HeldInv

\* A thread that returns has nothing left.
LEMMA EndsEmpty ==
    ASSUME NEW th \in [Threads -> ThreadStates], NEW t \in Threads, NEW result, Ends(th, t, result)
    PROVE  /\ ~Holds(t)' /\ thread'[t].pc \notin RestorePcs \cup {"join", "loop", "fill", "process"}
           /\ \A x \in Threads \ {t} : thread'[x] = th[x]
<1>1. \A x \in Threads \ {t} : thread'[x] = th[x]
  BY DEF Ends
<1>2. \E pc \in {"done", "unregister", "finished", "idle"} : thread'[t] = Idle(pc)
  BY DEF Ends
<1>3. thread'[t].saved.open = FALSE /\ thread'[t].pc \in {"done", "unregister", "finished", "idle"}
  BY <1>2 DEF Idle, NoSession
<1> QED BY <1>1, <1>3 DEF Holds, RestorePcs

\* What a step of the host says of one that has nothing, and of one it does not concern.
LEMMA StaysAsIs == \A x : thread'[x] = thread[x] => Stays(x)
BY DEF Stays

LEMMA HoldsAt ==
    ASSUME HeldInv, NEW t \in Threads, thread[t].pc \notin HoldingPcs
    PROVE  ~Holds(t)
BY DEF HeldInv

\* A thread that is joined was done and is off: it has nothing.
LEMMA JoinedStays ==
    ASSUME TypeOK, HeldInv, NEW t \in Threads, NEW pc \in ThreadPcs, thread[t].joins # t, Joined(t)
    PROVE  \A x \in Threads \ {t} :
             AfterJoin(thread, t, pc)[x] = thread[x] \/ (~Holds(x) /\ AfterJoin(thread, t, pc)[x] = Idle("off"))
<1> SUFFICES ASSUME NEW x \in Threads \ {t}, AfterJoin(thread, t, pc)[x] # thread[x]
             PROVE  ~Holds(x) /\ AfterJoin(thread, t, pc)[x] = Idle("off")
  OBVIOUS
<1>1. x = thread[t].joins /\ AfterJoin(thread, t, pc)[x] = Idle("off")
  BY AfterJoinShape
<1>2. thread[x].pc = "done"
  BY <1>1, PlaybackAssumption DEF Joined
<1> QED BY <1>1, <1>2, HoldsAt DEF HoldingPcs

LEMMA OffStays ==
    ASSUME NEW x \in Threads, ~Holds(x), NEW pc \in {"off", "loop"}, thread'[x] = Idle(pc)
    PROVE  Stays(x)
<1>1. thread'[x].saved.open = FALSE /\ thread'[x].pc \in {"off", "loop"}
  BY DEF Idle, NoSession
<1> QED BY <1>1 DEF Stays, Holds, RestorePcs

\* The snapshot is taken of the user's settings, for nobody has others.
LEMMA SnapshotHeld ==
    ASSUME PlaybackInv, HeldInv, ActsApart, NEW t \in Callers, call[t] = "activate",
           snapshot_media_playback_session(t)
    PROVE  HeldInv'
<1>0. /\ TypeOK /\ thread \in [Threads -> ThreadStates] /\ t \in Threads /\ t = "reader"
      /\ thread[t].pc = "snapshot" /\ ~mediaPlaybackActive
  BY DEF PlaybackInv, PlacedInv, TypeOK, SwapPcs, snapshot_media_playback_session
<1>1. \A x \in Threads : ~Holds(x)
  <2>1. ~Holds(t)
    BY <1>0, HoldsAt DEF HoldingPcs
  <2>2. ASSUME NEW x \in Threads \ {t} PROVE ~Holds(x)
    <3>1. thread[x].pc \notin EndingPcs /\ thread[x].pc \notin {"close", "open", "flags", "commit"}
      BY <1>0 DEF ActsApart, PlaybackInv, PlacedInv, Placed, ActivationPcs
    <3> QED BY <3>1, HoldsAt DEF EndingPcs, HoldingPcs
  <2> QED BY <2>1, <2>2
<1>2. device = "mic" /\ input = "user"
  BY <1>0, <1>1 DEF HeldInv
<1>3. /\ thread'[t].saved = FromUser /\ thread'[t].pc = "close"
      /\ \A x \in Threads \ {t} : thread'[x] = thread[x]
      /\ UNCHANGED <<mediaPlaybackActive, session, device, input>>
  BY <1>0, <1>2 DEF snapshot_media_playback_session, FromUser, ThreadStates
<1>4. \A x \in Threads : Holds(x)' <=> x = t
  BY <1>1, <1>3 DEF Holds, FromUser
<1>5. \A x \in Threads : thread'[x].pc \notin RestorePcs /\ thread'[x].pc # "restore flags"
  BY <1>1, <1>3 DEF HeldInv, RestorePcs
<1>6. session' = NoSession /\ ~mediaPlaybackActive' /\ "close" \in HoldingPcs
  BY <1>0, <1>3 DEF HeldInv, HoldingPcs
<1> QED BY ONLY <1>0, <1>3, <1>4, <1>5, <1>6 DEF HeldInv

\* The commit hands them to the session.
LEMMA CommitHeld ==
    ASSUME PlaybackInv, HeldInv, NEW t \in Callers, ActivateCommit(t)
    PROVE  HeldInv'
<1>0. /\ TypeOK /\ thread \in [Threads -> ThreadStates] /\ t \in Threads /\ t \notin Captures
      /\ thread[t].pc = "commit" /\ captureThread \in Captures \cup {NoCapture}
      /\ UNCHANGED <<device, input>> /\ mediaPlaybackActive' = TRUE /\ session' = thread[t].saved
  BY PlaybackAssumption DEF PlaybackInv, TypeOK, ActivateCommit
<1>1. thread[t].saved.open
  BY <1>0 DEF PlaybackInv, PlacedInv, Placed
<1>2. Holds(t) /\ thread[t].saved = FromUser /\ \A x \in Threads \ {t} : ~Holds(x)
  BY <1>0, <1>1 DEF Holds, HeldInv
<1>3. PICK c \in Captures :
        /\ thread[c].pc = "off"
        /\ \/ Ends([thread EXCEPT ![c] = Idle("loop")], t, "ok")
           \/ /\ captureThread # NoCapture
              /\ thread' = [thread EXCEPT ![c] = Idle("loop"), ![captureThread].stop = TRUE,
                                          ![t].pc = "assign", ![t].joins = captureThread]
  BY DEF ActivateCommit
<1>4. ~Holds(t)' /\ thread'[t].pc \notin RestorePcs /\ \A x \in Threads \ {t} : Stays(x)
  <2>1. CASE Ends([thread EXCEPT ![c] = Idle("loop")], t, "ok")
    <3> DEFINE th == [thread EXCEPT ![c] = Idle("loop")]
    <3>1. th \in [Threads -> ThreadStates]
      BY <1>0, IdleType DEF ThreadPcs
    <3>2. th[c] = Idle("loop") /\ \A x \in Threads \ {c} : th[x] = thread[x]
      BY <1>0
    <3> HIDE DEF th
    <3>3. ~Holds(t)' /\ thread'[t].pc \notin RestorePcs /\ \A x \in Threads \ {t} : thread'[x] = th[x]
      BY <1>0, <2>1, <3>1, EndsEmpty DEF th
    <3>4. \A x \in Threads \ {t} : Stays(x)
      BY <1>2, <3>2, <3>3, OffStays, StaysAsIs
    <3> QED BY <3>3, <3>4
  <2>2. CASE /\ captureThread # NoCapture
             /\ thread' = [thread EXCEPT ![c] = Idle("loop"), ![captureThread].stop = TRUE,
                                         ![t].pc = "assign", ![t].joins = captureThread]
    <3>1. thread'[t].pc = "assign"
      BY <1>0, <2>2 DEF ThreadStates
    <3>2. \A x \in Threads \ {t, c} : thread'[x].saved = thread[x].saved /\ thread'[x].pc = thread[x].pc
      BY <1>0, <2>2 DEF ThreadStates
    <3>3. thread'[c].saved.open = FALSE /\ thread'[c].pc = "loop"
      BY <1>0, <2>2 DEF Idle, NoSession, ThreadStates
    <3>4. \A x \in Threads \ {t} : Stays(x)
      BY <1>2, <3>2, <3>3 DEF Stays, Holds, RestorePcs
    <3> QED BY <3>1, <3>4 DEF Holds, RestorePcs
  <2> QED BY <1>3, <2>1, <2>2
<1>5. \A x \in Threads : ~Holds(x)' /\ thread'[x].pc \notin RestorePcs
  <2>1. ASSUME NEW x \in Threads \ {t} PROVE ~Holds(x)' /\ thread'[x].pc \notin RestorePcs
    <3>1. ~Holds(x) /\ thread[x].pc \notin RestorePcs /\ Stays(x)
      BY <1>2, <1>4 DEF HeldInv
    <3> QED BY <3>1 DEF Stays, Holds
  <2> QED BY <1>4, <2>1
<1>6. "restore flags" \in RestorePcs
  BY DEF RestorePcs
<1> QED BY <1>0, <1>2, <1>5, <1>6 DEF HeldInv

\* An activation keeps the settings with one holder.
LEMMA ActivatingHeld ==
    ASSUME PlaybackInv, HeldInv, ActsApart, NEW t \in Callers, Activating(t),
           thread[t].pc = "snapshot" => call[t] = "activate"
    PROVE  HeldInv'
<1>0. /\ TypeOK /\ thread \in [Threads -> ThreadStates] /\ t \in Threads
      /\ thread[t].joins # t
  BY JoinsAnother DEF PlaybackInv, TypeOK
<1>1. ASSUME ~Holds(t), NEW pc \in ThreadPcs \ RestorePcs, Goes(t, pc),
             UNCHANGED <<mediaPlaybackActive, session, device, input>>, thread[t].pc # "assign"
      PROVE  HeldInv'
  <2>1. thread'[t].pc = pc /\ thread'[t].saved = thread[t].saved
        /\ \A x \in Threads \ {t} : thread'[x] = thread[x]
    BY <1>0, <1>1, GoesShape
  <2>2. Stays(t)
    BY <1>1, <2>1 DEF Stays, Holds
  <2> QED BY <1>1, <2>1, <2>2, StaysAsIs, NobodyHands
<1>2. ASSUME ~Holds(t), NEW th \in [Threads -> ThreadStates], NEW result, Ends(th, t, result),
             \A x \in Threads \ {t} : th[x] = thread[x] \/ (~Holds(x) /\ th[x] = Idle("off")),
             UNCHANGED <<mediaPlaybackActive, session, device, input>>
      PROVE  HeldInv'
  <2>1. /\ ~Holds(t)' /\ thread'[t].pc \notin RestorePcs
        /\ \A x \in Threads \ {t} : thread'[x] = th[x]
    BY <1>0, <1>2, EndsEmpty
  <2>2. Stays(t)
    BY <1>2, <2>1 DEF Stays
  <2>3. ASSUME NEW x \in Threads \ {t} PROVE Stays(x)
    BY <1>2, <2>1, OffStays, StaysAsIs
  <2> QED BY <1>2, <2>2, <2>3, NobodyHands
<1>3. /\ {"stale", "check", "register", "snapshot"} \subseteq ThreadPcs \ RestorePcs
      /\ {"open", "flags", "commit", "restore close"} \subseteq ThreadPcs \cap HoldingPcs
  BY DEF ThreadPcs, RestorePcs, HoldingPcs
<1>4. ASSUME thread[t].pc \in {"close", "open", "flags"}, NEW pc \in ThreadPcs \cap HoldingPcs,
             pc # "restore flags", Goes(t, pc), UNCHANGED <<mediaPlaybackActive, session>>
      PROVE  HeldInv'
  <2>1. thread[t].saved.open /\ Holds(t)
    BY <1>0, <1>4 DEF PlaybackInv, PlacedInv, Placed, Holds
  <2>2. thread'[t].pc = pc /\ thread'[t].saved = thread[t].saved
        /\ \A x \in Threads \ {t} : thread'[x] = thread[x]
    BY <1>0, <1>4, GoesShape
  <2>3. Holds(t)' /\ pc # "assign"
    BY <1>4, <2>1, <2>2 DEF Holds, HoldingPcs
  <2> QED BY <1>4, <2>1, <2>2, <2>3, StaysAsIs, HolderMoves
<1>5. thread[t].pc \in {"idle", "stale", "check", "register", "assign"} => ~Holds(t)
  BY HoldsAt DEF HoldingPcs
<1>6. CASE ActivateBegin(t)
  <2>1. CASE ~mediaPlaybackActive
    <3>1. thread' = [thread EXCEPT ![t].pc = "stale", ![t].joins = captureThread]
          /\ UNCHANGED <<mediaPlaybackActive, session, device, input>> /\ thread[t].pc = "idle"
      BY <1>6, <2>1 DEF ActivateBegin
    <3>2. thread'[t].saved = thread[t].saved /\ thread'[t].pc = "stale"
          /\ \A x \in Threads \ {t} : thread'[x] = thread[x]
      BY <1>0, <3>1 DEF ThreadStates
    <3>3. Stays(t)
      BY <1>5, <3>1, <3>2 DEF Stays, Holds, RestorePcs
    <3> QED BY <3>1, <3>2, <3>3, StaysAsIs, NobodyHands
  <2>2. CASE mediaPlaybackActive
    BY <1>1, <1>3, <1>5, <1>6, <2>2 DEF ActivateBegin
  <2> QED BY <2>1, <2>2
<1>7. CASE ActivateJoined(t)
  <2>1. /\ thread' = AfterJoin(thread, t, "check") /\ Joined(t) /\ ~Holds(t)
        /\ UNCHANGED <<mediaPlaybackActive, session, device, input>> /\ thread[t].pc = "stale"
    BY <1>5, <1>7 DEF ActivateJoined
  <2>2. thread'[t].saved = thread[t].saved /\ thread'[t].pc = "check"
    BY <1>0, <1>3, <2>1, AfterJoinShape
  <2>3. Stays(t)
    BY <2>1, <2>2 DEF Stays, Holds, RestorePcs
  <2>4. ASSUME NEW x \in Threads \ {t} PROVE Stays(x)
    BY <1>0, <1>3, <2>1, JoinedStays, OffStays, StaysAsIs
  <2> QED BY <2>1, <2>3, <2>4, NobodyHands
<1>8. CASE ActivateCheck(t)
  BY <1>0, <1>1, <1>2, <1>3, <1>5, <1>8 DEF ActivateCheck, Returns
<1>9. CASE ensure_custom_capture_device_registered(t)
  BY <1>0, <1>1, <1>2, <1>3, <1>5, <1>9 DEF ensure_custom_capture_device_registered, Returns
<1>10. CASE snapshot_media_playback_session(t)
  BY <1>10, SnapshotHeld DEF snapshot_media_playback_session
<1>11. CASE CustomClose(t) \/ CustomOpen(t) \/ CustomFlags(t)
  BY <1>3, <1>4, <1>11 DEF CustomClose, CustomOpen, CustomFlags
<1>12. CASE ActivateCommit(t)
  BY <1>12, CommitHeld
<1>13. CASE ActivateAssigned(t)
  <2>1. "idle" \in ThreadPcs
    BY DEF ThreadPcs
  <2>2. /\ Joined(t) /\ ~Holds(t) /\ Ends(AfterJoin(thread, t, "idle"), t, "ok")
        /\ UNCHANGED <<mediaPlaybackActive, session, device, input>>
    BY <1>5, <1>13 DEF ActivateAssigned
  <2>3. AfterJoin(thread, t, "idle") \in [Threads -> ThreadStates]
    BY <1>0, <2>1, AfterJoinShape
  <2>4. \A x \in Threads \ {t} : AfterJoin(thread, t, "idle")[x] = thread[x]
                            \/ (~Holds(x) /\ AfterJoin(thread, t, "idle")[x] = Idle("off"))
    BY <1>0, <2>1, <2>2, JoinedStays
  <2> QED BY <1>2, <2>2, <2>3, <2>4
<1> QED BY <1>6, <1>7, <1>8, <1>9, <1>10, <1>11, <1>12, <1>13 DEF Activating

\* Whoever ends a session takes the settings from it, and gives them back last.
LEMMA LockHeld ==
    ASSUME PlaybackInv, HeldInv, NEW t \in Threads, DeactivateLock(t)
    PROVE  HeldInv'
<1>0. /\ TypeOK /\ thread \in [Threads -> ThreadStates] /\ thread[t].pc = "lock" /\ ~Holds(t)
      /\ UNCHANGED <<device, input>> /\ mediaPlaybackActive' = FALSE /\ session' = NoSession
  BY HoldsAt DEF PlaybackInv, TypeOK, DeactivateLock, HoldingPcs
<1>1. CASE Returns(t, "ok") /\ ~mediaPlaybackActive
  <2>1. /\ ~Holds(t)' /\ thread'[t].pc \notin RestorePcs
        /\ \A x \in Threads \ {t} : thread'[x] = thread[x]
    BY <1>0, <1>1, EndsEmpty DEF Returns
  <2>2. Stays(t)
    BY <1>0, <2>1 DEF Stays
  <2>3. UNCHANGED <<mediaPlaybackActive, session, device, input>>
    BY <1>0, <1>1 DEF HeldInv, PlaybackInv, TypeOK
  <2> QED BY <2>1, <2>2, <2>3, StaysAsIs, NobodyHands
<1>2. CASE thread' = [x \in Threads |-> [Takes(t)[x] EXCEPT !.stop = @ \/ x = captureThread]]
  <2>1. /\ Takes(t) \in [Threads -> ThreadStates]
        /\ Takes(t)[t].pc = "join" /\ Takes(t)[t].saved = session
        /\ \A x \in Threads \ {t} : Takes(t)[x] = thread[x]
    BY <1>0, TakesShape DEF TypeOK
  <2>2. \A x \in Threads : thread'[x].pc = Takes(t)[x].pc /\ thread'[x].saved = Takes(t)[x].saved
    BY <1>2, <2>1 DEF ThreadStates
  <2>3. /\ thread'[t].pc = "join" /\ thread'[t].saved = session
        /\ \A x \in Threads \ {t} : thread'[x].pc = thread[x].pc /\ thread'[x].saved = thread[x].saved
    BY <2>1, <2>2
  <2>4. CASE ~mediaPlaybackActive
    <3>1. session = NoSession
      BY <2>4 DEF HeldInv
    <3>2. Stays(t)
      BY <1>0, <2>3, <3>1 DEF Stays, Holds, NoSession, RestorePcs
    <3>3. \A x \in Threads \ {t} : Stays(x)
      BY <2>3 DEF Stays
    <3>4. UNCHANGED <<mediaPlaybackActive, session, device, input>>
      BY <1>0, <2>4, <3>1 DEF PlaybackInv, TypeOK
    <3> QED BY <3>2, <3>3, <3>4, NobodyHands
  <2>5. CASE mediaPlaybackActive
    <3>1. session = FromUser /\ \A x \in Threads : ~Holds(x) /\ thread[x].pc \notin RestorePcs
      BY <2>5 DEF HeldInv
    <3>2. FromUser.open /\ "join" \notin RestorePcs
      BY DEF FromUser, RestorePcs
    <3>3. \A x \in Threads : (Holds(x)' <=> x = t) /\ thread'[x].pc \notin RestorePcs
      BY <2>3, <3>1, <3>2 DEF Holds
    <3>4. "restore flags" \in RestorePcs /\ "join" \in HoldingPcs
      BY DEF RestorePcs, HoldingPcs
    <3> QED BY ONLY <1>0, <2>3, <3>1, <3>3, <3>4 DEF HeldInv
  <2> QED BY <2>4, <2>5
<1> QED BY <1>1, <1>2 DEF DeactivateLock

LEMMA GivesBackHeld ==
    ASSUME PlaybackInv, HeldInv, "restore fails" \notin Happens, NEW t \in Threads, RestoreFlags(t)
    PROVE  HeldInv'
<1>0. /\ TypeOK /\ thread \in [Threads -> ThreadStates] /\ thread[t].pc = "restore flags"
      /\ UNCHANGED <<mediaPlaybackActive, session, device>> /\ input' = thread[t].saved.input
  BY DEF PlaybackInv, TypeOK, RestoreFlags
<1>1. PICK result : Ends(thread, t, result)
  BY DEF RestoreFlags, Returns
<1>2. "restore flags" \in RestorePcs
  BY DEF RestorePcs
<1>3. /\ Holds(t) /\ thread[t].saved = FromUser /\ ~mediaPlaybackActive /\ device = "mic"
      /\ \A x \in Threads \ {t} : ~Holds(x) /\ thread[x].pc \notin RestorePcs
  BY <1>0, <1>2 DEF HeldInv
<1>4. /\ ~Holds(t)' /\ thread'[t].pc \notin RestorePcs
      /\ \A x \in Threads \ {t} : thread'[x] = thread[x]
  BY <1>0, <1>1, EndsEmpty
<1>5. \A x \in Threads : ~Holds(x)' /\ thread'[x].pc \notin RestorePcs
  BY <1>3, <1>4 DEF Holds
<1>6. FromUser.input = "user"
  BY DEF FromUser
<1>7. session = NoSession
  BY <1>3 DEF HeldInv
<1> QED BY ONLY <1>0, <1>2, <1>3, <1>5, <1>6, <1>7 DEF HeldInv

LEMMA DeactivatingHeld ==
    ASSUME PlaybackInv, HeldInv, "restore fails" \notin Happens, NEW t \in Threads, Deactivating(t)
    PROVE  HeldInv'
<1>0. /\ TypeOK /\ thread \in [Threads -> ThreadStates] /\ thread[t].joins # t
  BY JoinsAnother DEF PlaybackInv, TypeOK
<1>1. /\ {"restore close", "restore open", "restore flags"} \subseteq ThreadPcs \cap HoldingPcs
      /\ {"restore close", "restore open", "restore flags", "restore error"} \subseteq RestorePcs
  BY DEF ThreadPcs, HoldingPcs, RestorePcs
<1>2. ASSUME thread[t].pc \in RestorePcs, NEW pc \in ThreadPcs \cap HoldingPcs, Goes(t, pc),
             pc = "restore flags" => device' = "mic", UNCHANGED <<mediaPlaybackActive, session>>
      PROVE  HeldInv'
  <2>1. Holds(t)
    BY <1>2 DEF HeldInv
  <2>2. thread'[t].pc = pc /\ thread'[t].saved = thread[t].saved
        /\ \A x \in Threads \ {t} : thread'[x] = thread[x]
    BY <1>0, <1>2, GoesShape
  <2>3. Holds(t)' /\ pc # "assign"
    BY <1>2, <2>1, <2>2 DEF Holds, HoldingPcs
  <2> QED BY <1>2, <2>1, <2>2, <2>3, StaysAsIs, HolderMoves
<1>3. CASE DeactivateLock(t)
  BY <1>3, LockHeld
<1>4. CASE DeactivateJoined(t)
  <2>1. thread[t].pc = "join" /\ Joined(t) /\ UNCHANGED <<mediaPlaybackActive, session, device, input>>
    BY <1>4 DEF DeactivateJoined
  <2>2. CASE thread[t].saved.open /\ thread' = AfterJoin(thread, t, "restore close")
    <3>1. Holds(t)
      BY <2>1, <2>2 DEF Holds
    <3>2. thread'[t].saved = thread[t].saved /\ thread'[t].pc = "restore close"
      BY <1>0, <1>1, <2>2, AfterJoinShape
    <3>3. Holds(t)'
      BY <3>1, <3>2 DEF Holds
    <3>4. ASSUME NEW x \in Threads \ {t} PROVE Stays(x)
      BY <1>0, <1>1, <2>1, <2>2, JoinedStays, OffStays, StaysAsIs
    <3> QED BY <1>1, <2>1, <3>1, <3>2, <3>3, <3>4, HolderMoves
  <2>3. CASE ~thread[t].saved.open /\ Ends(AfterJoin(thread, t, "idle"), t, "ok")
    <3> DEFINE th == AfterJoin(thread, t, "idle")
    <3>1. "idle" \in ThreadPcs
      BY DEF ThreadPcs
    <3>2. /\ th \in [Threads -> ThreadStates]
          /\ \A x \in Threads \ {t} : th[x] = thread[x] \/ (~Holds(x) /\ th[x] = Idle("off"))
      BY <1>0, <2>1, <3>1, AfterJoinShape, JoinedStays
    <3>3. /\ ~Holds(t)' /\ thread'[t].pc \notin RestorePcs
          /\ \A x \in Threads \ {t} : thread'[x] = th[x]
      BY <2>3, <3>2, EndsEmpty
    <3>4. Stays(t)
      BY <2>3, <3>3 DEF Stays, Holds
    <3> HIDE DEF th
    <3>5. ASSUME NEW x \in Threads \ {t} PROVE Stays(x)
      BY <3>2, <3>3, OffStays, StaysAsIs
    <3> QED BY <2>1, <3>4, <3>5, NobodyHands
  <2> QED BY <1>4, <2>2, <2>3 DEF DeactivateJoined
<1>5. CASE RestoreClose(t)
  <2>1. thread[t].saved = FromUser
    BY <1>1, <1>5 DEF RestoreClose, HeldInv
  <2>2. FromUser.known
    BY DEF FromUser
  <2>3. Goes(t, "restore open")
    BY <1>5, <2>1, <2>2 DEF RestoreClose
  <2> QED BY <1>1, <1>2, <1>5, <2>3 DEF RestoreClose
<1>6. CASE RestoreOpen(t)
  BY <1>1, <1>2, <1>6 DEF RestoreOpen
<1>7. CASE RestoreFlags(t)
  BY <1>7, GivesBackHeld
<1>8. ~RestoreError(t)
  BY <1>1 DEF RestoreError, HeldInv
<1> QED BY <1>3, <1>4, <1>5, <1>6, <1>7, <1>8 DEF Deactivating

\* Nobody else touches them.
LEMMA HeldStep ==
    ASSUME PlaybackInv, HeldInv, ActsApart, "restore fails" \notin Happens, [Next]_playbackVars,
           thread["reader"].pc = "snapshot" => call["reader"] = "activate"
    PROVE  HeldInv'
<1>0. /\ TypeOK /\ thread \in [Threads -> ThreadStates]
      /\ "callback" \in Threads /\ "shutdown" \in Threads
  BY DEF PlaybackInv, TypeOK
<1>1. ASSUME NEW t \in Threads, NEW pc \in ThreadPcs \ RestorePcs, Goes(t, pc),
             thread[t].pc \notin HoldingPcs \cup {"assign"}, UNCHANGED <<mediaPlaybackActive, session, device, input>>
      PROVE  HeldInv'
  <2>1. ~Holds(t)
    BY <1>1, HoldsAt
  <2>2. thread'[t].pc = pc /\ thread'[t].saved = thread[t].saved
        /\ \A x \in Threads \ {t} : thread'[x] = thread[x]
    BY <1>0, <1>1, GoesShape
  <2>3. Stays(t)
    BY <1>1, <2>1, <2>2 DEF Stays, Holds
  <2> QED BY <1>1, <2>2, <2>3, StaysAsIs, NobodyHands
<1>2. {"lock", "loop", "fill", "process", "done"} \subseteq ThreadPcs \ RestorePcs
  BY DEF ThreadPcs, RestorePcs
<1>3. ASSUME NEW t \in Callers, Activating(t) PROVE HeldInv'
  <2>1. thread[t].pc = "snapshot" => t = "reader"
    BY DEF PlaybackInv, PlacedInv, Placed, ActivationPcs
  <2> QED BY <1>3, <2>1, ActivatingHeld
<1>4. ASSUME NEW t \in Threads, Deactivating(t) PROVE HeldInv'
  BY <1>4, DeactivatingHeld
<1>5. ASSUME NEW t \in Callers, DeactivateBegin(t) PROVE HeldInv'
  BY <1>1, <1>2, <1>5 DEF DeactivateBegin, HoldingPcs
<1>6. ASSUME NEW c \in Captures, CaptureLoop(c) \/ CaptureProcess(c) PROVE HeldInv'
  BY <1>1, <1>2, <1>6 DEF CaptureLoop, CaptureProcess, AfterFill, HoldingPcs
<1>7. CASE Disconnected \/ ShutdownBegin
  BY <1>0, <1>1, <1>2, <1>7 DEF Disconnected, ShutdownBegin, HoldingPcs
<1>8. CASE ShutdownUnregister
  <2>1. /\ \A x \in Threads \ {"shutdown"} : thread'[x] = thread[x]
        /\ thread'["shutdown"].saved = thread["shutdown"].saved
        /\ thread'["shutdown"].pc = "unjoined" /\ thread["shutdown"].pc = "unregister"
        /\ UNCHANGED <<mediaPlaybackActive, session, device, input>>
    BY <1>0, <1>8 DEF ShutdownUnregister, ThreadStates
  <2>2. ~Holds("shutdown")
    BY <1>0, <2>1, HoldsAt DEF HoldingPcs
  <2>3. Stays("shutdown")
    BY <2>1, <2>2 DEF Stays, Holds, RestorePcs
  <2> QED BY <2>1, <2>3, StaysAsIs, NobodyHands
<1>9. CASE ShutdownJoined
  <2>1. "finished" \in ThreadPcs /\ thread["shutdown"].joins # "shutdown"
    BY <1>0, JoinsAnother DEF ThreadPcs, PlaybackInv
  <2>2. /\ thread' = AfterJoin(thread, "shutdown", "finished") /\ Joined("shutdown")
        /\ UNCHANGED <<mediaPlaybackActive, session, device, input>>
        /\ thread["shutdown"].pc = "unjoined"
    BY <1>9 DEF ShutdownJoined
  <2>3. thread'["shutdown"].saved = thread["shutdown"].saved /\ thread'["shutdown"].pc = "finished"
    BY <1>0, <2>1, <2>2, AfterJoinShape
  <2>4. ~Holds("shutdown")
    BY <1>0, <2>2, HoldsAt DEF HoldingPcs
  <2>5. Stays("shutdown")
    BY <2>2, <2>3, <2>4 DEF Stays, Holds, RestorePcs
  <2>6. ASSUME NEW x \in Threads \ {"shutdown"} PROVE Stays(x)
    BY <1>0, <2>1, <2>2, JoinedStays, OffStays, StaysAsIs
  <2> QED BY <2>2, <2>5, <2>6, NobodyHands
<1>10. CASE HostNext
  BY <1>3, <1>4, <1>5, <1>6, <1>7, <1>8, <1>9, <1>10 DEF HostNext
<1>11. CASE (\E t \in Callers : BridgeCalls(t)) \/ UNCHANGED playbackVars
  <2>1. UNCHANGED <<thread, mediaPlaybackActive, session, device, input>>
    BY <1>11 DEF BridgeCalls, hostVars, playbackVars
  <2> QED BY <2>1, StaysAsIs, NobodyHands
<1>12. ASSUME NEW c \in Captures, NEW filled \in BOOLEAN, CaptureFills(c, filled) PROVE HeldInv'
  <2>1. /\ \A x \in Threads \ {c} : thread'[x] = thread[x]
        /\ thread'[c].saved = thread[c].saved /\ thread[c].pc = "fill"
        /\ thread'[c].pc \in {"loop", "process", "lock"}
        /\ UNCHANGED <<mediaPlaybackActive, session, device, input>>
    <3>1. /\ thread'[c].pc = AfterFill(c, filled) /\ thread'[c].saved = thread[c].saved
          /\ \A x \in Threads \ {c} : thread'[x] = thread[x]
      BY <1>0, <1>12, FillsShape
    <3>2. AfterFill(c, filled) \in {"loop", "process", "lock"}
      BY DEF AfterFill
    <3>3. thread[c].pc = "fill" /\ UNCHANGED <<mediaPlaybackActive, session, device, input>>
      BY <1>12 DEF CaptureFills
    <3> QED BY <3>1, <3>2, <3>3
  <2>2. ~Holds(c)
    BY <2>1, HoldsAt DEF HoldingPcs
  <2>3. Stays(c)
    BY <2>1, <2>2 DEF Stays, Holds, RestorePcs
  <2> QED BY <2>1, <2>3, StaysAsIs, NobodyHands
<1> QED BY <1>10, <1>11, <1>12 DEF Next, BridgeFills

\* Only the reader activates, as its call asks for.
ReaderCalls == thread["reader"].pc \in ActivationPcs => call["reader"] = "activate"

LEMMA ActivatingIsReader ==
    ASSUME PlaybackInv, NEW t \in Callers, Activating(t)
    PROVE  /\ t = "reader" /\ thread[t].pc # "join"
           /\ thread[t].pc \notin ActivationPcs => thread[t].pc = "idle" /\ call[t] = "activate"
<1>1. thread[t].pc \in ActivationPcs \/ (thread[t].pc = "idle" /\ call[t] = "activate")
  BY DEF Activating, ActivateBegin, ActivateJoined, ActivateCheck, ActivationPcs,
     ensure_custom_capture_device_registered, snapshot_media_playback_session, CustomClose,
     CustomOpen, CustomFlags, ActivateCommit, ActivateAssigned
<1>2. t = "reader"
  BY <1>1 DEF PlaybackInv, PlacedInv, Placed
<1> QED BY <1>1, <1>2 DEF ActivationPcs

\* An activation keeps its call until it returns.
LEMMA ActivatingAnswers ==
    ASSUME PlaybackInv, NEW t \in Callers, Activating(t)
    PROVE  UNCHANGED call \/ thread'[t].pc = "idle"
<1>0. /\ TypeOK /\ thread \in [Threads -> ThreadStates] /\ t \in Threads /\ t # "shutdown"
      /\ t \notin Captures
  BY PlaybackAssumption DEF PlaybackInv, TypeOK
<1>1. ASSUME NEW th, NEW result, Ends(th, t, result) PROVE UNCHANGED call \/ thread'[t].pc = "idle"
  <2>1. thread' = [th EXCEPT ![t] = Idle("idle")]
    BY <1>0, <1>1 DEF Ends
  <2>2. t \in DOMAIN thread'
    BY <1>0, ActivatingType DEF TypeOK
  <2>3. thread'[t] = Idle("idle")
    BY <2>1, <2>2
  <2> QED BY <2>3 DEF Idle
<1> QED
  BY <1>1
  DEF Activating, ActivateBegin, ActivateJoined, ActivateCheck, Returns,
      ensure_custom_capture_device_registered, snapshot_media_playback_session, CustomClose,
      CustomOpen, CustomFlags, ActivateCommit, ActivateAssigned

\* A deactivation does not turn into an activation.
LEMMA DeactivatingStaysOut ==
    ASSUME PlaybackInv, NEW t \in HostThreads, Deactivating(t)
    PROVE  thread'[t].pc \notin ActivationPcs \cup {"loop", "fill", "process"}
<1>0. /\ TypeOK /\ thread \in [Threads -> ThreadStates] /\ t \notin Captures /\ t \in Threads
      /\ thread[t].joins # t
  BY JoinsAnother, PlaybackAssumption DEF PlaybackInv, TypeOK
<1> DEFINE Out == thread'[t].pc \notin ActivationPcs \cup {"loop", "fill", "process"}
<1>1. ASSUME NEW th \in [Threads -> ThreadStates], NEW result, Ends(th, t, result) PROVE Out
  <2>1. thread' = [th EXCEPT ![t] = Idle(IF t = "shutdown" THEN IF result = "ok" THEN "unregister"
                                                              ELSE "finished"
                                        ELSE "idle")]
    BY <1>0, <1>1 DEF Ends
  <2>2. t \in DOMAIN th
    BY <1>0, <1>1
  <2>3. \E pc \in {"unregister", "finished", "idle"} : thread'[t] = Idle(pc)
    BY <2>1, <2>2
  <2>4. thread'[t].pc \in {"unregister", "finished", "idle"}
    BY <2>3 DEF Idle
  <2> QED BY <2>4 DEF ActivationPcs
<1>2. \A pc \in RestorePcs \cup {"idle", "join"} :
         pc \in ThreadPcs /\ pc \notin ActivationPcs \cup {"loop", "fill", "process"}
  BY DEF ThreadPcs, ActivationPcs, RestorePcs
<1>3. ASSUME NEW pc \in RestorePcs, Goes(t, pc) PROVE Out
  BY <1>0, <1>2, <1>3, GoesShape
<1>4. CASE DeactivateLock(t)
  <2>1. CASE thread' = [x \in Threads |-> [Takes(t)[x] EXCEPT !.stop = @ \/ x = captureThread]]
    <3>1. Takes(t) \in [Threads -> ThreadStates] /\ Takes(t)[t].pc = "join"
      BY <1>0, TakesShape DEF TypeOK
    <3>2. thread'[t].pc = "join"
      BY <1>0, <2>1, <3>1 DEF ThreadStates
    <3> QED BY <1>2, <3>2
  <2> QED BY <1>0, <1>1, <1>4, <2>1 DEF DeactivateLock, Returns
<1>5. CASE DeactivateJoined(t)
  <2>1. CASE thread' = AfterJoin(thread, t, "restore close")
    <3>1. "restore close" \in RestorePcs
      BY DEF RestorePcs
    <3>2. "restore close" \in ThreadPcs
      BY <1>2, <3>1
    <3>3. AfterJoin(thread, t, "restore close")[t].pc = "restore close"
      BY <1>0, <3>2, AfterJoinShape
    <3>4. thread'[t].pc = "restore close"
      BY <2>1, <3>3
    <3> QED BY <1>2, <3>1, <3>4
  <2>2. CASE Ends(AfterJoin(thread, t, "idle"), t, "ok")
    <3>1. AfterJoin(thread, t, "idle") \in [Threads -> ThreadStates]
      BY <1>0, <1>2, AfterJoinType
    <3> QED BY <1>1, <2>2, <3>1
  <2> QED BY <1>5, <2>1, <2>2 DEF DeactivateJoined
<1>6. CASE RestoreClose(t) \/ RestoreOpen(t) \/ RestoreFlags(t) \/ RestoreError(t)
  <2>1. {"restore open", "restore flags", "restore error"} \subseteq RestorePcs
    BY DEF RestorePcs
  <2>2. \/ \E pc \in RestorePcs : Goes(t, pc)
        \/ \E result : Ends(thread, t, result)
    BY <1>6, <2>1 DEF RestoreClose, RestoreOpen, RestoreFlags, RestoreError, Returns
  <2> QED BY <1>0, <1>1, <1>3, <2>2
<1> QED BY <1>4, <1>5, <1>6 DEF Deactivating

LEMMA ReaderCallsStep ==
    ASSUME PlaybackInv, ReaderCalls, [Next]_playbackVars
    PROVE  ReaderCalls'
<1>0. /\ TypeOK /\ CallTypeOK /\ thread \in [Threads -> ThreadStates]
      /\ "reader" \in HostThreads /\ "reader" \in Callers
      /\ "reader" \notin Captures \cup {"callback", "shutdown"}
      /\ call \in [Callers -> CallStates] /\ "activate" \notin Results
  BY PlaybackAssumption, PlaybackCallers DEF PlaybackInv, TypeOK, CallTypeOK, Results
<1>2. ASSUME thread'["reader"].pc = thread["reader"].pc, call'["reader"] = call["reader"]
      PROVE  ReaderCalls'
  BY <1>2 DEF ReaderCalls
<1>3. ASSUME NEW t \in Callers, Activating(t) PROVE ReaderCalls'
  <2>1. t = "reader" /\ call["reader"] = "activate"
    BY <1>3, ActivatingIsReader DEF ReaderCalls
  <2> QED BY <1>3, <2>1, ActivatingAnswers DEF ReaderCalls, ActivationPcs
<1>4. ASSUME NEW t \in Threads, Deactivating(t) PROVE ReaderCalls'
  <2>1. CASE t # "reader"
    BY <1>0, <1>2, <1>4, <2>1, DeactivatingMoves
  <2>2. CASE t = "reader"
    <3>1. thread'["reader"].pc \notin ActivationPcs
      BY <1>0, <1>4, <2>2, DeactivatingStaysOut
    <3> QED BY <3>1 DEF ReaderCalls
  <2> QED BY <2>1, <2>2
<1>5. ASSUME NEW t \in Threads, NEW pc \in ThreadPcs \ ActivationPcs, Goes(t, pc), UNCHANGED call
      PROVE  ReaderCalls'
  <2>1. thread'[t].pc = pc /\ \A x \in Threads \ {t} : thread'[x] = thread[x]
    BY <1>0, <1>5, GoesShape
  <2> QED BY <1>0, <1>2, <1>5, <2>1 DEF ReaderCalls
<1>6. {"lock", "loop", "fill", "process", "done"} \subseteq ThreadPcs \ ActivationPcs
  BY DEF ThreadPcs, ActivationPcs
<1>7. ASSUME NEW t \in Callers, DeactivateBegin(t) PROVE ReaderCalls'
  BY <1>5, <1>6, <1>7 DEF DeactivateBegin
<1>8. ASSUME NEW c \in Captures, CaptureLoop(c) \/ CaptureProcess(c) PROVE ReaderCalls'
  BY <1>5, <1>6, <1>8 DEF CaptureLoop, CaptureProcess, AfterFill
<1>9. CASE Disconnected \/ ShutdownBegin
  BY <1>5, <1>6, <1>9 DEF Disconnected, ShutdownBegin
<1>10. CASE ShutdownUnregister
  BY <1>0, <1>2, <1>10 DEF ShutdownUnregister
<1>11. CASE ShutdownJoined
  <2>1. "finished" \in ThreadPcs /\ thread["shutdown"].joins \in Captures \cup {NoCapture}
        /\ thread["shutdown"].joins # "shutdown"
    BY <1>0, JoinsAnother DEF ThreadPcs, ThreadStates, PlaybackInv
  <2>2. thread'["reader"] = thread["reader"]
    BY <1>0, <1>11, <2>1, AfterJoinShape, PlaybackAssumption DEF ShutdownJoined
  <2> QED BY <1>2, <1>11, <2>2 DEF ShutdownJoined
<1>12. CASE HostNext
  BY <1>3, <1>4, <1>7, <1>8, <1>9, <1>10, <1>11, <1>12 DEF HostNext
<1>13. ASSUME NEW t \in Callers, BridgeCalls(t) PROVE ReaderCalls'
  BY <1>0, <1>13 DEF ReaderCalls, BridgeCalls, Invoke, Consume, hostVars, Requests
<1>14. CASE BridgeFills
  <2>1. thread'["reader"] = thread["reader"] /\ UNCHANGED call
    BY <1>0, <1>14 DEF BridgeFills, CaptureFills
  <2> QED BY <1>2, <2>1
<1>15. CASE UNCHANGED playbackVars
  BY <1>15 DEF ReaderCalls, playbackVars, hostVars
<1> QED BY <1>12, <1>13, <1>14, <1>15 DEF Next

\* A session that is being ended is over for the host, and a capture thread that was
\* asked to stop and has not seen it yet is being joined by who ended its session.
PlayingPcs == {"loop", "fill", "process"}

SwapInv ==
    /\ \A t \in Threads : thread[t].pc = "join" => ~mediaPlaybackActive
    /\ \A c \in Captures : thread[c].pc \in PlayingPcs /\ thread[c].stop =>
         \E t \in Threads : thread[t].pc = "join" /\ thread[t].joins = c

\* A step of one thread that takes no session, after which a thread it joined is off,
\* keeps SwapInv.
LEMMA SwapKept ==
    ASSUME SwapInv, NEW t \in Threads, mediaPlaybackActive' => mediaPlaybackActive,
           thread'[t].pc # "join", thread[t].pc = "join" => Joined(t),
           thread'[t].pc \in PlayingPcs => thread[t].pc \in PlayingPcs /\ thread'[t].stop = thread[t].stop,
           \A x \in Threads \ {t} :
               thread'[x] = thread[x] \/ (thread[x].pc = "done" /\ thread'[x].pc = "off")
    PROVE  SwapInv'
<1>1. \A x \in Threads : thread'[x].pc = "join" => x # t /\ thread'[x] = thread[x]
  OBVIOUS
<1>2. ASSUME NEW c \in Captures, thread'[c].pc \in PlayingPcs, thread'[c].stop
      PROVE  \E u \in Threads : thread'[u].pc = "join" /\ thread'[u].joins = c
  <2>1. thread[c].pc \in PlayingPcs /\ thread[c].stop
    BY <1>2 DEF PlayingPcs
  <2>2. PICK u \in Threads : thread[u].pc = "join" /\ thread[u].joins = c
    BY <2>1 DEF SwapInv
  <2>3. u # t
    BY <2>1, <2>2, PlaybackAssumption DEF Joined, PlayingPcs
  <2>4. thread'[u] = thread[u]
    BY <2>2, <2>3
  <2> QED BY <2>2, <2>4
<1> QED BY <1>1, <1>2 DEF SwapInv

\* A thread moves on, or returns, perhaps from a join.
LEMMA GoesSwap ==
    ASSUME TypeOK, SwapInv, NEW t \in Threads, NEW pc \in ThreadPcs \ {"join"}, Goes(t, pc),
           pc \in PlayingPcs => thread[t].pc \in PlayingPcs, thread[t].pc # "join",
           mediaPlaybackActive' => mediaPlaybackActive
    PROVE  SwapInv'
<1>1. /\ thread'[t].pc = pc /\ thread'[t].stop = thread[t].stop
      /\ \A x \in Threads \ {t} : thread'[x] = thread[x]
  BY GoesShape
<1> QED BY <1>1, SwapKept

LEMMA EndsSwap ==
    ASSUME TypeOK, SwapInv, NEW th \in [Threads -> ThreadStates], NEW t \in Threads, NEW result,
           Ends(th, t, result), thread[t].pc = "join" => Joined(t),
           mediaPlaybackActive' => mediaPlaybackActive,
           \A x \in Threads \ {t} :
               th[x] = thread[x] \/ (thread[x].pc = "done" /\ th[x].pc = "off")
    PROVE  SwapInv'
<1>1. /\ thread'[t].pc # "join" /\ thread'[t].pc \notin PlayingPcs
      /\ \A x \in Threads \ {t} : thread'[x] = th[x]
  BY EndsEmpty DEF PlayingPcs
<1> QED BY <1>1, SwapKept

LEMMA JoinedOff ==
    ASSUME TypeOK, NEW t \in Threads, NEW pc \in ThreadPcs, thread[t].joins # t, Joined(t)
    PROVE  /\ AfterJoin(thread, t, pc) \in [Threads -> ThreadStates]
           /\ AfterJoin(thread, t, pc)[t].pc = pc
           /\ \A x \in Threads \ {t} :
                \/ AfterJoin(thread, t, pc)[x] = thread[x]
                \/ thread[x].pc = "done" /\ AfterJoin(thread, t, pc)[x].pc = "off"
<1>1. \A x \in Threads \ {t} :
         AfterJoin(thread, t, pc)[x] = IF x = thread[t].joins THEN Idle("off") ELSE thread[x]
  BY AfterJoinShape
<1>2. Idle("off").pc = "off"
  BY DEF Idle
<1>3. thread[t].joins \in Threads => thread[thread[t].joins].pc = "done"
  BY PlaybackAssumption DEF Joined
<1> QED BY <1>1, <1>2, <1>3, AfterJoinShape

LEMMA AfterJoinSwap ==
    ASSUME TypeOK, SwapInv, NEW t \in Threads, NEW pc \in ThreadPcs \ ({"join"} \cup PlayingPcs),
           thread[t].joins # t, Joined(t), thread' = AfterJoin(thread, t, pc),
           mediaPlaybackActive' => mediaPlaybackActive
    PROVE  SwapInv'
<1>1. /\ thread'[t].pc = pc
      /\ \A x \in Threads \ {t} :
           thread'[x] = thread[x] \/ (thread[x].pc = "done" /\ thread'[x].pc = "off")
  BY JoinedOff
<1> QED BY <1>1, SwapKept

\* A session is committed while nobody ends one.
LEMMA CommitSwap ==
    ASSUME PlaybackInv, SwapInv, ActsApart, ReaderCalls, NEW t \in Callers, ActivateCommit(t)
    PROVE  SwapInv'
<1>0. /\ TypeOK /\ thread \in [Threads -> ThreadStates] /\ t \in Threads /\ t \notin Captures
      /\ thread[t].pc = "commit" /\ captureThread \in Captures \cup {NoCapture}
      /\ t = "reader" /\ ~mediaPlaybackActive
  BY PlaybackAssumption
  DEF PlaybackInv, TypeOK, ActivateCommit, PlacedInv, Placed, ActivationPcs, SwapPcs
<1>1. \A x \in Threads : thread[x].pc # "join"
  BY <1>0 DEF ReaderCalls, ActivationPcs, ActsApart, EndingPcs
<1>2. \A c \in Captures : thread[c].pc \in PlayingPcs => ~thread[c].stop
  BY <1>1 DEF SwapInv
<1>3. captureThread # NoCapture => thread[captureThread].pc \notin PlayingPcs \cup {"join"}
  BY <1>0, <1>1 DEF PlaybackInv, FeederInv, Ended, EndedPcs, PlayingPcs
<1>4. PICK c \in Captures :
        /\ thread[c].pc = "off"
        /\ \/ Ends([thread EXCEPT ![c] = Idle("loop")], t, "ok")
           \/ /\ captureThread # NoCapture
              /\ thread' = [thread EXCEPT ![c] = Idle("loop"), ![captureThread].stop = TRUE,
                                          ![t].pc = "assign", ![t].joins = captureThread]
  BY DEF ActivateCommit
<1>5. Idle("loop").pc = "loop" /\ Idle("loop").stop = FALSE
  BY DEF Idle
<1>6. \A x \in Threads : /\ thread'[x].pc # "join"
                         /\ thread'[x].pc \in PlayingPcs => thread'[x].stop = FALSE
  <2>1. CASE Ends([thread EXCEPT ![c] = Idle("loop")], t, "ok")
    <3> DEFINE th == [thread EXCEPT ![c] = Idle("loop")]
    <3>1. th \in [Threads -> ThreadStates]
      BY <1>0, IdleType DEF ThreadPcs
    <3>2. th[c] = Idle("loop") /\ \A x \in Threads \ {c} : th[x] = thread[x]
      BY <1>0
    <3> HIDE DEF th
    <3>3. thread'[t].pc \notin PlayingPcs \cup {"join"} /\ \A x \in Threads \ {t} : thread'[x] = th[x]
      BY <1>0, <2>1, <3>1, EndsEmpty DEF th, PlayingPcs
    <3>4. \A x \in Threads \ {t} : thread'[x] = Idle("loop") \/ thread'[x] = thread[x]
      BY <3>2, <3>3
    <3>5. ASSUME NEW x \in Threads \ {t}, thread[x].pc \in PlayingPcs PROVE thread[x].stop = FALSE
      <4>1. x \in Captures
        BY <3>5 DEF PlaybackInv, PlacedInv, Placed, PlayingPcs
      <4>2. thread[x].stop \in BOOLEAN
        BY <1>0 DEF ThreadStates
      <4> QED BY <1>2, <3>5, <4>1, <4>2
    <3> QED BY <1>1, <1>5, <3>3, <3>4, <3>5
  <2>2. CASE /\ captureThread # NoCapture
             /\ thread' = [thread EXCEPT ![c] = Idle("loop"), ![captureThread].stop = TRUE,
                                         ![t].pc = "assign", ![t].joins = captureThread]
    <3>1. c # captureThread /\ c # t /\ captureThread # t
      BY <1>0, <1>4, <2>2 DEF PlaybackInv, FeederInv, Ended, EndedPcs
    <3>2. thread'[t].pc = "assign" /\ thread'[c] = Idle("loop")
      BY <1>0, <2>2, <3>1 DEF ThreadStates
    <3>3. thread'[captureThread].pc = thread[captureThread].pc
      BY <1>0, <2>2, <3>1 DEF ThreadStates
    <3>4. \A x \in Threads \ {t, c, captureThread} : thread'[x] = thread[x]
      BY <1>0, <2>2
    <3>5. ASSUME NEW x \in Threads \ {t}, thread[x].pc \in PlayingPcs PROVE thread[x].stop = FALSE
      <4>1. x \in Captures
        BY <3>5 DEF PlaybackInv, PlacedInv, Placed, PlayingPcs
      <4>2. thread[x].stop \in BOOLEAN
        BY <1>0 DEF ThreadStates
      <4> QED BY <1>2, <3>5, <4>1, <4>2
    <3>6. "assign" \notin PlayingPcs \cup {"join"} /\ "loop" # "join"
      BY DEF PlayingPcs
    <3> QED BY <1>1, <1>3, <1>5, <2>2, <3>2, <3>3, <3>4, <3>5, <3>6
  <2> QED BY <1>4, <2>1, <2>2
<1> QED BY <1>6 DEF SwapInv

\* An activation neither ends a session nor asks one to stop that plays.
LEMMA ActivatingSwap ==
    ASSUME PlaybackInv, SwapInv, ActsApart, ReaderCalls, NEW t \in Callers, Activating(t)
    PROVE  SwapInv'
<1>0. /\ TypeOK /\ thread \in [Threads -> ThreadStates] /\ t \in Threads
      /\ thread[t].joins # t /\ thread[t].pc # "join"
  BY JoinsAnother, ActivatingIsReader DEF PlaybackInv, TypeOK
<1>1. /\ {"stale", "check", "register", "idle"} \subseteq ThreadPcs \ ({"join"} \cup PlayingPcs)
      /\ {"snapshot", "open", "flags", "commit", "restore close"} \subseteq ThreadPcs \ ({"join"} \cup PlayingPcs)
  BY DEF ThreadPcs, PlayingPcs
<1>2. ASSUME NEW pc \in ThreadPcs \ ({"join"} \cup PlayingPcs), Goes(t, pc), UNCHANGED mediaPlaybackActive
      PROVE  SwapInv'
  BY <1>0, <1>2, GoesSwap
<1>3. ASSUME NEW result, Ends(thread, t, result), UNCHANGED mediaPlaybackActive PROVE SwapInv'
  BY <1>0, <1>3, EndsSwap
<1>4. CASE ActivateBegin(t)
  <2>1. CASE ~mediaPlaybackActive
    <3>1. thread' = [thread EXCEPT ![t].pc = "stale", ![t].joins = captureThread]
          /\ UNCHANGED mediaPlaybackActive
      BY <1>4, <2>1 DEF ActivateBegin
    <3>2. thread'[t].pc = "stale" /\ \A x \in Threads \ {t} : thread'[x] = thread[x]
      BY <1>0, <3>1 DEF ThreadStates
    <3> QED BY <1>0, <1>1, <3>1, <3>2, SwapKept
  <2>2. CASE mediaPlaybackActive
    BY <1>1, <1>2, <1>4, <2>2 DEF ActivateBegin
  <2> QED BY <2>1, <2>2
<1>5. CASE ActivateJoined(t)
  BY <1>0, <1>1, <1>5, AfterJoinSwap DEF ActivateJoined
<1>6. CASE ActivateCheck(t)
  BY <1>1, <1>2, <1>3, <1>6 DEF ActivateCheck, Returns
<1>7. CASE ensure_custom_capture_device_registered(t)
  BY <1>1, <1>2, <1>3, <1>7 DEF ensure_custom_capture_device_registered, Returns
<1>8. CASE snapshot_media_playback_session(t)
  <2>1. /\ thread'[t].pc = "close" /\ \A x \in Threads \ {t} : thread'[x] = thread[x]
        /\ UNCHANGED mediaPlaybackActive
    BY <1>0, <1>8 DEF snapshot_media_playback_session, ThreadStates
  <2> QED BY <1>0, <2>1, SwapKept DEF PlayingPcs
<1>9. CASE CustomClose(t) \/ CustomOpen(t) \/ CustomFlags(t)
  BY <1>1, <1>2, <1>9 DEF CustomClose, CustomOpen, CustomFlags
<1>10. CASE ActivateCommit(t)
  BY <1>10, CommitSwap
<1>11. CASE ActivateAssigned(t)
  <2>1. Joined(t) /\ Ends(AfterJoin(thread, t, "idle"), t, "ok") /\ UNCHANGED mediaPlaybackActive
    BY <1>11 DEF ActivateAssigned
  <2> DEFINE th == AfterJoin(thread, t, "idle")
  <2>2. "idle" \in ThreadPcs
    BY <1>1
  <2>3. /\ th \in [Threads -> ThreadStates]
        /\ \A x \in Threads \ {t} : th[x] = thread[x] \/ (thread[x].pc = "done" /\ th[x].pc = "off")
    BY <1>0, <2>1, <2>2, JoinedOff
  <2>4. Ends(th, t, "ok")
    BY <2>1
  <2> HIDE DEF th
  <2> QED BY <1>0, <2>1, <2>3, <2>4, EndsSwap
<1> QED BY <1>4, <1>5, <1>6, <1>7, <1>8, <1>9, <1>10, <1>11 DEF Activating

\* Whoever ends a session asks its capture thread to stop, and joins it.
LEMMA LockSwap ==
    ASSUME PlaybackInv, SwapInv, NEW t \in Threads, DeactivateLock(t)
    PROVE  SwapInv'
<1>0. /\ TypeOK /\ thread \in [Threads -> ThreadStates] /\ thread[t].pc = "lock"
      /\ mediaPlaybackActive' = FALSE
  BY DEF PlaybackInv, TypeOK, DeactivateLock
<1>1. CASE Returns(t, "ok")
  BY <1>0, <1>1, EndsSwap DEF Returns
<1>2. CASE thread' = [x \in Threads |-> [Takes(t)[x] EXCEPT !.stop = @ \/ x = captureThread]]
  <2>1. /\ Takes(t) \in [Threads -> ThreadStates] /\ Takes(t)[t].pc = "join"
        /\ Takes(t)[t].joins = IF captureThread = t THEN NoCapture ELSE captureThread
        /\ \A x \in Threads \ {t} : Takes(t)[x] = thread[x]
    BY <1>0, TakesShape
  <2>2. \A x \in Threads : /\ thread'[x].pc = Takes(t)[x].pc /\ thread'[x].joins = Takes(t)[x].joins
                           /\ x # captureThread => (thread'[x].stop <=> Takes(t)[x].stop)
    BY <1>2, <2>1 DEF ThreadStates
  <2>3. ASSUME NEW c \in Captures, thread'[c].pc \in PlayingPcs, thread'[c].stop
        PROVE  \E u \in Threads : thread'[u].pc = "join" /\ thread'[u].joins = c
    <3>1. c # t
      BY <2>1, <2>2, <2>3 DEF PlayingPcs
    <3>2. CASE c = captureThread
      BY <2>1, <2>2, <3>1, <3>2
    <3>3. CASE c # captureThread
      <4>1. thread[c].pc \in PlayingPcs /\ thread[c].stop
        BY <2>1, <2>2, <2>3, <3>1, <3>3
      <4>2. PICK u \in Threads : thread[u].pc = "join" /\ thread[u].joins = c
        BY <4>1 DEF SwapInv
      <4>3. u # t
        BY <1>0, <4>2
      <4> QED BY <2>1, <2>2, <4>2, <4>3
    <3> QED BY <3>2, <3>3
  <2> QED BY <1>0, <2>3 DEF SwapInv
<1> QED BY <1>1, <1>2 DEF DeactivateLock

LEMMA DeactivatingSwap ==
    ASSUME PlaybackInv, SwapInv, NEW t \in Threads, Deactivating(t)
    PROVE  SwapInv'
<1>0. /\ TypeOK /\ thread \in [Threads -> ThreadStates] /\ thread[t].joins # t
  BY JoinsAnother DEF PlaybackInv, TypeOK
<1>1. /\ {"idle", "restore close", "restore open"} \subseteq ThreadPcs \ ({"join"} \cup PlayingPcs)
      /\ {"restore flags", "restore error"} \subseteq ThreadPcs \ ({"join"} \cup PlayingPcs)
  BY DEF ThreadPcs, PlayingPcs
<1>2. ASSUME NEW pc \in ThreadPcs \ ({"join"} \cup PlayingPcs), Goes(t, pc),
             thread[t].pc # "join", UNCHANGED mediaPlaybackActive
      PROVE  SwapInv'
  BY <1>0, <1>2, GoesSwap
<1>3. ASSUME NEW result, Ends(thread, t, result), thread[t].pc # "join", UNCHANGED mediaPlaybackActive
      PROVE  SwapInv'
  BY <1>0, <1>3, EndsSwap
<1>4. CASE DeactivateLock(t)
  BY <1>4, LockSwap
<1>5. CASE DeactivateJoined(t)
  <2>1. Joined(t) /\ UNCHANGED mediaPlaybackActive
    BY <1>5 DEF DeactivateJoined
  <2>2. CASE thread' = AfterJoin(thread, t, "restore close")
    BY <1>0, <1>1, <2>1, <2>2, AfterJoinSwap
  <2>3. CASE Ends(AfterJoin(thread, t, "idle"), t, "ok")
    <3> DEFINE th == AfterJoin(thread, t, "idle")
    <3>1. "idle" \in ThreadPcs
      BY <1>1
    <3>2. /\ th \in [Threads -> ThreadStates]
          /\ \A x \in Threads \ {t} : th[x] = thread[x] \/ (thread[x].pc = "done" /\ th[x].pc = "off")
      BY <1>0, <2>1, <3>1, JoinedOff
    <3>3. Ends(th, t, "ok")
      BY <2>3
    <3> HIDE DEF th
    <3> QED BY <1>0, <2>1, <3>2, <3>3, EndsSwap
  <2> QED BY <1>5, <2>2, <2>3 DEF DeactivateJoined
<1>6. CASE RestoreClose(t) \/ RestoreOpen(t)
  BY <1>1, <1>2, <1>6 DEF RestoreClose, RestoreOpen
<1>7. CASE RestoreFlags(t) \/ RestoreError(t)
  BY <1>1, <1>2, <1>3, <1>7 DEF RestoreFlags, RestoreError, Returns
<1> QED BY <1>4, <1>5, <1>6, <1>7 DEF Deactivating

\* Nobody else does either.
LEMMA SwapStep ==
    ASSUME PlaybackInv, SwapInv, ActsApart, ReaderCalls, [Next]_playbackVars
    PROVE  SwapInv'
<1>0. /\ TypeOK /\ thread \in [Threads -> ThreadStates]
      /\ "callback" \in Threads /\ "shutdown" \in Threads
  BY DEF PlaybackInv, TypeOK
<1>1. ASSUME NEW t \in Threads, NEW pc \in ThreadPcs \ {"join"}, Goes(t, pc), thread[t].pc # "join",
             pc \in PlayingPcs => thread[t].pc \in PlayingPcs, UNCHANGED mediaPlaybackActive
      PROVE  SwapInv'
  BY <1>0, <1>1, GoesSwap
<1>2. {"lock", "loop", "fill", "process", "done"} \subseteq ThreadPcs \ {"join"}
  BY DEF ThreadPcs
<1>3. CASE \E t \in Callers : Activating(t)
  BY <1>3, ActivatingSwap
<1>4. CASE \E t \in Threads : Deactivating(t)
  BY <1>4, DeactivatingSwap
<1>5. ASSUME NEW t \in Callers, DeactivateBegin(t) PROVE SwapInv'
  BY <1>1, <1>2, <1>5 DEF DeactivateBegin, PlayingPcs
<1>6. ASSUME NEW c \in Captures, CaptureLoop(c) \/ CaptureProcess(c) PROVE SwapInv'
  BY <1>1, <1>2, <1>6 DEF CaptureLoop, CaptureProcess, AfterFill, PlayingPcs
<1>7. CASE Disconnected \/ ShutdownBegin
  BY <1>0, <1>1, <1>2, <1>7 DEF Disconnected, ShutdownBegin, PlayingPcs
<1>8. CASE ShutdownUnregister
  <2>1. /\ \A x \in Threads \ {"shutdown"} : thread'[x] = thread[x]
        /\ thread'["shutdown"].pc = "unjoined" /\ thread["shutdown"].pc = "unregister"
        /\ UNCHANGED mediaPlaybackActive
    BY <1>0, <1>8 DEF ShutdownUnregister, ThreadStates
  <2> QED BY <1>0, <2>1, SwapKept DEF PlayingPcs
<1>9. CASE ShutdownJoined
  <2>1. "finished" \in ThreadPcs \ ({"join"} \cup PlayingPcs) /\ thread["shutdown"].joins # "shutdown"
    BY <1>0, JoinsAnother DEF ThreadPcs, PlayingPcs, PlaybackInv
  <2> QED BY <1>0, <1>9, <2>1, AfterJoinSwap DEF ShutdownJoined
<1>10. CASE HostNext
  BY <1>3, <1>4, <1>5, <1>6, <1>7, <1>8, <1>9, <1>10 DEF HostNext
<1>11. CASE (\E t \in Callers : BridgeCalls(t)) \/ UNCHANGED playbackVars
  BY <1>11 DEF BridgeCalls, hostVars, playbackVars, SwapInv
<1>12. ASSUME NEW c \in Captures, NEW filled \in BOOLEAN, CaptureFills(c, filled) PROVE SwapInv'
  <2>1. /\ thread'[c].pc = AfterFill(c, filled) /\ thread'[c].stop = thread[c].stop
        /\ \A x \in Threads \ {c} : thread'[x] = thread[x]
    BY <1>0, <1>12, FillsShape
  <2>2. thread[c].pc = "fill" /\ UNCHANGED mediaPlaybackActive
    BY <1>12 DEF CaptureFills
  <2>3. "fill" \in PlayingPcs /\ AfterFill(c, filled) # "join"
    BY DEF PlayingPcs, AfterFill
  <2> QED BY <2>1, <2>2, <2>3, SwapKept
<1> QED BY <1>10, <1>11, <1>12 DEF Next, BridgeFills

\* Thread t is about to end the session, and capture thread c has played it and will
\* end it at the first tick it gets nothing for.
WillEnd(t) == call[t] = "deactivate" /\ thread[t].pc \in {"idle", "lock"}
Drains(c) == thread[c].observed /\ ~thread[c].stop /\ thread[c].pc \in FeedingPcs

\* Who is to end a session that is on stays so, and an activation that is on its way out
\* comes to its answer.
LEMMA ActiveGoesOn ==
    ASSUME PlaybackInv, HeldInv, SwapInv, ReaderCalls, HostNext,
           mediaPlaybackActive, mediaPlaybackActive'
    PROVE  /\ \A t \in Callers : WillEnd(t) => WillEnd(t)'
           /\ \A c \in Captures : Drains(c) => Drains(c)'
           /\ thread["reader"].pc = "assign" => thread'["reader"].pc = "assign" \/ call'["reader"] = "ok"
<1>0. /\ TypeOK /\ CallTypeOK /\ thread \in [Threads -> ThreadStates] /\ call \in [Callers -> CallStates]
      /\ "reader" \in Callers /\ Callers \cap Captures = {}
      /\ "callback" \notin Callers \cup Captures /\ "shutdown" \notin Callers \cup Captures
  BY PlaybackAssumption, PlaybackCallers DEF PlaybackInv, TypeOK, CallTypeOK
<1> DEFINE GoesOn == /\ \A t \in Callers : WillEnd(t) => WillEnd(t)'
                     /\ \A c \in Captures : Drains(c) => Drains(c)'
                     /\ thread["reader"].pc = "assign" =>
                          thread'["reader"].pc = "assign" \/ call'["reader"] = "ok"
<1>1. ASSUME NEW t \in Threads, t \notin Captures,
             t = "reader" => call["reader"] = "activate" /\ (thread["reader"].pc = "assign" => call'["reader"] = "ok"),
             t \in Callers => t = "reader",
             \A x \in Callers \ {t} : call'[x] = call[x],
             \A x \in Threads \ {t} : thread'[x] = thread[x] \/ thread[x].pc = "done"
      PROVE  GoesOn
  <2>1. \A x \in Callers : thread[x].pc # "done"
    BY <1>0 DEF PlaybackInv, PlacedInv, Placed
  <2>2. ASSUME NEW x \in Callers, WillEnd(x) PROVE WillEnd(x)'
    <3>1. x # t
      BY <1>1, <2>2 DEF WillEnd
    <3> QED BY <1>1, <2>1, <2>2, <3>1 DEF WillEnd
  <2>3. ASSUME NEW c \in Captures, Drains(c) PROVE Drains(c)'
    BY <1>1, <2>3 DEF Drains, FeedingPcs
  <2>4. thread["reader"].pc = "assign" => thread'["reader"].pc = "assign" \/ call'["reader"] = "ok"
    BY <1>0, <1>1, <2>1
  <2> QED BY <2>2, <2>3, <2>4
<1>2. ASSUME NEW t \in Callers, Activating(t) PROVE GoesOn
  <2>1. t = "reader" /\ call["reader"] = "activate" /\ t \in Threads /\ thread[t].joins # t
    BY <1>2, ActivatingIsReader, JoinsAnother DEF ReaderCalls, PlaybackInv
  <2>2. thread["reader"].pc \notin SwapPcs
    BY DEF PlaybackInv, PlacedInv
  <2>3. ActivateBegin(t) \/ ActivateJoined(t) \/ ActivateCheck(t) \/ ActivateAssigned(t)
    BY <1>2, <2>1, <2>2
    DEF Activating, SwapPcs, ensure_custom_capture_device_registered, snapshot_media_playback_session,
        CustomClose, CustomOpen, CustomFlags, ActivateCommit
  <2>4. ASSUME NEW th, NEW result, Ends(th, t, result)
        PROVE  /\ \A x \in Threads \ {t} : thread'[x] = th[x]
               /\ \A x \in Callers \ {t} : call'[x] = call[x]
               /\ call'[t] = result
    <3>1. \A x \in Threads \ {t} : thread'[x] = th[x]
      BY <2>4, ActivatingType, <1>2 DEF Ends, TypeOK
    <3>2. Answer(t, result)
      BY <2>4 DEF Ends
    <3> QED BY <1>0, <3>1, <3>2 DEF Answer
  <2>5. CASE ActivateBegin(t)
    <3>1. UNCHANGED call /\ thread[t].pc = "idle" /\ \A x \in Threads \ {t} : thread'[x] = thread[x]
      BY <1>0, <2>5 DEF ActivateBegin, Goes
    <3> QED BY <1>0, <1>1, <2>1, <3>1
  <2>6. CASE ActivateJoined(t)
    <3>1. UNCHANGED call /\ thread[t].pc = "stale" /\ thread' = AfterJoin(thread, t, "check") /\ Joined(t)
      BY <2>6 DEF ActivateJoined
    <3>2. "check" \in ThreadPcs
      BY DEF ThreadPcs
    <3>3. \A x \in Threads \ {t} : thread'[x] = thread[x] \/ thread[x].pc = "done"
      BY <1>0, <2>1, <3>1, <3>2, JoinedOff
    <3> QED BY <1>0, <1>1, <2>1, <3>1, <3>3
  <2>7. CASE ActivateCheck(t)
    <3>1. thread[t].pc = "check" /\ \E result : Ends(thread, t, result)
      BY <2>7 DEF ActivateCheck, Returns
    <3> QED BY <1>0, <1>1, <2>1, <2>4, <3>1
  <2>8. CASE ActivateAssigned(t)
    <3>1. Joined(t) /\ Ends(AfterJoin(thread, t, "idle"), t, "ok")
      BY <2>8 DEF ActivateAssigned
    <3>2. "idle" \in ThreadPcs
      BY DEF ThreadPcs
    <3>3. \A x \in Threads \ {t} : \/ AfterJoin(thread, t, "idle")[x] = thread[x]
                                  \/ thread[x].pc = "done"
      BY <1>0, <2>1, <3>1, <3>2, JoinedOff
    <3>4. /\ \A x \in Threads \ {t} : thread'[x] = AfterJoin(thread, t, "idle")[x]
          /\ \A x \in Callers \ {t} : call'[x] = call[x]
          /\ call'[t] = "ok"
      BY <2>4, <3>1
    <3>5. \A x \in Threads \ {t} : thread'[x] = thread[x] \/ thread[x].pc = "done"
      BY <3>3, <3>4
    <3> QED BY ONLY <1>0, <1>1, <2>1, <3>4, <3>5
  <2> QED BY <2>3, <2>5, <2>6, <2>7, <2>8
<1>3. ASSUME NEW t \in Threads, Deactivating(t) PROVE FALSE
  <2>1. thread[t].pc \notin RestorePcs \cup {"join"}
    BY DEF HeldInv, SwapInv
  <2>2. DeactivateLock(t)
    BY <1>3, <2>1 DEF Deactivating, DeactivateJoined, RestoreClose, RestoreOpen, RestoreFlags,
                      RestoreError, RestorePcs
  <2> QED BY <2>2 DEF DeactivateLock
<1>4. ASSUME NEW t \in Callers, DeactivateBegin(t) PROVE GoesOn
  <2>1. /\ thread'[t].pc = "lock" /\ thread[t].pc = "idle" /\ UNCHANGED call
        /\ \A x \in Threads \ {t} : thread'[x] = thread[x]
    BY <1>0, <1>4 DEF DeactivateBegin, Goes, ThreadStates
  <2> QED BY <1>0, <2>1 DEF WillEnd, Drains
<1>5. ASSUME NEW c \in Captures, CaptureLoop(c) \/ CaptureProcess(c) PROVE GoesOn
  <2>1. UNCHANGED call /\ c \notin Callers /\ c \in Threads
    BY <1>0, <1>5 DEF CaptureLoop, CaptureProcess
  <2>2. PICK pc \in {"loop", "fill", "process", "lock", "done"} :
            Goes(c, pc) /\ (thread[c].observed /\ ~thread[c].stop => pc \in FeedingPcs)
    BY <1>5 DEF CaptureLoop, CaptureProcess, AfterFill, FeedingPcs
  <2>3. /\ thread'[c].pc = pc /\ thread'[c].stop = thread[c].stop
        /\ thread'[c].observed = thread[c].observed
        /\ \A x \in Threads \ {c} : thread'[x] = thread[x]
    BY <1>0, <2>2 DEF Goes, ThreadStates
  <2>4. \A t \in Callers : thread'[t] = thread[t] /\ call'[t] = call[t]
    BY <2>1, <2>3
  <2>5. Drains(c) => Drains(c)'
    BY <2>2, <2>3 DEF Drains
  <2>6. \A d \in Captures \ {c} : Drains(d) => Drains(d)'
    BY <2>3 DEF Drains
  <2> QED BY <1>0, <2>4, <2>5, <2>6 DEF WillEnd
<1>6. CASE Disconnected \/ ShutdownBegin \/ ShutdownUnregister \/ ShutdownJoined
  <2>1. UNCHANGED call
    BY <1>6 DEF Disconnected, ShutdownBegin, ShutdownUnregister, ShutdownJoined
  <2>2. CASE Disconnected
    <3>1. \A x \in Threads \ {"callback"} : thread'[x] = thread[x]
      BY <1>0, <2>2 DEF Disconnected, Goes
    <3> QED BY <1>0, <1>1, <2>1, <3>1
  <2>3. CASE ShutdownBegin \/ ShutdownUnregister
    <3>1. \A x \in Threads \ {"shutdown"} : thread'[x] = thread[x]
      BY <1>0, <2>3 DEF ShutdownBegin, ShutdownUnregister, Goes
    <3> QED BY <1>0, <1>1, <2>1, <3>1
  <2>4. CASE ShutdownJoined
    <3>1. "finished" \in ThreadPcs /\ "shutdown" \in Threads /\ thread["shutdown"].joins # "shutdown"
      BY JoinsAnother DEF ThreadPcs, PlaybackInv
    <3>2. \A x \in Threads \ {"shutdown"} : thread'[x] = thread[x] \/ thread[x].pc = "done"
      BY <1>0, <2>4, <3>1, JoinedOff DEF ShutdownJoined
    <3> QED BY <1>0, <1>1, <2>1, <3>1, <3>2
  <2> QED BY <1>6, <2>2, <2>3, <2>4
<1> QED BY <1>2, <1>3, <1>4, <1>5, <1>6 DEF HostNext

\* A session begins with an activation that comes to its answer.
LEMMA ActiveBegins ==
    ASSUME PlaybackInv, ReaderCalls, HostNext, ~mediaPlaybackActive, mediaPlaybackActive'
    PROVE  /\ call["reader"] = "activate"
           /\ thread'["reader"].pc = "assign" \/ call'["reader"] = "ok"
<1>0. /\ TypeOK /\ CallTypeOK /\ thread \in [Threads -> ThreadStates] /\ call \in [Callers -> CallStates]
  BY DEF PlaybackInv, TypeOK, CallTypeOK
<1>1. PICK t \in Callers : ActivateCommit(t)
  BY DEF HostNext, Activating, ActivateBegin, ActivateJoined, ActivateCheck,
     ensure_custom_capture_device_registered, snapshot_media_playback_session, CustomClose,
     CustomOpen, CustomFlags, ActivateAssigned, DeactivateBegin, Deactivating, DeactivateLock,
     DeactivateJoined, RestoreClose, RestoreOpen, RestoreFlags, RestoreError, CaptureLoop,
     CaptureProcess, Disconnected, ShutdownBegin, ShutdownUnregister, ShutdownJoined
<1>2. t = "reader" /\ call["reader"] = "activate" /\ thread[t].pc = "commit"
  BY <1>1, ActivatingIsReader DEF Activating, ReaderCalls, ActivateCommit, ActivationPcs
<1>3. PICK c \in Captures :
        \/ Ends([thread EXCEPT ![c] = Idle("loop")], t, "ok")
        \/ thread' = [thread EXCEPT ![c] = Idle("loop"), ![captureThread].stop = TRUE,
                                    ![t].pc = "assign", ![t].joins = captureThread]
  BY <1>1 DEF ActivateCommit
<1>4. CASE Ends([thread EXCEPT ![c] = Idle("loop")], t, "ok")
  BY <1>0, <1>2, <1>4 DEF Ends, Answer
<1>5. CASE thread' = [thread EXCEPT ![c] = Idle("loop"), ![captureThread].stop = TRUE,
                                    ![t].pc = "assign", ![t].joins = captureThread]
  <2>1. t \notin Captures /\ t # NoCapture /\ t \in Threads
    BY PlaybackAssumption
  <2>2. thread'[t].pc = "assign"
    BY <1>0, <1>5, <2>1 DEF TypeOK, ThreadStates
  <2> QED BY <1>2, <2>2
<1> QED BY <1>2, <1>3, <1>4, <1>5

\* A capture thread that got a tick of a session that is on will end it.
LEMMA FillsDrain ==
    ASSUME PlaybackInv, SwapInv, NEW c \in Captures, NEW filled \in BOOLEAN, CaptureFills(c, filled)
    PROVE  /\ UNCHANGED <<call, mediaPlaybackActive>>
           /\ \A x \in HostThreads : thread'[x] = thread[x]
           /\ \A d \in Captures : Drains(d) => Drains(d)'
           /\ filled /\ mediaPlaybackActive => Drains(c)'
<1>0. TypeOK /\ thread \in [Threads -> ThreadStates] /\ c \in Threads /\ c \notin HostThreads
  BY PlaybackAssumption DEF PlaybackInv, TypeOK
<1>1. /\ UNCHANGED <<call, mediaPlaybackActive>> /\ thread[c].pc = "fill"
      /\ thread' = [thread EXCEPT ![c].pc = AfterFill(c, filled), ![c].observed = @ \/ filled]
  BY DEF CaptureFills
<1>2. /\ thread'[c].pc = AfterFill(c, filled) /\ thread'[c].stop = thread[c].stop
      /\ \A x \in Threads \ {c} : thread'[x] = thread[x]
  BY <1>0, FillsShape
<1>3. thread[c].observed \/ filled => thread'[c].observed /\ thread'[c].pc \in FeedingPcs
  BY <1>0, <1>1, <1>2 DEF ThreadStates, AfterFill, FeedingPcs
<1>4. mediaPlaybackActive => ~thread[c].stop
  BY <1>1 DEF SwapInv, PlayingPcs
<1>5. Drains(c) \/ (filled /\ mediaPlaybackActive) => Drains(c)'
  BY <1>2, <1>3, <1>4 DEF Drains
<1>6. \A d \in Captures \ {c} : Drains(d) => Drains(d)'
  BY <1>2 DEF Drains
<1> QED BY <1>0, <1>1, <1>2, <1>5, <1>6

\* Before anybody calls, TeamSpeak has the user's settings.
LEMMA HeldInit == Init => HeldInv /\ SwapInv /\ ReaderCalls
<1> SUFFICES ASSUME Init PROVE HeldInv /\ SwapInv /\ ReaderCalls
  OBVIOUS
<1>1. \A t \in Threads : thread[t].pc \in {"off", "idle"} /\ thread[t].saved.open = FALSE
  BY DEF Init, Idle, NoSession
<1>2. \A t \in Threads : ~Holds(t) /\ thread[t].pc \notin RestorePcs /\ thread[t].pc # "restore flags"
  BY <1>1 DEF Holds, RestorePcs
<1>3. HeldInv
  BY <1>2 DEF HeldInv, Init
<1>4. SwapInv
  BY <1>1 DEF SwapInv, PlayingPcs
<1>5. ReaderCalls
  BY <1>1, PlaybackCallers DEF ReaderCalls, ActivationPcs
<1> QED BY <1>3, <1>4, <1>5

\* With no session, and nobody at work on one, TeamSpeak has them again.
LEMMA GivenBack ==
    ASSUME HeldInv, ~mediaPlaybackActive, \A t \in Threads : thread[t].pc \notin HoldingPcs
    PROVE  device = "mic" /\ input = "user"
BY HoldsAt DEF HeldInv

================================================================================
