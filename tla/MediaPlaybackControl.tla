------------------------- MODULE MediaPlaybackControl -------------------------
(***************************************************************************)
(* The interface bridge::MediaPlaybackControl between the media bridge and *)
(* the backend that owns the TeamSpeak capture device.  A thread that      *)
(* calls activate_media_playback or deactivate_media_playback holds no     *)
(* lock and blocks until the backend returns; call[t] is what thread t is  *)
(* waiting for, or the result it has not looked at yet.                    *)
(***************************************************************************)
CONSTANT Callers     \* the threads that may be inside a control call

VARIABLE call

Requests == {"activate", "deactivate"}
Results == {"ok", "failed"}
CallStates == {"none"} \cup Requests \cup Results

CallTypeOK == call \in [Callers -> CallStates]

CallInit == call = [t \in Callers |-> "none"]

\* Thread t enters activate_media_playback or deactivate_media_playback.
Invoke(t, request) ==
    /\ call[t] = "none"
    /\ call' = [call EXCEPT ![t] = request]

\* The backend's answer: what its body does is the backend's business.
Answer(t, result) ==
    /\ call[t] \in Requests
    /\ call' = [call EXCEPT ![t] = result]

\* Thread t looks at the result and goes on.
Consume(t, result) ==
    /\ call[t] = result
    /\ call' = [call EXCEPT ![t] = "none"]
================================================================================
