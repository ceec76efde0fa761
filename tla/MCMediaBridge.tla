---------------------------- MODULE MCMediaBridge ----------------------------
(* The media bridge with consumers that come and go and a stop.  In each        *)
(* behaviour either the consumers open sessions, or voice is published to them  *)
(* and they ask for nothing but the status: the two meet only in the outbound   *)
(* queue, and together they are too many for liveness.                          *)
EXTENDS MediaBridge

CONSTANTS VoiceCommands, VoiceHappens

VARIABLE busy      \* with "playback" or with "voice"

Voice == INSTANCE MediaBridge WITH Commands <- VoiceCommands, BridgeHappens <- VoiceHappens

LiveInit == Init /\ busy \in {"playback", "voice"}

LiveNext ==
    /\ UNCHANGED busy
    /\ \/ busy = "playback" /\ Next
       \/ busy = "voice" /\ Voice!Next

\* Who is fair does not depend on what the consumers ask for.
LiveSpec == LiveInit /\ [][LiveNext]_<<vars, busy>> /\ PoliteFairness
==============================================================================
