----------------------------- MODULE MCEventDaemon -----------------------------
(* Instances of EventDaemon for TLC.                                          *)
EXTENDS EventDaemon

================================================================================
