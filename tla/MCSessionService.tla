--------------------------- MODULE MCSessionService ----------------------------
(* Instances of SessionService for TLC.                                       *)
EXTENDS SessionService

================================================================================
