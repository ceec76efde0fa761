---------------------------- MODULE MCControlSocket ----------------------------
(* Instances of ControlSocket for TLC.                                         *)
EXTENDS ControlSocket

================================================================================
