--------------------------- MODULE MCEventChannel ---------------------------
(* Small instances of EventChannel for TLC. *)
EXTENDS EventChannel
=============================================================================
