------------------------- MODULE MCBroadcastCapture -------------------------
(* A small instance of BroadcastCapture for TLC. *)
EXTENDS BroadcastCapture
=============================================================================
