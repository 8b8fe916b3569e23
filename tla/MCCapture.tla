----------------------------- MODULE MCCapture -----------------------------
(* The instance of Capture for TLC. *)
EXTENDS Capture

CONSTANTS c1, c2
MCCallers == {c1, c2}
=============================================================================
