--------------------------- MODULE MCVideoFraming ---------------------------
(* Small instances of VideoFraming for TLC. *)
EXTENDS VideoFraming
=============================================================================
