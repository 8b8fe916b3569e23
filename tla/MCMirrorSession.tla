-------------------------- MODULE MCMirrorSession --------------------------
(* Small instances of MirrorSession for TLC. *)
EXTENDS MirrorSession
=============================================================================
