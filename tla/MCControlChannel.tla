-------------------------- MODULE MCControlChannel --------------------------
(* Small instances of ControlChannel for TLC. *)
EXTENDS ControlChannel

\* The pairing requests and the plists of SETUP are long, the others short.
MCFrames == [k \in Kinds |-> IF k = "http" THEN 2 ELSE 1]
\* An empty answer is that to /pair-pin-start or SET_PARAMETER; errors have a body.
MCBodies == [s \in {"ok", "401", "error"} |-> IF s = "ok" THEN {0, 1} ELSE {1}]
=============================================================================
