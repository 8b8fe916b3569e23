--------------------------- MODULE MCAudioStream ---------------------------
(* Small instances of AudioStream for TLC. *)
EXTENDS AudioStream

\* One timeline that crosses the end of the range, and one that does not.
MCEpochs == {0, RtpMod - 2 * Spf}
=============================================================================
