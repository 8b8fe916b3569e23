------------------------------ MODULE MCDaemon ------------------------------
(* Small instances of Daemon for TLC. *)
EXTENDS Daemon, TLC

\* Ids are only compared, and none is chosen by CHOOSE, so that any permutation
\* of each set maps behaviours to behaviours.
Symmetry == Permutations(Targets) \cup Permutations(Entries) \cup Permutations(Captures)
=============================================================================
