SPECIFICATION Spec
CONSTANTS
  Targets = {t1, t2}
  Entries = {e1, e2}
  Captures = {c1, c2}
  NoTarget = NoTarget
  NoEntry = NoEntry
  NoCapture = NoCapture
SYMMETRY Symmetry
INVARIANTS
  NoBroadcastWithoutStreams
CHECK_DEADLOCK FALSE
