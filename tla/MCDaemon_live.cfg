SPECIFICATION FairSpec
CONSTANTS
  Targets = {t1}
  Entries = {e1, e2}
  Captures = {c1}
  NoTarget = NoTarget
  NoEntry = NoEntry
  NoCapture = NoCapture
PROPERTIES
  RemovedStreamsEnd
  ConnectGoesOn
  StreamsEndWithCapture
CHECK_DEADLOCK FALSE
