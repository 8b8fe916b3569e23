SPECIFICATION FanFairSpec
CONSTANTS
  Sinks = {s1, s2}
  NoSink = NoSink
  ChunkMax = 2
  PieceMax = 4
INVARIANTS
  FanInv
  Gapless
  InStep
PROPERTIES
  WritesEnd
  ReadersLearnOfEnd
CHECK_DEADLOCK FALSE
