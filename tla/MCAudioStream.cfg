SPECIFICATION FairSpec
CONSTANTS
  Depth = 3
  Spf = 2
  RtpMod = 32
  Epochs <- MCEpochs
  MaxLoss = 3
  PipeMax = 1
  QueueMax = 2
  MaxFrames = 8
INVARIANTS
  IInv
  Recovered
  ClockFollows
PROPERTIES
  AudioEnds
CHECK_DEADLOCK FALSE
