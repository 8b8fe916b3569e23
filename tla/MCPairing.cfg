SPECIFICATION FairSpec
CONSTANTS
  Kinds <- AllKinds
  MaxFaults = 3
  MaxRuns = 3
INVARIANTS
  IInv
  ChannelAgrees
  NothingForgotten
PROPERTIES
  Recovers
CHECK_DEADLOCK FALSE
