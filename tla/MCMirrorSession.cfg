SPECIFICATION FairSpec
CONSTANTS
  MaxTries = 2
  MaxFrames = 2
  ClockMax = 2
INVARIANTS
  IInv
  NothingLost
  TeardownLast
  CutEndsWriter
PROPERTIES
  TimesIncrease
  CloseReturns
CHECK_DEADLOCK FALSE
