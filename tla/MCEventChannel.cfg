SPECIFICATION FairSpec
CONSTANTS
  MaxRequests = 2
  MaxBody = 2
  FrameSize = 4
INVARIANTS
  IInv
PROPERTIES
  AllAcknowledged
  GoroutinesEnd
CHECK_DEADLOCK FALSE
