SPECIFICATION FairSpec
CONSTANTS
  Callers = {main, feedback}
  Main = main
  NoCaller = NoCaller
  CSeqMax = 4
  Frames <- MCFrames
  Bodies <- MCBodies
  NonceMax = 2
INVARIANTS
  IInv
  OwnAnswerInTime
  RightPasswordAccepted
PROPERTIES
  CallsReturn
CHECK_DEADLOCK FALSE
