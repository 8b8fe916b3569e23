SPECIFICATION Spec
CONSTANTS
  Callers = {main, feedback}
  Main = main
  NoCaller = NoCaller
  CSeqMax = 4
  Frames <- MCFrames
  Bodies <- MCBodies
  NonceMax = 2
INVARIANTS
  OwnAnswer
CHECK_DEADLOCK FALSE
