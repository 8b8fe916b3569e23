SPECIFICATION Spec
CONSTANTS
  Targets = {t1, t2}
  Entries = {e1, e2}
  Captures = {c1, c2}
  NoTarget = NoTarget
  NoEntry = NoEntry
  NoCapture = NoCapture
SYMMETRY Symmetry
INVARIANTS
  IInv
  NeedsPINIsAnswerable
  NoOrphanCapture
  NothingLeftOpen
PROPERTIES
  RemovesOnlyItself
  ImplementsLifecycle
CHECK_DEADLOCK FALSE
