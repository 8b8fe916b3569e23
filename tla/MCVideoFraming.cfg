SPECIFICATION FairSpec
CONSTANTS
  Sets = {p1, p2}
  NoSet = NoSet
  Noise = Noise
  MisreadMax = 3
  SliceMax = 2
  UnitMax = 4
INVARIANTS
  Inv
  NoUnitMissing
PROPERTIES
  PicturesShown
CHECK_DEADLOCK FALSE
