SPECIFICATION FairSpec
CONSTANTS
  Paths = {"a", "b", "own", "alias", "wild"}
  Targets = {"t1", "t2"}
  NoTarget = "none"
  Own <- OwnRoutes
  NoMap = NoMap
  NoList = NoList
  Refused = {"wild"}
  Clashes <- ClashingPaths
  Versions <- Saved
  MaxSaves = 3
INVARIANT TableAgrees
INVARIANT PanicsForAReason
PROPERTY SavedPathsKnown
CHECK_DEADLOCK FALSE
