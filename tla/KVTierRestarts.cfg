SPECIFICATION FairSpec
CONSTANTS
  Keys = {k1, k2}
  NumSlots = 1
  Configs = {c1, c2}
  Blank = Blank
  Torn = Torn
  k1 = k1
  k2 = k2
  c1 = c1
  c2 = c2
  MaxRef = 2
  MaxCrashes = 2
  MaxSaveFailures = 2
  RestoreFaults = {"read", "entries"}
INVARIANTS HitsContained IndexCurrent
PROPERTY DirtyIsSaved
CHECK_DEADLOCK FALSE
