SPECIFICATION Spec
CONSTANTS
  Keys = {k1, k2}
  NumSlots = 2
  Configs = {c1}
  Blank = Blank
  Torn = Torn
  k1 = k1
  k2 = k2
  c1 = c1
  MaxRef = 2
  MaxCrashes = 1
  MaxSaveFailures = 1
  RestoreFaults = {"read", "entries"}
SYMMETRY Symmetry
INVARIANTS TypeOK OwnersContained CountersExact SlotsAccounted
PROPERTIES PinnedUndisturbed IsACache
CHECK_DEADLOCK FALSE
