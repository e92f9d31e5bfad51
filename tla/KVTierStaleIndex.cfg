SPECIFICATION Spec
CONSTANTS
  Keys = {k1, k2}
  NumSlots = 1
  Configs = {c1}
  Blank = Blank
  Torn = Torn
  k1 = k1
  k2 = k2
  c1 = c1
  MaxRef = 1
  MaxCrashes = 1
  MaxSaveFailures = 0
  RestoreFaults = {}
PROPERTY RestoredAreOwnData
CHECK_DEADLOCK FALSE
