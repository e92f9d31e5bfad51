SPECIFICATION ReseatSpec
CONSTANTS
  NumNodes = 2
  Indices = {"3", "4"}
INVARIANT ZeroMeansHealed
CHECK_DEADLOCK FALSE
