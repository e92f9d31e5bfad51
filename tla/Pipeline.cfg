SPECIFICATION FairSpec
CONSTANTS
  NumRanks = 4
  MaxSteps = 3
INVARIANTS TypeOK TensorsOfThisStep
PROPERTIES AllStepsFinish KeepsOrder
CHECK_DEADLOCK FALSE
