SPECIFICATION FairSpec
CONSTANTS
  NumNodes = 3
  Total = 3
  Need = 2
  MaxPolls = 1
  MaxSshFailures = 2
  MaxDisturbances = 1
  MaxHangs = 1
INVARIANTS TypeOK PassMeansFree StatusSumsUp
PROPERTY GateEnds
CHECK_DEADLOCK FALSE
