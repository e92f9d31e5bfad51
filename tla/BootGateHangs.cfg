SPECIFICATION FairSpec
CONSTANTS
  NumNodes = 2
  Total = 2
  Need = 1
  MaxPolls = 1
  MaxSshFailures = 1
  MaxDisturbances = 0
  MaxHangs = 1
PROPERTY PollingEnds
CHECK_DEADLOCK FALSE
