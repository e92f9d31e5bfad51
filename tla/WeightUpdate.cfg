SPECIFICATION Spec
CONSTANTS
  NumReplicas = 2
  WorldSize = 2
  SupportsDraft = TRUE
  DraftWorkers <- LastWorkers
  MaxCalls = 4
  MaxFaults = 1
INVARIANTS TypeOK TargetFollowsSession ChunksGoWhereSelected SameModelEverywhere LoraFresh OwnParts
CHECK_DEADLOCK FALSE
