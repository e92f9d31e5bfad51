SPECIFICATION WorkerSpec
CONSTANTS
  CompileSizes <- Asked
  CaptureSizes <- Graphed
  CompileRanges <- Ranges
  MaxNeed = 2
  OtherCaches = {other}
  Total = 10
  Requested = 7
  Torch = 1
  NonTorch = 1
  Peak = 1
  Graphs = 1
  Estimates = {1, 2}
  Buffer = 1
  Rocm = TRUE
  NoPlan = NoPlan
  MaxBoots = 2
  HasDraft = TRUE
  MaxUpdates = 2
  MaxFaults = 3
INVARIANTS
  TypeOK
  GraphsIntact
  ServesCleanState
  RangesCompiled
  BudgetTypeOK
  MeasuredBootFits
  PlannedBootFits
  SleepTypeOK
  BuffersSurvive
  LostIsSaved
CHECK_DEADLOCK FALSE
