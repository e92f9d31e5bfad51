SPECIFICATION Spec
CONSTANTS
  NumRanks = 2
  f1 = f1
  f2 = f2
  Files = {f1, f2}
  Comment = Comment
  MountLists <- Lists
  Newlines = {TRUE}
  MaxSshFailures = 0
INVARIANT EveryPatchFileChecked
CHECK_DEADLOCK FALSE
