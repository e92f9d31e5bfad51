SPECIFICATION ToolsSpec
CONSTANTS
  NumRanks = 2
  f1 = f1
  f2 = f2
  Files = {f1, f2}
  Comment = Comment
  MountLists <- Lists
  Newlines = {TRUE, FALSE}
  MaxSshFailures = 1
  NumJobs = 4
  Workers = 2
  MaxGarbled = 1
  MaxMissed = 2
  MaxChunks = 4
  MaxTokens = 2
  MaxClock = 5
  MinMarks = 3
  NumWindows = 2
  NumNodes = 3
  Indices = {"3", "4"}
INVARIANTS
  ToolsTypeOK
  PassMeansChecked
  StatusIsTheAnswers
  ClientsAgree
  WindowsAreOfTheAnswer
  QuietMeansHealed
CHECK_DEADLOCK FALSE
