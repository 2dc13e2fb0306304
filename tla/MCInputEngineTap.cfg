CONSTANTS
  MaxPreedit = 1
  LocalModes <- MCLocalModes
  CandidateCounts <- MCCandidateCounts
  Marks <- MCMarks
  Options <- MCOptions
  Persisted <- MCPersisted
  Schemes = {"Quanpin"}
  MaxPending = 2
  MaxNest = 2
SPECIFICATION Spec
CHECK_DEADLOCK FALSE
PROPERTY ToggleNeedsLoneTap
