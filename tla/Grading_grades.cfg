SPECIFICATION GradingSpec
CONSTANTS
  v = v
  g = g
  l = l
  x = x
  Questions = {v, g, l, x}
  Options = {0, 1}
  Scores = {18, 60, 1000}
  Papers <- MCPapers
  None = None
  MaxEdits = 1
INVARIANT GradingTypeOK
PROPERTIES PassIsEarned SnapshotExplainsResult
