SPECIFICATION EditorSpec
CONSTANTS
  Tests = {t1, t2}
  Sections = {s1, s2}
  Groups = {g1, g2}
  Questions = {q1, q2}
  Scores = {1, 2}
  DefaultTotal = 0
  Editors = {e1, e2}
  Admins = {e2}
  Missing = Missing
CONSTANT Workloads <- MCWorkloads
INVARIANTS TreeTypeOK TotalsFollowQuestions
PROPERTIES PublishedFrozen ClonesMatch
CHECK_DEADLOCK FALSE
