SPECIFICATION MCSpec
CONSTANTS
  e1 = e1
  h1 = h1
  m1 = m1
  m2 = m2
  z1 = z1
  Students = {s1}
  Exams = {e1}
  Homeworks = {h1}
  MockTests = {m1, m2}
  Quizzes = {z1}
  Items <- MCItems
  FirstPaper <- MCFirstPaper
  Timed <- MCTimed
  RowIds = {r1, r2}
  Requests = {q1, q2}
  Workers = {w1}
  Answers = {a1}
  NoAnswers = noAnswers
  None = None
  TaskSeesTenant = TRUE
  MaxVersion = 1
  MaxCrashes = 1
SYMMETRY Symmetry
INVARIANTS OneAttempt GradedWhole
PROPERTIES SerialLifecycleKept OnlyStaleCopiesTouchGraded
