SPECIFICATION FairSpec
CONSTANTS
  e1 = e1
  h1 = h1
  m1 = m1
  m2 = m2
  z1 = z1
  Students = {s1}
  Exams = {e1}
  Homeworks = {h1}
  MockTests = {m1}
  Quizzes = {z1}
  Items <- MCItems
  FirstPaper <- MCFirstPaper
  Timed <- MCTimed
  RowIds = {r1}
  Requests = {q1}
  Workers = {w1}
  Answers = {a1}
  NoAnswers = noAnswers
  None = None
  TaskSeesTenant = FALSE
  MaxVersion = 0
  MaxCrashes = 0
PROPERTIES StuckIsSubmitted
