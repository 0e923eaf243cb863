SPECIFICATION Spec
CONSTANTS
  u1 = u1
  u2 = u2
  c1 = c1
  m1 = m1
  m2 = m2
  n1 = n1
  n2 = n2
  n3 = n3
  Users = {u1, u2}
  Centers = {c1}
  Materials = {m1, m2}
  Names = {n1, n2, n3}
  FirstFile <- MCFirstFile
  Requests = {q1, q2}
  None = None
  MaxFaults = 1
  Traffic <- MCTraffic
SYMMETRY Alike
INVARIANTS TypeOK FilesExist NoOrphans
CHECK_DEADLOCK FALSE
