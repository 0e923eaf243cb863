SPECIFICATION Spec
CONSTANTS
  g1 = g1
  g2 = g2
  s1 = s1
  s2 = s2
  k1 = k1
  Groups = {g1, g2}
  Students = {s1, s2}
  Teachers = {k1}
  Admins = {a1}
  Teaches <- MCTeaches
  First = {g1, g2}
  Enrolled <- MCEnrolled
  Unapproved = {s2}
  Requests = {q1, q2}
  MaxFaults = 1
  Traffic <- MCTraffic
INVARIANTS TypeOK OneNoticeEach OpenIsAnnounced SomebodyAssigned
CHECK_DEADLOCK FALSE
