SPECIFICATION AppSpec
CONSTANTS
  Ids = {1, 2}
  Bases = {b}
  PaidPlans = {"BASIC"}
  Requests = {q1, q2}
  Tasks = {t1, t2}
  MaxRetries = 1
  MaxFaults = 1
  Phones = {p1, p2}
  ContactKeys = {k1, k2}
  None = None
CONSTANT Traffic <- MCTraffic
INVARIANTS OneOpenRequest SchemasAreOwned QuietCentersAreWhole PaidIsOpen
PROPERTIES TrialsEnd KeepsLifecycle
CHECK_DEADLOCK FALSE
