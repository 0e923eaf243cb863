SPECIFICATION AppSpec
CONSTANTS
  Ids = {1}
  Bases = {b}
  PaidPlans = {"BASIC"}
  Requests = {q1}
  Tasks = {t1, t2}
  MaxRetries = 1
  MaxFaults = 0
  Phones = {p1}
  ContactKeys = {k1}
  None = None
CONSTANT Traffic <- MCDeployed
PROPERTIES SetUpCompletes
CHECK_DEADLOCK FALSE
