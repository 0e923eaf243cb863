SPECIFICATION Spec
CONSTANTS
  Codes = {c1, c2, c3}
  People = {p1, p2}
  Requests = {r1, r2, r3}
  Aborts = TRUE
  NoOne = NoOne
  NoCode = NoCode
SYMMETRY Symmetry
CHECK_DEADLOCK FALSE
INVARIANTS OneCodeEach NoDeadlock
PROPERTIES OnlyStaleProfilesDemote VoucherKept
