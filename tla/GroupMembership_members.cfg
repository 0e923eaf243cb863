SPECIFICATION Spec
CONSTANTS
  Students = {u1, u2}
  Teachers = {k1}
  Requests = {r1, r2}
  Traffic <- MCTraffic
  Limits = {1, 2}
  MaxJoins = 2
SYMMETRY Symmetry
CHECK_DEADLOCK FALSE
INVARIANTS TypeOK RemovalsLogged CountsExact NoOverfill
