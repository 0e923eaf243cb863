SPECIFICATION AccessSpec
CONSTANTS
  q1 = q1
  q2 = q2
  w1 = w1
  s1 = s1
  s2 = s2
  Tenants = {t1, t2}
  Public = public
  WebThreads = {q1}
  Tasks = {w1}
  Servers = {s1, s2}
  Own <- MCOwnOf
  Pooled = FALSE
  NoSession = NoSession
  MaxDepth = 3
  Admins = {a1}
  Members = {u1}
  Links = {l1}
  Requests = {r1, r2}
  None = None
  MaxSets = 2
  Traffic <- MCTraffic
SYMMETRY AllAlike
INVARIANTS TypeOK TenantIsolation CleanBetweenRequests
PROPERTIES LinksWorkOnce OnlyStaleSavesUndo LostOnlyByAbort
