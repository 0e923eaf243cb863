SPECIFICATION TenantSpec
CONSTANTS
  q1 = q1
  q2 = q2
  w1 = w1
  s1 = s1
  s2 = s2
  Tenants = {t1, t2}
  Public = public
  WebThreads = {q1, q2}
  Tasks = {}
  Servers = {s1, s2}
  Own <- MCOwnOf
  Pooled = TRUE
  NoSession = NoSession
  MaxDepth = 0
INVARIANTS NoForeignTenant
