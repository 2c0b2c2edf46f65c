SPECIFICATION FairSpec
CONSTANTS
  r1 = r1
  r2 = r2
  t1 = t1
  t2 = t2
  c1 = c1
  c2 = c2
  g1 = g1
  g2 = g2
  k1 = k1
  Nobody = Nobody
  Requests = {r1, r2}
  Slow = {r1}
  Tasks = {t1, t2}
  JobOf <- Twice
  Communities = {c1, c2}
  Subscribed = {c1}
  Generations = {g1, g2}
  Early = {g1}
  Keys = {k1}
  GenerationOf <- OneKey
  CrmPool = 2
  MaxCut = 1
PROPERTIES AuditRidesAlong
CHECK_DEADLOCK FALSE
