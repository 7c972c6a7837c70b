SPECIFICATION Spec
CONSTANTS
  c1 = c1
  c2 = c2
  p1 = p1
  p2 = p2
  p3 = p3
  d1 = d1
  t1 = t1
  t2 = t2
  Clients = {c1, c2}
  Posters = {p1, p2}
  Diagnosers = {d1}
  Tenants = {t1, t2}
  TenantOf <- OneTenant
  Cap = 1
  NoClient = NoClient
INVARIANT AllClientsSent
