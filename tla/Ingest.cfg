SPECIFICATION Spec
CONSTANTS
  p1 = p1
  p2 = p2
  p3 = p3
  x1 = x1
  d1 = d1
  t1 = t1
  t2 = t2
  Posts = {p1, p2, p3}
  Clears = {x1}
  Dashboards = {d1}
  Tenants = {t1, t2}
  TenantOf <- TwoTenants
  Claimed <- Claims
  Severity <- Severe
  NoTenant = NoTenant
  MaxCrashes = 1
  SavedLevels = {"all", "none"}
INVARIANTS TypeOK DiagnosisOnOwnRow AcceptedDurable ShownIsDurable TenantWalls
