SPECIFICATION ServiceSpec
CONSTANTS
  p1 = p1
  x1 = x1
  t1 = t1
  h1 = h1
  m1 = m1
  m2 = m2
  Posts = {p1}
  Clears = {x1}
  Dashboards = {}
  Tenants = {t1}
  TenantOf <- OneTenant
  Claimed <- OwnTenant
  Severity <- Errors
  NoTenant = NoTenant
  SavedLevels = {"none"}
  MaxCrashes = 1
  Calls <- AllCalls
  Primary = m2
  Fallbacks <- Models
  Queries = {h1}
  QueryTenant <- QueryTenants
  MaxListed = 1
INVARIANTS FailoverIsComplete HealthAlwaysGiven SeverityRespected
PROPERTIES RefinesIngest PostEnds DiagnosisEnds QueryEnds
