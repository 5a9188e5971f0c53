SPECIFICATION Spec
CONSTANTS
  p1 = p1  p2 = p2  t1 = t1  t2 = t2  h1 = h1
  Processes = {p1, p2}
  Tenants = {t1, t2}
  Hosts = {h1}
  Routes = {"public", "tls", "admin", "auth", "page", "config"}
  Inputs = {0, 2, 3}
  Scenarios <- MCScenarios
PROPERTY DenialIsImmediate
