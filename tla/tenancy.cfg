SPECIFICATION Spec
CONSTANTS
  NoTenant = NoTenant
  t1 = t1
  t2 = t2
  acme = acme
  globex = globex
  console = console
  support = support
  Task = {t1, t2}
  Tenant = {acme, globex}
  Source <- MCSource
  Purpose = {console, support}
  Allowed = {console}
  Impersonable = {support}
  ActorRequired = {console}
  MaxDepth = 3
  MaxMessages = 1
  MaxRequests = 1
SYMMETRY MCSymmetry
INVARIANTS CrossingOnRecord TenantFollowsCause PassComplete
CHECK_DEADLOCK FALSE
