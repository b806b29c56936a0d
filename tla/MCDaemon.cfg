SPECIFICATION DaemonSpec
CONSTANTS
  l1 = l1
  l2 = l2
  Logins = {l1, l2}
  ClaudeLogin = TRUE
  MaxCodes = 1
  LoginFaults = 2
  Addresses = {1, 2}
  RequestsMax = 2
  FaultsMax = 1
  RestartsMax = 1
  MovesMax = 1
  OwnerCodes = {33, 34, 36}
  MaxCalls = 4
  r1 = r1
  r2 = r2
  Requests = {r1, r2}
  u1 = u1
  u2 = u2
  Upstreams = {u1, u2}
  Permits = 1
  MaxEdits = 1
  builtin = builtin
  prov1 = prov1
  prov2 = prov2
  Ids = {builtin, prov1, prov2}
  Official = builtin
  Gone = Gone
  Nobody = Nobody
  MaxRev = 2
  Handlers = 3
  JobFaults = 1
  JobCrashes = 1
  UserEdits = 1
INVARIANT LoginsAreClean
INVARIANT ProxyIsCoherent
INVARIANT AnswersAreOwn
PROPERTY ProvidersAreCoherent
\* The budgets end every behaviour: when they are spent the system may stop.
CHECK_DEADLOCK FALSE
