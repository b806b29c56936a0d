SPECIFICATION FairSpec
CONSTANTS
  A = A
  B = B
  r1 = r1
  r2 = r2
  n0 = n0
  n1 = n1
  NoInst = NoInst
  NoReq = NoReq
  NoLogin = NoLogin
  ManagedKey = ManagedKey
  FirstLogin = n0
  Instances <- Both
  Requests <- TwoRequests
  Requester <- RequestedByEach
  Logins <- TwoLogins
  SwitchKinds <- AllKinds
  Budget <- HandOverBudget
PROPERTY HandOverCompletes
\* The budgets end every behaviour: when they are spent the system may stop.
CHECK_DEADLOCK FALSE
