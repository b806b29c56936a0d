SPECIFICATION StoresSpec
CONSTANTS
  s1 = s1
  s2 = s2
  s3 = s3
  alice = alice
  bob = bob
  Sessions = {s1, s2, s3}
  AccountOf <- Owners
  NoCred = NoCred
  NoAccount = NoAccount
  MaxGen = 1
  SwitchBudget <- MixedBudget
  Layouts <- Backends
  Edits = 1
  Crashes = 2
  r1 = r1
  r2 = r2
  m1 = m1
  m2 = m2
  p1 = p1
  Requests = {r1, r2}
  Models = {m1, m2}
  Unknown = Unknown
  Nothing = Nothing
  ModelOf <- ModelsOf
  First = r1
  Proxied = {r2}
  MaxLines = 3
  MaxTime = 1
  MaxFaults = 1
  MaxOut = 2
  DayLength = 1
  Retained = 1
  Straddles = FALSE
  MaxObserved = 4
  Tolerance = 1
  CyclesShown = 6
  Recent = 2
  Unnamed = Unnamed
  MaxQueryDays = 3
  SeriesDays = 2
  CalendarDays = 4
  Unset = Unset
INVARIANT AccountsAreWhole
INVARIANT LatestIsKept
INVARIANT ClaimsAreSound
INVARIANT UsageIsCounted
INVARIANT RollupsAgree
INVARIANT UsageAddsUp
PROPERTY NothingForeignIsReplaced
PROPERTY HistoryIsKept
\* The budgets end every behaviour: when they are spent the system may stop.
CHECK_DEADLOCK FALSE
