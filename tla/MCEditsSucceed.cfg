SPECIFICATION TextSpec
CONSTANTS
  Clients = {"codex", "claude"}
  Hosts = {"local", "bad"}
  BadHosts = {"bad"}
  MaxTokens = 2
  MaxKeys = 6
  MaxElsewhere = 1
  StatsClients <- TwoClients
  StatsProviders = {"p"}
  StatsModels = {"m"}
  StatsPlans = {"free"}
  Today = 2
  ChipDays = {1}
  StatsKeys = 6
  StatsFailures = 1
  Catalogue <- List
  KindOf <- KindsOf
  Queries <- Searches
  Nobody = "nobody"
  HomeKeys = 4
  HomeElsewhere = 1
  Forms = {"f1", "f2"}
  ByDiscovery = {"f1"}
  MaxLogins = 2
  Channel = 2
  ScreenKeys = 5
  ScreenFaults = 1
  ForeignAtStart = TRUE
  RouteKeys = {"model", "late"}
  NameKeys = {"label"}
  LegacyKeys = {"model"}
  UserValues = {"u"}
  Unset = Unset
  Mappings <- TwoMappings
  Inert = Inert
  NoSnapshot = NoSnapshot
  NoTarget = NoTarget
  MapJobs = 3
  MapEdits = 1
  MapFaults = 1
  Strings = {"k", "old", "u", "mine", "new", "env", "z", "y"}
  Absent = Absent
  HsinTables = {"hsin", "hsin.auth"}
  NoText = NoText
  None = None
  Drafts <- AllDrafts
  Patches <- AllPatches
  SharedProxies <- AllProxies
  Unfilled = Unfilled
  DraftSteps = 2
  OpenedForms <- SomeForms
  Imported <- SomeProviders
  ModelLists <- SomeLists
  ImageRank <- KnownImages
  PresetsMax = 2
  FormKeys = 7
  Callers = {"c1", "c2"}
  Release <- Releases
  Does <- Requests
  Wire <- OneProtocol
  Restarting = TRUE
  Free = "free"
  Polls = 1
  CommandsMax = 2
  DeathsMax = 1
  Found <- AnyVersion
  LastSecond = 5
  Kills = 2
INVARIANT EditsSucceed
\* The budgets end every behaviour: when they are spent the system may stop.
CHECK_DEADLOCK FALSE
