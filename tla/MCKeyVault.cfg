SPECIFICATION GuardsSpec
CONSTANTS
  provider = provider
  account = account
  MaxVersion = 3
  Secrets <- TwoSecrets
  Budget <- VaultBudget
  Lockers = {daemon, peer}
  LockPaths <- TwoPaths
  Inodes = {1, 2, 3}
  MaxStamp = 4
  NoDir = NoDir
INVARIANT Inv
INVARIANT KeyIsStored
INVARIANT SecretsAreCurrent
INVARIANT OldKeysAreCleaned
INVARIANT RecoveryMarkIsTrue
INVARIANT LocksAreExclusive
