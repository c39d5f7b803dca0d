SPECIFICATION HelpersSpec
CONSTANTS
  Sustained = 2
  Clear = 2
  PauseSpawns = TRUE
  Compaction = TRUE
  MaxCount = 3
  Candidates <- MCCandidates
  Listings <- MCListings
  Readings <- AnyRead
  MaxEvents = 2
  MaxSamples = 6
  Configs <- SmallConfigs
  Budgets <- SmallBudgets
  Requests <- SomeRequests
  MaxCandidates = 4
  MaxTokens = 7
INVARIANTS
  PauseIsEarned
  ReleaseIsEarned
  OomIsNeverMissed
  VictimIgnoresOrder
  TokensAreCapped
CHECK_DEADLOCK FALSE
