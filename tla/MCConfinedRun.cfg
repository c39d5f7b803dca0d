SPECIFICATION ConfinedSpec
CONSTANTS
  c1 = c1
  c2 = c2
  c3 = c3
  w = w
  h = h
  Command = {c1, c2, c3}
  Policy = "require_human_review"
  Overlap = FALSE
  StoreFailures = TRUE
  Writer = w
  Children = {h}
  Settings <- SomeSettings
  Hosts <- SomeHosts
  Kilo = 2
  MaxBytes = 24
  MaxProcesses = 3
INVARIANTS
  ReviewedRunIsClean
  RowFollowsFile
  TracedFailureIsRecorded
  StrictClaimIsTrue
  ReviewedRunWasConfined
PROPERTIES
  DecisionStands
  StraysAreBroughtIn
CHECK_DEADLOCK FALSE
