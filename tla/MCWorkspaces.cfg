SPECIFICATION Spec
CONSTANTS
  r1 = r1
  r2 = r2
  j1 = j1
  j2 = j2
  Runs = {r1}
  Jobs = {j1, j2}
  BranchOf <- OwnBranch
  FailOnDirty = TRUE
  CopyConfig = FALSE
  MergeEnabled = TRUE
  RunFileIgnored = FALSE
  None = None
  Torn = Torn
  Kinds = {"diff --output", "apply --3way", "plan"}
  MaxEdits = 1
  MaxCommits = 1
SYMMETRY Perms
INVARIANTS
  RecordsAgree
  CandidateApplies
PROPERTIES
  AppliesFreshPatch
CHECK_DEADLOCK FALSE
