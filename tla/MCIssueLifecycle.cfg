SPECIFICATION Spec
CONSTANTS
  r1 = r1
  r2 = r2
  c1 = c1
  c2 = c2
  Run = {r1, r2}
  Command = {c1, c2}
  Policy = "require_human_review"
  Overlap = FALSE
  Ttl = 1
  MaxTime = 2
  MaxEdits = 1
SYMMETRY Perms
INVARIANTS
  OverlapOnlyByRace
  TerminalMutationNeedsApproval
  RecordedStatusMatchesIssue
  OneSummaryPerKind
CHECK_DEADLOCK FALSE
