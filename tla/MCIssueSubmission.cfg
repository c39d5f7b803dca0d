SPECIFICATION SubmitSpec
CONSTANTS
  s1 = s1
  s2 = s2
  s3 = s3
  i1 = i1
  i2 = i2
  None = None
  Submitter = {s1, s2, s3}
  Issue = {i1, i2}
  Verdicts = {"unique", "possible_duplicate", "duplicate_blocked"}
  MaxMarks = 1
  Client = {"a", "b"}
  Proposal <- MCProposal
  Standard = {"bug", "tool"}
  Options <- MCOptions
  Configs <- MCConfigs
  FirstLabels = {"local"}
  FirstProjects <- MCProjects
  Shown = 1
  MaxEdits = 1
  Item = {1, 2, 3, 4, 5, 6}
  Attributes <- MCAttributes
  Listed <- MCListed
  Queries <- MCQueries
  PerPage = 2
  MaxChanges = 2
SYMMETRY Perms
INVARIANTS
  OneIssuePerMarker
  LedgerIsTruthful
  LinkedIsWhole
  CreatedIsProvisioned
  ListingIsWhole
CHECK_DEADLOCK FALSE
