SPECIFICATION Spec
CONSTANTS
  p1 = p1
  p2 = p2
  i1 = i1
  Proc = {p1, p2}
  Issues = {i1}
  IssueOf <- OneIssue
  Ttl = 4
  MinInterval = 1
  MaxInterval = 2
  MaxDelay = 1
  MaxTime = 7
  SameInstantRuns = FALSE
  NoId = NoId
INVARIANTS
  ExclusiveDispatch
  DispatcherHoldsLease
SYMMETRY Perms
PROPERTIES
  ImplementsIssueLease
CHECK_DEADLOCK FALSE
