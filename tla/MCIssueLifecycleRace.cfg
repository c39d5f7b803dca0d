SPECIFICATION Spec
CONSTANTS
  r1 = r1
  r2 = r2
  c1 = c1
  c2 = c2
  Run = {r1, r2}
  Command = {}
  Policy = "automatic_after_quality_gates"
  Overlap = TRUE
  Ttl = 2
  MaxTime = 4
  MaxEdits = 0
INVARIANTS
  AcceptedClaimsAreExclusive
CHECK_DEADLOCK FALSE
