SPECIFICATION Spec
CONSTANTS
  h1 = h1
  h2 = h2
  Writer = w
  Helpers <- TwoHelpers
  MayRefuse = {h2}
  MayLose = {w}
  Memory = TRUE
  MayLeave = {h1}
  Leftovers = {"holds_output"}
INVARIANTS
  WriterRunsAlone
  SuccessIsAccounted
  NothingLeftRunning
  EndIsRecorded
PROPERTIES
  RuntimeReturns
CHECK_DEADLOCK FALSE
