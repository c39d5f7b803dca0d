SPECIFICATION Spec
CONSTANTS
  MaxRequests = 2
  Refusals <- MCRefusals
PROPERTY ImplementsExchange
CHECK_DEADLOCK FALSE
