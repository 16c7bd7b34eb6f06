CONSTANTS
  MaxLogins = 2
  MaxGen = 1
  MaxSteps = 2
SPECIFICATION Spec
CHECK_DEADLOCK FALSE
INVARIANT StopsRetrying
