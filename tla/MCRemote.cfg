SPECIFICATION PackSpec
CONSTANTS
  Callers = {a, b, c}
  FailureThreshold = 2
  SuccessThreshold = 2
  MaxItems = 3
  Capacity = 2
  Window = 4
INVARIANTS ClosedBelowThreshold 
PROPERTIES BreakerRecovers
