SPECIFICATION Spec
CONSTANTS
  N = 3
  FPRD_MULTI = 2
  MaxEvents = 1
  MaxCalls = 1
INVARIANTS ListIsObserved AllAtLeast CheckedOrAbsent
CHECK_DEADLOCK FALSE
