SPECIFICATION ListSpec
CONSTANTS
  Errors = {e1, e2, e3}
  ZeroError = zero
  Nothing = none
  MaxEList = 3
INVARIANTS Inv
PROPERTIES
  ImplementsQueue
