SPECIFICATION RedSpec
CONSTANTS
  N = 3
  MaxTry = 2
  MaxChange = 2
INVARIANTS AnswerSound AllServiced
CHECK_DEADLOCK FALSE
