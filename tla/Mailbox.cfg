SPECIFICATION Spec
CONSTANTS
  Topics = {i1, i2}
  None = None
  MaxReq = 2
  MaxEmcy = 1
  MaxRepeat = 2
INVARIANTS AnswerIsOwn ExecutedOnce NoMailSkipped
CHECK_DEADLOCK FALSE
