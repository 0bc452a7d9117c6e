SPECIFICATION Spec
CONSTANTS
  Threads = {t1, t2}
  None = none
  MaxBuf = 2
  MaxReq = 2
  MaxSend = 2
  MaxNet = 3
  SendFails = FALSE
SYMMETRY Symmetry
INVARIANTS IndexExclusive NoLeak StealOnlyAfterLoss AnswerIsMine
CHECK_DEADLOCK FALSE
