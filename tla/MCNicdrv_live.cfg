SPECIFICATION FairSpec
CONSTANTS
  Threads = {t1, t2}
  None = none
  MaxBuf = 2
  MaxReq = 1
  MaxSend = 2
  MaxNet = 4
  SendFails = TRUE
PROPERTIES
  EveryCallReturns
CHECK_DEADLOCK FALSE
