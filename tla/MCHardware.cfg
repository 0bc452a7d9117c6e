SPECIFICATION Spec
CONSTANTS
  Line = {1, 2, 3}
  Bits = {1}
  Sizes = {2, 6}
  Pointers = {4, 8}
  MaxSend = 2
  USECS_PER_SEC = 6
  UsecsPerTick = 2
  TickModulus = 12
  Epoch = 3
  Starts = {7, 11, 17, 20}
  Timeouts = {0, 1, 6, 9, 13}
  MaxPassed = 16
  Setups <- Ports
  None = None
  Deleted = Deleted
  NUM_BUFFERS = 2
  MaxFrames = 5
  MaxSent = 4
INVARIANTS FrameSound TimersExpire  
CHECK_DEADLOCK FALSE
