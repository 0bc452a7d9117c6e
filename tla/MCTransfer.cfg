SPECIFICATION FairSpec
CONSTANTS
  None = None
  MaxOut = 3
  maxdata = 2
  MaxSize = 5
  MaxTwice = 2
  SDOdata = 5
  Lengths = {1, 4, 5, 6, 12, 17, 18, 30}
  EC_MAXODLIST = 7
  PerFrame = 3
  MaxCount = 9
  MaxSubs = 3
  SoEdata = 2
  SoELengths = {0, 1, 2, 3, 4, 5, 6}
  Block = 2
  EoEdata = 3
  Stamp = 1
  EoELengths = {1, 2, 3, 4, 5, 7}
  Buffers = {4, 5, 6, 8, 9}
  MaxFrames = 2
INVARIANTS FilesAreWhole  
PROPERTY CallReturns
CHECK_DEADLOCK FALSE
