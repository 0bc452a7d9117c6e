SPECIFICATION FairSpec
CONSTANTS
  Slaves = {1, 2}
  Words = {0, 1, 2}
  EC_MAXEEPBUF = 4
  Eight = {2}
  MaxCalls = 2
  MaxFaults = 1
  EC_MAXSM = 3
  EC_MAXEEPDO = 4
  EC_MAXNAME = 3
  EC_MAXSLAVE = 6
  MaxLost = 1
  Units = {1, 2, 3}
  MaxMissed = 2
  MaxPower = 2
  Cycles = {0, 2, 3}
  SyncDelay = 5
  Int32 = 64
  MaxTime = 2
  MaxSyncs = 2
  MaxSynced = 1
  MaxMissing = 1
INVARIANTS EepromIsRead  MappingIsSlaves 
   
PROPERTY EepromReturns
CHECK_DEADLOCK FALSE
