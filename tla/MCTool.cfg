SPECIFICATION ToolSpec
CONSTANTS
  Objects = {o1, o2}
  Width = 2
  MaxParam = 2
  MaxFaults = 2
  MaxClicks = 2
  Sessions = {s1, s2}
  MaxMishaps = 1
  MaxSwitches = 2
SYMMETRY Symmetry
INVARIANTS LogIsTrue BootMailboxAgrees  SecondTrySucceeds ClearIsPulse 
CHECK_DEADLOCK FALSE
