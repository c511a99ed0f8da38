SPECIFICATION Spec
CONSTANTS
  Keys = {k1,k2}
  MaxChanges = 1
  MaxListens = 2
  MaxUnlistens = 0
  MaxForgets = 1
  MaxRefusals = 0
  MaxFails = 1
  MaxDeaths = 1
INVARIANT CurrentViewIsServers
CHECK_DEADLOCK FALSE
