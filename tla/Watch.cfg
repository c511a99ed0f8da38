SPECIFICATION FairSpec
CONSTANTS
  Keys = {k1,k2}
  MaxChanges = 2
  MaxListens = 3
  MaxUnlistens = 1
  MaxForgets = 1
  MaxRefusals = 1
  MaxFails = 1
  MaxDeaths = 1
INVARIANTS UncutViewIsServers SettledViewIsServers OutstandingAreCounted ModifiedAreListed
PROPERTY ListenConverges
CHECK_DEADLOCK FALSE
