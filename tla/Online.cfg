SPECIFICATION FairSpec
CONSTANTS
  MaxTargets = 2
  MaxUnlistens = 2
  MaxSwitches = 3
  MaxFails = 3
INVARIANTS AssertionsHold OnlineMeansOpen IdleMeansNoTargets NeededStreamIsStarted WaitingIsTimed
PROPERTIES WaitingEnds ComesOnline
CHECK_DEADLOCK FALSE
