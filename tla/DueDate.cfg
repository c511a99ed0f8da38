SPECIFICATION Spec
CONSTANTS
  Distances <- MCDistances
  Runs <- MCRuns
  Wide = Wide
INVARIANT DueWithinADay
CHECK_DEADLOCK FALSE
