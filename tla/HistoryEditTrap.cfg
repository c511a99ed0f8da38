SPECIFICATION Spec
CONSTANTS
  MaxVehicles = 1
  MaxDay = 2
  MaxDocs = 1
  MaxRemote = 0
  MaxSteps = 5
  MaxFaults = 0
  MaxDeaths = 1
  MaxTorn = 0
PROPERTIES HistoryEditCanBeSaved
CHECK_DEADLOCK FALSE
