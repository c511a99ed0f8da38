SPECIFICATION Spec
CONSTANTS
  MaxVehicles = 2
  MaxDay = 2
  MaxDocs = 2
  MaxRemote = 0
  MaxSteps = 6
  MaxFaults = 0
  MaxDeaths = 0
  MaxTorn = 0
PROPERTIES EditWritesOwnGadget
CHECK_DEADLOCK FALSE
