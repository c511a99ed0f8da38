SPECIFICATION Spec
CONSTANTS
  MaxVehicles = 1
  MaxDay = 2
  MaxDocs = 1
  MaxRemote = 0
  MaxSteps = 3
  MaxFaults = 1
  MaxDeaths = 0
  MaxTorn = 0
PROPERTIES AddedVehicleIsStored
CHECK_DEADLOCK FALSE
