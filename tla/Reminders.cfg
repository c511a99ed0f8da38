SPECIFICATION Spec
CONSTANTS
  MaxVehicles = 2
  MaxDay = 2
  MaxDocs = 3
  MaxRemote = 0
  MaxSteps = 6
  MaxFaults = 1
  MaxDeaths = 1
  MaxTorn = 1
INVARIANTS TypeOK VehicleIDsUnique RemindersMatchVehicles ScreensShowTheTable GadgetPerVehicle
CHECK_DEADLOCK FALSE
