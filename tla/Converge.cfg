SPECIFICATION FairSpec
CONSTANTS
  MaxVehicles = 2
  MaxDay = 2
  MaxDocs = 2
  MaxRemote = 1
  MaxSteps = 5
  MaxFaults = 0
  MaxDeaths = 2
  MaxTorn = 0
INVARIANTS SettledGadgetsAreDocs
PROPERTIES GadgetsConverge ImplementsVehicleBook
CHECK_DEADLOCK FALSE
