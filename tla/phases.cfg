SPECIFICATION Spec
CONSTANTS
  Order <- MCOrder
  G = 2
  SaveSteps = 1
  Configs <- AdmissionConfigs
  Faults = {"error", "crash"}
  MaxFaults = 1
  MaxLaunches = 3
INVARIANTS
  PhasesOnlyIncrease
CHECK_DEADLOCK FALSE
