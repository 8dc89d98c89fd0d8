SPECIFICATION Spec
CONSTANTS
  Order <- MCOrder
  G = 2
  SaveSteps = 1
  Configs <- Unscheduled
  Faults = {"error", "crash"}
  MaxFaults = 1
  MaxLaunches = 3
INVARIANTS
  AdmissionKeepsItsSchedule
CHECK_DEADLOCK FALSE
