SPECIFICATION FairSpec
CONSTANTS
  Order <- MCOrder
  G = 2
  SaveSteps = 2
  Configs <- AllConfigs
  Faults = {"error", "crash"}
  MaxFaults = 2
  MaxLaunches = 4
INVARIANTS
  TrainedOnSchedule
  ResumedTogether
PROPERTY ResumableRunFinishes
CHECK_DEADLOCK FALSE
