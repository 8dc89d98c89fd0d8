SPECIFICATION Spec
CONSTANTS
  t1 = t1
  t2 = t2
  TaskList <- One
  FirstMax = 1
  SecondMax = 1
  MaxSteps = 1
  OtherRuns <- Others
  Faults = {}
  MaxFaults = 0
  MaxCrashes = 0
  MaxSigints = 1
  MaxReruns = 0
PROPERTY TrajectoryIsKept
CHECK_DEADLOCK FALSE
