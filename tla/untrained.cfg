SPECIFICATION Spec
CONSTANTS
  t1 = t1
  t2 = t2
  TaskList <- One
  FirstMax = 2
  SecondMax = 1
  MaxSteps = 1
  OtherRuns <- Others
  Faults = {}
  MaxFaults = 0
  MaxCrashes = 1
  MaxSigints = 0
  MaxReruns = 0
INVARIANT UnsolvedHasNoTrajectory
CHECK_DEADLOCK FALSE
