SPECIFICATION Spec
CONSTANTS
  Tasks = 2
  MaxTurns = 1
  BaseSeed = 1
  Seeds = {1}
  Formal = TRUE
  EnvironmentDraws = FALSE
  Faults = {"early", "interrupt"}
  MaxFaults = 1
  MaxLaunches = 1
INVARIANT InterruptedRunResumes
CHECK_DEADLOCK FALSE
