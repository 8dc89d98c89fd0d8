SPECIFICATION Resumed
CONSTANTS
  t1 = t1
  t2 = t2
  TaskList <- One
  FirstMax = 2
  SecondMax = 2
  MaxSteps = 1
  OtherRuns <- Others
  Faults = {"infrastructure", "provider", "contract"}
  MaxFaults = 1
  MaxCrashes = 1
  MaxSigints = 1
  MaxReruns = 1
INVARIANTS
  AttemptsAreDue
  FilesAreAhead
  CompleteIsSettled
PROPERTY RunCompletes
CHECK_DEADLOCK FALSE
