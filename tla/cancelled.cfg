SPECIFICATION Spec
CONSTANTS
  t1 = t1
  t2 = t2
  t3 = t3
  Callers = {t1, t2, t3}
  TaskList <- Three
  Threads = 2
  MaxRetries = 1
  MaxSteps = 2
INVARIANT CancelledNeverStarted
CHECK_DEADLOCK FALSE
