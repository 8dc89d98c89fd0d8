SPECIFICATION Spec
CONSTANTS
  t1 = t1
  t2 = t2
  t3 = t3
  Callers = {t1, t2, t3}
  TaskList <- Three
  Threads = 2
  MaxRetries = 2
  MaxSteps = 2
INVARIANT NoRequestAfterStop
CHECK_DEADLOCK FALSE
