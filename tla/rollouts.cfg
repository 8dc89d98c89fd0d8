SPECIFICATION FairSpec
CONSTANTS
  Clients = {c1, c2}
  Tasks = {t1, t2}
  Manifest = {t1}
  MaxSessions = 2
  MaxSteps = 1
  Versions = {"expected", "version", "rng"}
  NoTask = NoTask
  MaxRollouts = 1
  MaxLosses = 1
  MaxFaults = 1
  MaxRestarts = 1
INVARIANTS
  OrphansAreAccounted
PROPERTIES
  RolloutsEnd
CHECK_DEADLOCK FALSE
