SPECIFICATION Spec
CONSTANTS
  Clients = {c1, c2}
  Tasks = {t1, t2}
  Manifest = {t1, t2}
  MaxSessions = 2
  MaxSteps = 1
  Versions = {"expected"}
  NoTask = NoTask
  MaxRollouts = 2
  MaxLosses = 1
  MaxFaults = 1
  MaxRestarts = 1
SYMMETRY Symmetry
INVARIANTS
  TypeOK
  SlotsArePrivate
PROPERTIES
  EpisodesArePrivate
  RefusedOnlyWhenOrphaned
CHECK_DEADLOCK FALSE
