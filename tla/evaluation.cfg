SPECIFICATION Retried
CONSTANTS
  Tasks = 3
  MaxTurns = 2
  BaseSeed = 1
  Seeds = {1, 2}
  Formal = TRUE
  EnvironmentDraws = FALSE
  Faults = {"early", "interrupt", "infrastructure", "crash", "torn", "marker", "redeploy"}
  MaxFaults = 2
  MaxLaunches = 2
INVARIANTS
  EpisodesAreReplayable
  SummaryIsBacked
PROPERTY EvaluationCompletes
CHECK_DEADLOCK FALSE
