SPECIFICATION Spec
CONSTANTS
  MaxContext = 9
  MaxNew = 3
  MaxSteps = 3
  Prompts = {2, 9}
  Observations = {1, 3}
  Alpha = 1
  Modes = {"evaluation", "grpo"}
INVARIANTS
  OnlyWholeActionsArePlayed
  TraceIsOwned
PROPERTY SessionIsReleased
CHECK_DEADLOCK FALSE
