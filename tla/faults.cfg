SPECIFICATION Spec
CONSTANTS
  Slots <- PairSlots
  Tasks <- PairTasks
  Strata = {1}
  PrimaryTask <- PairPrimary
  Stratum <- PairStratum
  ReserveQueue <- PairReserve
  Target = 2
  FirstCap = 1
  PostCap = 2
  BCap = 1
  DemoCap = 3
  StopAfterA = TRUE
  Results = {b1}
  NoPurchase = NoPurchase
  Workers = {w1, w2}
  Faults = {"recoverable", "permanent", "unsaved", "main"}
  MaxFaults = 2
  MaxCrashes = 0
  MaxSigints = 1
  MaxTotal = 2
  MaxReruns = 0
SYMMETRY Symmetry
INVARIANTS
  TypeOK
  OneFlightPerTask
  CoverageIsEarned
  ExitLeavesNothingBehind
  EligibleStopIsDrained
CHECK_DEADLOCK FALSE
