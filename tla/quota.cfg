SPECIFICATION Spec
CONSTANTS
  Slots <- PairSlots
  Tasks <- PairTasks
  Strata = {1}
  PrimaryTask <- PairPrimary
  Stratum <- PairStratum
  ReserveQueue <- NoReserve
  Target = 4
  FirstCap = 1
  PostCap = 2
  BCap = 1
  DemoCap = 3
  StopAfterA = FALSE
  Results = {b1, b2}
  NoPurchase = NoPurchase
  Workers = {w1, w2}
  Faults = {}
  MaxFaults = 0
  MaxCrashes = 1
  MaxSigints = 0
  MaxTotal = 1
  MaxReruns = 0
SYMMETRY Symmetry
INVARIANTS
  PassBarrier
  QuotaIsReserved
  LedgerWithinBudgets
  DispatchIsDurable
CHECK_DEADLOCK FALSE
