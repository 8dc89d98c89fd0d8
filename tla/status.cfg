SPECIFICATION Spec
CONSTANTS
  Slots <- OneSlot
  Tasks <- OneTasks
  Strata = {1}
  PrimaryTask <- OnePrimary
  Stratum <- OneStratum
  ReserveQueue <- PairReserve
  Target = 2
  FirstCap = 1
  PostCap = 2
  BCap = 1
  DemoCap = 3
  StopAfterA = FALSE
  Results = {b1, b2}
  NoPurchase = NoPurchase
  Workers = {w1}
  Faults = {}
  MaxFaults = 0
  MaxCrashes = 0
  MaxSigints = 0
  MaxTotal = 0
  MaxReruns = 0
INVARIANTS
  TerminalStatusIsDurable
CHECK_DEADLOCK FALSE
