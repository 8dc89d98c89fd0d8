SPECIFICATION FairSpec
CONSTANTS
  Slots <- OneSlot
  Tasks <- OneTasks
  Strata = {1}
  PrimaryTask <- OnePrimary
  Stratum <- OneStratum
  ReserveQueue <- PairReserve
  Target = 3
  FirstCap = 2
  PostCap = 2
  BCap = 1
  DemoCap = 2
  StopAfterA = FALSE
  Results = {b1, b2}
  NoPurchase = NoPurchase
  Workers = {w1}
  Faults = {"recoverable", "main"}
  MaxFaults = 1
  MaxCrashes = 1
  MaxSigints = 1
  MaxTotal = 2
  MaxReruns = 1
INVARIANTS
  ExactlyOnce
  AcceptedAreDistinct
PROPERTIES
  CountedRowsAreFinal
  ImplementsContract
  EventuallyTerminal
CHECK_DEADLOCK FALSE
