CONSTANTS
  k1 = k1
  k2 = k2
  pair = pair
  Strategies = {k1, k2}
  Pairs = {pair}
  PairOf <- SamePair
  MaxRounds = 1
  Threshold = 2
  RepairRounds = 2
  RepairBreaker = TRUE
  MaxToggles = 1
  MaxFaults = 1
SPECIFICATION LiveSpec
INVARIANT TypeOK
PROPERTIES
  GuardsRun
  HardStopCloses
  OneLieSellsNothing
CHECK_DEADLOCK FALSE
