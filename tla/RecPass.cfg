CONSTANTS
  p1 = p1
  p2 = p2
  s1 = s1
  Strategies = {p1, p2}
  Spots = {p1, p2}
  Symbols = {s1}
  SymbolOf <- TwoSymbolOf
  NoStrategy = NoStrategy
  Requests = {}
  MaxOpens = 1
  MaxFaults = 1
  MaxDeleted = 0
SPECIFICATION RFair
INVARIANTS
  RTypeOK
  HeldIsPromised
PROPERTIES
  QuietRecoveryIsHeld
  OrphanIsRecovered
  EmptyIsClosed
CHECK_DEADLOCK FALSE
