CONSTANTS
  x1 = x1
  p1 = p1
  p2 = p2
  s1 = s1
  Strategies = {p1, p2}
  Spots <- PairSpots
  Symbols = {s1}
  SymbolOf <- PairSymbolOf
  NoStrategy = NoStrategy
  Requests = {q1}
  MaxOpens = 2
  MaxFaults = 2
  MaxDeleted = 0
SPECIFICATION Spec
INVARIANT EachIsHeld
CHECK_DEADLOCK FALSE
