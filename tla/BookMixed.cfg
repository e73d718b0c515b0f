CONSTANTS
  x1 = x1
  p1 = p1
  p2 = p2
  s1 = s1
  Strategies = {x1, p1}
  Spots <- MixedSpots
  Symbols = {s1}
  SymbolOf <- MixedSymbolOf
  NoStrategy = NoStrategy
  Requests = {q1}
  MaxOpens = 2
  MaxFaults = 2
  MaxDeleted = 1
SPECIFICATION Spec
INVARIANTS
  TypeOK
  HeldIsPromised
  ClosingHasCloser
  FirstIsHeld
CHECK_DEADLOCK FALSE
