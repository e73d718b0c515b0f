SPECIFICATION LiveSpec
CONSTANTS
  r1 = r1
  r2 = r2
  s1 = s1
  s2 = s2
  q1 = q1
  q2 = q2
  NoRow = NoRow
  Rows = {r1}
  Symbols = {s1}
  SymbolOf <- OneRow
  Requests = {q1}
  Reasons = {"stop_loss"}
  MaxTries = 1
  SpreadMax = 2
  TotalMax = 2
  MaxFunding = 0
  MaxFaults = 2
  MaxDeleted = 0
INVARIANTS ClosedMeansConfirmed
PROPERTIES RowsLive ClosedReopensOnlyConfirmed StuckRowsAreClosed
