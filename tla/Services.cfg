SPECIFICATION Spec
CONSTANTS
  k1 = k1
  k2 = k2
  w1 = w1
  w2 = w2
  a1 = a1
  a2 = a2
  Keys = {k1, k2}
  MaxTs = 2
  QueueMax = 1
  BatchLimit = 2
  ChunkSize = 2
  Critical = 1
  High = 1
  FailureBudget = 2
  MaxTasks = 1
  MaxFaults = 1
  Horizon = 5
  Width <- Widths
  Keep <- Keeps
  Batch = 2
  Mids = {1, 2}
  Workers = {w1, w2}
  Parallel = 1
  BootRetries = 2
  RestartBudget = 1
  MaxFatal = 2
  Procs = {a1}
  ProcBudget = 2
  MaxCrashes = 2
  BaseLimit = 2
  BaseDelay = 4800
  BaseShards = 2
  ShardLimit = 3
  RecoverWindows = 2
  ValidLimits = {}
  x1 = x1
  s1 = s1
  Syms = {x1}
  Strats = {s1}
  Ingests = {"job", "request"}
  LastInstant = 2
  Styles = {"ascending", "descending"}
  PageSize = 2
  MaxPages = 2
  IngestFaults = 1
  ScanOrder <- TwoRows
  SpotOf <- OneExchange
  PerpOf <- OneExchange
  Quotes2 <- ThreeQuotes
  Funds <- Purse
  Budget = 90
  MinPair = 30
  MaxPair = 60
  MaxPairs = 2
  HoldDays = 2
  AbsDeadband = 20
  RelDeadband = 5
  ConfirmRounds = 2
  FeeHalf = 1
  LegRisk = 0
  MaxHolds = 4
  SnapshotCycles = 2
  MaxMoves = 1
  MaxMisses = 1
  Intervals = {1, 2}
  EventLimit = 1
  LookBack = 3
  DayLength = 3
  LastBucket = 5
  MaxGap = 1
  MaxStirs = 1
  j1 = j1
  j2 = j2
  Jobs = {j1, j2}
  JobCap = 1
  StaleAfter = 1
  LastTick = 3
  JobFaults = 1
  Pairs <- TwoPairs
  Grid <- ThreeCombos
  MaxTrials = 2
  Tapes <- SomeTapes
  DayBars = 3
  LastDay = 2
  AgeNew = 0
  AgeHeld = 1
  StaleMax = 0
  RateWindow = 3
  RateLead = 3
  MinRate = 0
  MinBasis = 0
  MaxHeld = 1
  Deadband = 1
  Fee = 1
  HardStop2 = 3
  TrainDays = 1
  TestDays = 1
  StepDays = 1
  TopK = 1
  l1 = l1
  Legs = {l1}
  Askers = {"q1", "q2"}
  JobThreads = {"t1"}
  Requests = {"scan"}
  LastMoment = 3
  Settled = {1, 3}
  Forced = {"t1"}
  HistoryDays = 1
  RefreshTtl = 1
  HistoryCap = 1
  RefreshFaults = 1
  NoLeg = NoLeg
INVARIANTS QuotesAreStoredOnce NothingVanishes CloseIsLast RunningIsWatched EndsWhenOver
  NothingIsSkipped HoldersGetTheirShare
  OkHidesNothing OrdersAreCovered PartialsAreRewritten NoLookAhead TriedIsStored
PROPERTIES LatestNeverGoesBack QuotesAreStored BootIsDecided
  SupervisorEnds DegradationIsReversible
  PortfolioSettles BoardIsKept
CHECK_DEADLOCK FALSE
