------------------------------ MODULE MCServices ------------------------------
(***************************************************************************)
(* The services that share no state with one another, checked in one run:  *)
(* a behaviour picks one of them at the start and is a behaviour of it; the*)
(* others do not move.                                                     *)
(***************************************************************************)
EXTENDS QuoteStore, Rollup, Collector, Supervisor, HealthGate, PnlV2,
        Rebalance, CandleStore, JobTable, Backtest,
        HistoryRefresh, TLC

CONSTANTS k1, k2, w1, w2, a1, a2, x1, s1, j1, j2, l1

VARIABLE service   \* the one that runs

\* Candles of one, two, four and eight instants, kept for one, two and four.
Widths == 0 :> 1 @@ 1 :> 2 @@ 2 :> 4 @@ 3 :> 8
Keeps == 0 :> 1 @@ 1 :> 2 @@ 2 :> 4

\* Two rows on the markets of one exchange; one earns more, the other scores more.
TwoRows == <<"r1", "r2">>
OneExchange == [r \in {"r1", "r2"} |-> "x"]
NoQuoteOf == [kind |-> "absent", score |-> 0, e24 |-> 0, hint |-> 30]
Good(score, e24, hint) == [kind |-> "good", score |-> score, e24 |-> e24, hint |-> hint]
ThreeQuotes == {NoQuoteOf, Good(2, 3, 60), Good(3, 1, 30)}
Purse == [spot |-> 150, perp |-> 70, all |-> 200]

\* Two pairs on one spot market, three days; candles are missing here and there, a
\* price jumps, a rate turns, and a pair leaves the universe for a day.
TwoPairs == <<"p1", "p2">>
ThreeCombos == <<[rounds |-> 1, threshold |-> 1], [rounds |-> 2, threshold |-> 0],
                 [rounds |-> 1, threshold |-> -9]>>
AllBars == 0 .. FirstBar(LastDay + 1) - 1
Gaps == {{}, {1, 2}, {3}, {4, 5, 6}, {0, 1}, {7, 8}}
SomeTapes ==
  {[perp |-> [p \in {"p1", "p2"} |->
                IF p = "p1" THEN [x \in AllBars \ gap |-> IF x < jump THEN 10 ELSE 13]
                ELSE [x \in AllBars |-> 11]],
    spot |-> [x \in AllBars \ hole |-> 10],
    rate |-> [p \in {"p1", "p2"} |-> IF p = "p1" THEN 0 :> 2 @@ turn :> -1 ELSE 0 :> 1 @@ 6 :> 3],
    universe |-> [d \in 0 .. LastDay |-> IF d = out THEN {"p2"} ELSE {"p1", "p2"}]]
   : gap \in Gaps, jump \in {2, 4, 9}, hole \in {{}, {2, 3}}, turn \in {1, 5}, out \in {1, 9}}

\* Where a service is that was stopped before it did anything: no fair action is
\* enabled there.
StoreOver ==
  /\ made = NoQuote /\ quoteQ = <<>> /\ coalesced = NoQuote /\ batch = <<>>
  /\ tasks = [p \in Priorities |-> <<>>] /\ held = NoQuote /\ running = Idle
  /\ broker = [state |-> "stopped", fails |-> 0]
  /\ raw = [k \in Keys |-> [t \in 1 .. MaxTs |-> 0]] /\ latest = NoQuote
  /\ compaction = "sleep" /\ submitted = 0 /\ lost = {}
  /\ stopping = TRUE /\ storeFaults = 0
CollectorOver ==
  /\ boot = [w \in Workers |-> "pending"] /\ status = [w \in Workers |-> "starting"]
  /\ attempts = [w \in Workers |-> 0] /\ streams = [w \in Workers |-> "none"]
  /\ loop = [w \in Workers |-> "ended"] /\ restarts = [w \in Workers |-> 0]
  /\ hadData = [w \in Workers |-> FALSE]
  /\ manager = "running" /\ bootState = "cancelled" /\ late = TRUE
  /\ fatals = 0 /\ halted = TRUE
SupOver ==
  /\ phase = [w \in Procs |-> "dead"] /\ lastCode = [w \in Procs |-> "NONE"]
  /\ pipe = [w \in Procs |-> Silent] /\ heard = [w \in Procs |-> Metric("", "UNKNOWN")]
  /\ spawns = [w \in Procs |-> 0] /\ backoff = [w \in Procs |-> FALSE] /\ exhausted = {}
  /\ sup = "ended" /\ stopEvent = TRUE /\ stopAsked = TRUE
  /\ barred = {} /\ crashes = 0
GateOver ==
  /\ fails = 0 /\ healthy = 0 /\ stage = 0 /\ degraded = FALSE /\ cooling = FALSE
  /\ shards = BaseShards /\ limit = BaseLimit /\ delay = BaseDelay /\ window = FALSE
  /\ ended = TRUE /\ tick = 0
LedgerOver ==
  /\ style = "newest" /\ clock = LastInstant /\ posted = {}
  /\ span = [s \in Strats |-> [sym |-> NoOne, from |-> 0, to |-> 0]]
  /\ committed = Empty /\ work = Empty /\ writer = NoOne
  /\ ingest = [w \in Ingests |-> AtRest] /\ overflow = FALSE /\ ingestFaults = 0

RebalOver ==
  /\ unified = {} /\ scan = [r \in Rows |-> NoQuoteOf] /\ shocked = {}
  /\ gain = [k \in Slots |-> 0] /\ money = [w \in Wallets |-> 0]
  /\ holding = [k \in Slots |-> Vacant] /\ capital = [free |-> money, left |-> 0]
  /\ agreed = NoPlan /\ rebal = "idle" /\ closes = {} /\ opens = {} /\ closeFailed = FALSE
  /\ retry = NoRetry /\ cached = Unseen2 /\ overdrawn = FALSE /\ moves = 0 /\ misses = 0

CandleOver ==
  /\ bucket = LastBucket /\ candles = [b \in Buckets |-> "none"]
  /\ universe = [d \in Days |-> "none"]
  /\ collect = Resting /\ collected = LastBucket
  /\ freeze = [pc |-> "idle", day |-> 0] /\ backfill = NoBackfill /\ stirs = MaxStirs
JobOver ==
  /\ jobTick = LastTick /\ row = [j \in Jobs |-> [status |-> "none", at |-> 0]]
  /\ slots = {} /\ thread = [j \in Jobs |-> "none"] /\ jobFaults = JobFaults
BacktestOver ==
  /\ tape = [perp |-> <<>>, spot |-> <<>>, rate |-> <<>>, universe |-> <<>>]
  /\ mode = "single" /\ combos = <<1>> /\ test = Over /\ bar = 0 /\ book = NewBook
  /\ scores = <<>> /\ chosen = <<>> /\ trained = {} /\ tested = {}
HistoryOver ==
  /\ moment = LastMoment /\ rates = [l \in Legs |-> {}]
  /\ asked = [q \in Askers |-> NotAsked] /\ refreshJob = [running |-> FALSE, finished |-> "never"]
  /\ triedAt = [l \in Legs |-> 0] /\ brokenOff = {} /\ refresher = [r \in Refreshers |-> Resting2]
  /\ unlisted = {} /\ refreshFaults = 0

Init == /\ service \in {"store", "rollup", "collector", "supervisor", "gate", "ledger",
                        "rebalance", "candle", "job", "backtest", "history"}
        /\ IF service = "store" THEN StoreInit ELSE StoreOver
        /\ RollupInit
        /\ IF service = "collector" THEN CollectorInit ELSE CollectorOver
        /\ IF service = "supervisor" THEN SupInit ELSE SupOver
        /\ IF service = "gate" THEN GateInit ELSE GateOver
        /\ IF service = "ledger" THEN LedgerInit ELSE LedgerOver
        /\ IF service = "rebalance" THEN RebalInit ELSE RebalOver
        /\ IF service = "candle" THEN CandleInit ELSE CandleOver
        /\ IF service = "job" THEN JobInit ELSE JobOver
        /\ IF service = "backtest" THEN BacktestInit ELSE BacktestOver
        /\ IF service = "history" THEN HistoryInit ELSE HistoryOver

Next ==
  /\ UNCHANGED service
  /\ \/ /\ service = "store" /\ StoreNext
        /\ UNCHANGED <<rollupVars, collectorVars, supVars, gateVars, ledgerVars, rebalVars,
                        candleVars, jobVars, backtestVars, historyVars>>
     \/ /\ service = "rollup" /\ RollupNext
        /\ UNCHANGED <<storeVars, collectorVars, supVars, gateVars, ledgerVars, rebalVars,
                        candleVars, jobVars, backtestVars, historyVars>>
     \/ /\ service = "collector" /\ CollectorNext
        /\ UNCHANGED <<storeVars, rollupVars, supVars, gateVars, ledgerVars, rebalVars,
                        candleVars, jobVars, backtestVars, historyVars>>
     \/ /\ service = "supervisor" /\ SupNext
        /\ UNCHANGED <<storeVars, rollupVars, collectorVars, gateVars, ledgerVars,
                        rebalVars, candleVars, jobVars, backtestVars, historyVars>>
     \/ /\ service = "gate" /\ GateNext
        /\ UNCHANGED <<storeVars, rollupVars, collectorVars, supVars, ledgerVars,
                        rebalVars, candleVars, jobVars, backtestVars, historyVars>>
     \/ /\ service = "ledger" /\ LedgerNext
        /\ UNCHANGED <<storeVars, rollupVars, collectorVars, supVars, gateVars, rebalVars,
                        candleVars, jobVars, backtestVars, historyVars>>
     \/ /\ service = "rebalance" /\ RebalNext
        /\ UNCHANGED <<storeVars, rollupVars, collectorVars, supVars, gateVars, ledgerVars,
                        candleVars, jobVars, backtestVars, historyVars>>
     \/ /\ service = "candle" /\ CandleNext
        /\ UNCHANGED <<storeVars, rollupVars, collectorVars, supVars, gateVars, ledgerVars,
                        rebalVars, jobVars, backtestVars, historyVars>>
     \/ /\ service = "job" /\ JobNext
        /\ UNCHANGED <<storeVars, rollupVars, collectorVars, supVars, gateVars, ledgerVars,
                        rebalVars, candleVars, backtestVars, historyVars>>
     \/ /\ service = "backtest" /\ BacktestNext
        /\ UNCHANGED <<storeVars, rollupVars, collectorVars, supVars, gateVars, ledgerVars,
                        rebalVars, candleVars, jobVars, historyVars>>
     \/ /\ service = "history" /\ HistoryNext
        /\ UNCHANGED <<storeVars, rollupVars, collectorVars, supVars, gateVars, ledgerVars,
                        rebalVars, candleVars, jobVars, backtestVars>>

Fairness == StoreFairness /\ CollectorFairness /\ SupFairness /\ GateFairness

Spec == Init /\ [][Next]_<<service, storeVars, rollupVars, collectorVars, supVars,
                           gateVars, ledgerVars, rebalVars, candleVars, jobVars,
                           backtestVars, historyVars>>
             /\ Fairness
=============================================================================
