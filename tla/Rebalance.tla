------------------------------- MODULE Rebalance -------------------------------
(***************************************************************************)
(* What the auto engine's cycle plans and executes when no repair is due:  *)
(* core/spot_basis_auto_engine/{target_state,delta_plan,open_executor,     *)
(* rebalance_capacity,profit_lock,close_plan,risk_reduce}.py with the      *)
(* portfolio preview of core/spot_basis_runtime.  AutoCycle has the cycle  *)
(* itself, its lock, its retries and the mismatch guard.                   *)
(*                                                                         *)
(* A row is a pair of a spot and a perpetual market.  Sizes are in units of*)
(* ten dollars, money in half units: with leverage 2 a pair of size n takes*)
(* 2n of its spot wallet and n of its margin wallet, which are the same on *)
(* a unified account.  The haircuts (reserve, 0.98) and the price ratio are*)
(* left out, profit and loss do not change the money, and every row is     *)
(* assumed to be held HoldDays days.                                       *)
(*                                                                         *)
(* A close that sells what is open counts the open legs before its own     *)
(* changes are flushed, finds them open and reports a failure (StrategyBook*)
(* has this in full).  Its strategy stays 'active' without an open leg, in *)
(* nobody's holdings; the retry that is queued for it finds nothing to sell*)
(* and ends it, and is left out.                                           *)
(***************************************************************************)
EXTENDS Integers, Sequences, FiniteSetsExt, SequencesExt

CONSTANTS
  ScanOrder,        \* the rows, as a scan lists those with the same score
  SpotOf, PerpOf,   \* exchange of a row's spot and perpetual market
  Quotes2,          \* what a scan may say of a row
  Funds,            \* money at first, per wallet
  Budget, MinPair, MaxPair, MaxPairs, HoldDays,  \* the configuration, and NAV
  AbsDeadband, RelDeadband, ConfirmRounds,
  FeeHalf, LegRisk, \* cost of an open or a close, and of a day, per unit
  MaxHolds,         \* bound: strategies at a time
  SnapshotCycles,   \* cycles the cached capital snapshot serves (20 s)
  MaxMoves,         \* bound: moves of the market or of the money
  MaxMisses         \* bound: failed orders and balance queries

Rows == ToSet(ScanOrder)
Exs == {SpotOf[r] : r \in Rows} \union {PerpOf[r] : r \in Rows}
Wallets == Exs \X {"spot", "perp", "all"}
Slots == 1 .. MaxHolds

ASSUME RebalanceAssumption ==
  /\ MinPair \in Nat \ {0} /\ MaxPair \in Nat /\ MaxPair >= MinPair /\ HoldDays \in 1 .. 14
  /\ Funds \in [{"spot", "perp", "all"} -> Nat]
  /\ \A q \in Quotes2 : q.kind \in {"absent", "weak", "good"}

VARIABLES
  unified,    \* exchanges whose account is unified
  scan,       \* per row, its quote
  shocked,    \* rows whose basis is beyond basis_shock_exit_z
  money,      \* free USDT of a wallet
  holding,    \* per slot, a strategy with open legs, or Vacant
  gain,       \* per slot, the profit of its spread, in the cycles where it stands out
  capital,    \* _ACCOUNT_CAPITAL_CACHE: available, per wallet, and its age in cycles
  agreed,     \* _REBALANCE_CONFIRM_STATE
  rebal,      \* the cycle: "idle", "closing", "opening", or "retrying" an open
  closes, opens, \* what is left of its plans
  closeFailed,
  retry,      \* _RETRY_QUEUE: [closes: slots, opens: items]
  cached,     \* the executor's caches, [spot, perp: wallet -> USDT or Unread]
  overdrawn,  \* history: an order asked for more than its wallets had, although
              \* both could be read
  moves, misses

market == <<unified, scan, shocked, gain>>
exec == <<rebal, closes, opens, closeFailed, cached>>
rebalVars == <<market, money, holding, capital, agreed, exec, retry, overdrawn, moves, misses>>

Vacant == [row |-> "none", size |-> 0, entry |-> 0]
NoRetry == [closes |-> {}, opens |-> {}]
Unread == -1
NoPlan == [fp |-> <<{}, {}>>, count |-> 0]
Unseen2 == [leg \in {"spot", "perp"} |-> [w \in Wallets |-> Unread]]

Wallet(r, leg) ==
  LET x == IF leg = "spot" THEN SpotOf[r] ELSE PerpOf[r]
  IN <<x, IF x \in unified THEN "all" ELSE leg>>
Pooled(r) == Wallet(r, "spot") = Wallet(r, "perp")
Need(r, n, w) == (IF w = Wallet(r, "spot") THEN 2 * n ELSE 0)
                 + (IF w = Wallet(r, "perp") THEN n ELSE 0)

Held2 == {k \in Slots : holding[k] # Vacant}
SumOf(S, f(_)) == MapThenSumSet(f, S)
InUse(w) == SumOf({k \in Held2 : Wallet(holding[k].row, "perp") = w}, LAMBDA k : holding[k].size)

\* _fetch_exchange_capital_row: an account with nothing free counts with all it
\* has, margin in use included.
Capital == [w \in Wallets |-> IF money[w] > 0 THEN money[w] ELSE money[w] + InUse(w)]

\* A unified account has rows only with both legs on it.
RebalInit ==
  /\ unified \in {U \in SUBSET Exs : \A r \in Rows : SpotOf[r] \in U \/ PerpOf[r] \in U
                                                      => SpotOf[r] = PerpOf[r]}
  /\ scan \in [Rows -> Quotes2] /\ shocked = {}
  /\ money = [w \in Wallets |-> Funds[w[2]]]
  /\ holding = [k \in Slots |-> Vacant] /\ gain = [k \in Slots |-> 0]
  /\ capital = [free |-> [w \in Wallets |-> 0], left |-> 0]
  /\ agreed = NoPlan /\ rebal = "idle" /\ closes = {} /\ opens = {} /\ closeFailed = FALSE
  /\ retry = NoRetry /\ cached = Unseen2 /\ overdrawn = FALSE /\ moves = 0 /\ misses = 0

-----------------------------------------------------------------------------
(* The target: _build_open_portfolio_preview *)

Before(a, b) ==
  LET i(r) == CHOOSE n \in DOMAIN ScanOrder : ScanOrder[n] = r
      p == scan[a]   q == scan[b]
  IN \/ p.score > q.score
     \/ p.score = q.score /\ (p.e24 > q.e24 \/ (p.e24 = q.e24 /\ i(a) < i(b)))
Eligible(holds) ==
  {r \in Rows : /\ scan[r].kind = "good" /\ scan[r].e24 > 0
                /\ \A k \in holds : holding[k].row # r}

\* What is left of a wallet, as a size of this leg.
Headroom(caps, r) ==
  Min({Max({0, caps[Wallet(r, "spot")]}) \div 2, Max({0, caps[Wallet(r, "perp")]})})
Use(caps, r, n) == [w \in Wallets |-> caps[w] - Need(r, n, w)]
Clamped(n, lo, hi) == Max({lo, Min({n, hi})})

\* One candidate after another, while pairs, budget and accounts last.
Preview(holds, free) ==
  LET ofHolds == SumOf(holds, LAMBDA k : holding[k].size)
      caps0 == [w \in Wallets |->
                  free[w] - SumOf(holds, LAMBDA k : Need(holding[k].row, holding[k].size, w))]
      current == Cardinality(holds)
      desired == Max({current, Min({MaxPairs, current + Cardinality(Eligible(holds)),
                                    Budget \div MinPair})}) - current
      Pick(acc, r) ==
        LET most == Min({MaxPair, acc.left, Headroom(acc.caps, r)})
            n == Clamped(scan[r].hint, MinPair, most)
        IN IF acc.pairs >= desired \/ acc.left < MinPair \/ most < MinPair THEN acc
           ELSE [alloc |-> [acc.alloc EXCEPT ![r] = n], left |-> acc.left - n,
                 caps |-> Use(acc.caps, r, n), pairs |-> acc.pairs + 1]
  IN FoldLeft(Pick, [alloc |-> [r \in Rows |-> 0], left |-> Max({0, Budget - ofHolds}),
                     caps |-> caps0, pairs |-> 0],
              SetToSortSeq(Eligible(holds), Before))

\* The target takes no notice of what is held.
Target(free) == Preview({}, free).alloc

-----------------------------------------------------------------------------
(* The plan: _build_rebalance_delta_plan *)

MinTopUp == Max({1, MinPair \div 20})
Tolerance(t) == Clamped((8 * t) \div 100, 1, 4)
OnRow(r) == {k \in Held2 : holding[k].row = r}
SizeOf(K) == SumOf(K, LAMBDA k : holding[k].size)

\* _pick_keep_subset_for_row: what to keep of a row, by turnover and overshoot
\* (in tenths); the larger of two that cost the same.
KeepCost(K, all, t) ==
  LET over == Max({0, SizeOf(K) - t}) IN
  10 * (SizeOf(all) - SizeOf(K) + Max({0, t - SizeOf(K)})) + 12 * over
  + 40 * Max({0, over - Tolerance(t)})
Kept(r, t) ==
  IF t = 0 THEN {}
  ELSE CHOOSE K \in SUBSET OnRow(r) : \A M \in SUBSET OnRow(r) :
         LET a == KeepCost(K, OnRow(r), t)   b == KeepCost(M, OnRow(r), t)
         IN a < b \/ (a = b /\ SizeOf(K) >= SizeOf(M))

Closing(target) == Held2 \ UNION {Kept(r, target[r]) : r \in Rows}
Gap(r, target) == target[r] - SizeOf(Kept(r, target[r]))
\* A target is no larger than MaxPair.
Opening(target) ==
  {[row |-> r, size |-> Gap(r, target)] :
     r \in {x \in Rows : Gap(x, target) \in MinTopUp + 1 .. MaxPair}}

\* Expected profit of a day, now and after the plan, and what the change costs,
\* both times HoldDays.
Earns == SumOf(Held2, LAMBDA k : holding[k].size * scan[holding[k].row].e24)
Advantage(target) ==
  LET C == Closing(target)
      O == Opening(target)
      after == SumOf(Rows, LAMBDA r : (SizeOf(Kept(r, target[r]))
                                       + SumOf({o \in O : o.row = r}, LAMBDA o : o.size))
                                      * scan[r].e24)
      moved == SizeOf(C) + SumOf(O, LAMBDA o : o.size)
  IN HoldDays * (after - Earns) - moved * (FeeHalf + HoldDays * LegRisk)
HasDelta(target) == Closing(target) # {} \/ Opening(target) # {}

\* Both deadbands.  Mutant: any difference is worth a rebalance.
WorthAll(target) == HasDelta(target)
Worth(target) ==
  /\ HasDelta(target)
  /\ Advantage(target) >= HoldDays * AbsDeadband
  /\ Earns # 0 => 100 * Advantage(target) >= RelDeadband * HoldDays * Max({Earns, -Earns})

\* _build_rebalance_capacity_report: nothing is closed for a rotation as long as a
\* new pair can be opened.
Exhausted(free) ==
  LET p == Preview(Held2, free)
  IN Held2 = {} \/ p.pairs = 0 \/ p.left < MinPair

-----------------------------------------------------------------------------
(* The cycle *)

\* _build_profit_lock_close_plan.
ProfitLocked ==
  {k \in Held2 : LET e == scan[holding[k].row].e24
                     entry == IF holding[k].entry = 0 THEN e ELSE holding[k].entry
                 IN gain[k] - 2 * FeeHalf >= Max({entry, e})}
Shocked == {k \in Held2 : holding[k].row \in shocked}
\* _build_risk_reduce_close_plan; weak rows lack confidence.
Losing == {k \in Held2 : LET q == scan[holding[k].row]
                         IN q.kind = "absent" \/ (q.kind = "weak" /\ q.e24 <= 0)}

Execute(C, O) ==
  /\ rebal' = IF C # {} THEN "closing" ELSE "opening"
  /\ closes' = C /\ opens' = O /\ closeFailed' = FALSE /\ cached' = Unseen2

\* The first guard with a plan makes it the cycle's: profits, the drawdown (all,
\* or what loses), the basis, stale data.
GuardExit(C) ==
  /\ rebal = "idle" /\ C # {} /\ Execute(C, {})
  /\ UNCHANGED <<market, money, holding, capital, agreed, retry, overdrawn, misses>>
LockProfits == GuardExit(ProfitLocked) /\ UNCHANGED moves
HardStop == ProfitLocked = {} /\ moves < MaxMoves /\ moves' = moves + 1 /\ GuardExit(Held2)
Reduce == ProfitLocked = {} /\ GuardExit(Losing) /\ UNCHANGED moves
ShockExit == ProfitLocked = {} /\ GuardExit(Shocked) /\ UNCHANGED moves

\* The spreads must cover the fees of what is closed, which they do and do not from
\* one cycle to the next.
FeesCovered(C) == IF C = {} THEN {TRUE} ELSE BOOLEAN

\* In how many consecutive cycles there was this plan; a pause makes the engine
\* forget.
Rounds(fp, forget) ==
  IF ~forget /\ agreed.fp = fp THEN Min({agreed.count + 1, ConfirmRounds}) ELSE 1

Rebalance ==
  /\ rebal = "idle" /\ ProfitLocked = {} /\ Shocked = {}
  /\ \E fresh \in BOOLEAN, forget \in BOOLEAN :
       /\ ~fresh => capital.left > 0
       /\ LET free == IF fresh THEN Capital ELSE capital.free
              target == Target(free)
              C == Closing(target)
              O == Opening(target)
              fp == <<O, C>>
              count == Rounds(fp, forget)
              rotates == C = {} \/ Exhausted(free)
          IN /\ capital' = [free |-> free,
                            left |-> IF fresh THEN SnapshotCycles ELSE capital.left - 1]
             /\ agreed' = IF Worth(target)
                          THEN [fp |-> fp, count |-> count] ELSE NoPlan
             /\ \E covered \in FeesCovered(C) :
                  IF Worth(target) /\ count >= ConfirmRounds /\ covered /\ rotates
                  THEN Execute(C, O)
                  ELSE UNCHANGED exec
  /\ UNCHANGED <<market, money, holding, retry, overdrawn, moves, misses>>

Returned(k) == [w \in Wallets |-> money[w] + Need(holding[k].row, holding[k].size, w)]
Sold(k) ==
  /\ holding' = [holding EXCEPT ![k] = Vacant] /\ gain' = [gain EXCEPT ![k] = 0]
  /\ money' = Returned(k) /\ retry' = [retry EXCEPT !.closes = @ \ {k}]

\* _enqueue_retry_items: what failed is queued as long as its rounds last; so is an
\* open that is skipped when it is tried again.
MayRequeue(kind, x) == retry' \in {retry, [retry EXCEPT ![kind] = @ \union {x}]}

\* A close succeeds only where no leg is left open: somebody else was faster.
Close2(k) ==
  /\ rebal = "closing" /\ k \in closes
  /\ closes' = closes \ {k}
  /\ \/ holding[k] = Vacant /\ UNCHANGED <<holding, gain, money, retry, closeFailed, misses>>
     \/ holding[k] # Vacant /\ Sold(k) /\ closeFailed' = TRUE /\ UNCHANGED misses
     \/ /\ holding[k] # Vacant /\ misses < MaxMisses /\ misses' = misses + 1
        /\ closeFailed' = TRUE /\ MayRequeue("closes", k)
        /\ UNCHANGED <<holding, gain, money>>
  /\ UNCHANGED <<unified, scan, shocked, capital, agreed, rebal, opens, cached, overdrawn, moves>>

\* One close that failed, and nothing is opened.
ClosePhaseEnds ==
  /\ rebal = "closing" /\ closes = {}
  /\ rebal' = "opening"
  /\ opens' = IF closeFailed THEN {} ELSE opens
  /\ UNCHANGED <<market, money, holding, capital, agreed, closes, closeFailed, retry, cached,
                 overdrawn, moves, misses>>

-----------------------------------------------------------------------------
(* Opening: _execute_open_plan *)

\* A balance is read once in a plan.
Reading(leg, w) == IF cached[leg][w] = Unread THEN money[w] ELSE cached[leg][w]
Affordable(r) ==
  LET p == Reading("perp", Wallet(r, "perp"))
  IN IF Pooled(r) THEN p \div 3 ELSE Min({p, Reading("spot", Wallet(r, "spot")) \div 2})
ReadCaches(r) ==
  [leg \in {"spot", "perp"} |->
     [w \in Wallets |-> IF w = Wallet(r, leg) /\ ~(leg = "spot" /\ Pooled(r))
                        THEN Reading(leg, w) ELSE cached[leg][w]]]

\* _consume_available_after_open.  Mutant: of the margin only.
Minus(a, n) == IF a = Unread THEN a ELSE Max({0, a - n})
ConsumedMargin(c, r, n) ==
  [c EXCEPT !["perp"][Wallet(r, "perp")] = Minus(@, n)]
Consumed(c, r, n) ==
  IF Pooled(r)
  THEN LET rest == Minus(c["perp"][Wallet(r, "perp")], 3 * n)
       IN [c EXCEPT !["perp"][Wallet(r, "perp")] = rest, !["spot"][Wallet(r, "spot")] = rest]
  ELSE [c EXCEPT !["perp"][Wallet(r, "perp")] = Minus(@, n),
                 !["spot"][Wallet(r, "spot")] = Minus(@, 2 * n)]

Covered(r, n) == \A w \in Wallets : Need(r, n, w) <= money[w]
Vacancy == CHOOSE k \in Slots : k \notin Held2 /\ \A j \in Slots \ Held2 : k <= j

\* The orders of one item: filled, or rejected and undone.
Order(o, n, caches) ==
  \/ /\ Covered(o.row, n)
     /\ holding' = [holding EXCEPT ![Vacancy] = [row |-> o.row, size |-> n,
                                                 entry |-> scan[o.row].e24]]
     /\ money' = Use(money, o.row, n) /\ cached' = Consumed(caches, o.row, n)
     /\ UNCHANGED <<retry, misses>>
  \/ /\ IF Covered(o.row, n) THEN misses < MaxMisses /\ misses' = misses + 1
        ELSE UNCHANGED misses
     /\ MayRequeue("opens", o) /\ cached' = caches /\ UNCHANGED <<holding, money>>

\* The items go by the order of the target, which does not change in a cycle.
First(o) == \A p \in opens \ {o} : Before(o.row, p.row)
Wanted(o) == Min({o.size, MaxPair})
InTurn(o) == rebal \in {"opening", "retrying"} /\ First(o) /\ opens' = opens \ {o}

Open2(o) ==
  /\ InTurn(o)
  /\ LET n == Min({Wanted(o), Affordable(o.row)})
     IN \/ /\ n >= 1 /\ Held2 # Slots
           /\ Order(o, n, ReadCaches(o.row))
           /\ overdrawn' = (overdrawn \/ ~Covered(o.row, n))
        \/ /\ n < 1 /\ cached' = ReadCaches(o.row)
           /\ IF rebal = "retrying" THEN MayRequeue("opens", o) ELSE UNCHANGED retry
           /\ UNCHANGED <<holding, money, overdrawn, misses>>
  /\ UNCHANGED <<market, capital, agreed, rebal, closes, closeFailed, moves>>

\* A balance that cannot be read does not limit the size.
OpenUnread(o) ==
  /\ InTurn(o) /\ misses < MaxMisses /\ Held2 # Slots
  /\ \E leg \in {"spot", "perp"} : cached[leg][Wallet(o.row, leg)] = Unread
  /\ IF Covered(o.row, Wanted(o))
     THEN /\ holding' = [holding EXCEPT ![Vacancy] = [row |-> o.row, size |-> Wanted(o),
                                                      entry |-> scan[o.row].e24]]
          /\ money' = Use(money, o.row, Wanted(o)) /\ cached' = Consumed(cached, o.row, Wanted(o))
          /\ UNCHANGED retry
     ELSE MayRequeue("opens", o) /\ UNCHANGED <<holding, money, cached>>
  /\ misses' = misses + 1
  /\ UNCHANGED <<market, capital, agreed, rebal, closes, closeFailed, overdrawn, moves>>

CycleEnds ==
  /\ rebal \in {"opening", "retrying"} /\ opens = {}
  /\ rebal' = "idle" /\ cached' = Unseen2 /\ closeFailed' = FALSE
  /\ UNCHANGED <<market, money, holding, capital, agreed, closes, opens, retry, overdrawn, moves,
                 misses>>

\* _process_due_retries: an item by itself, whatever the market has done since.
CloseAgain(k) ==
  /\ rebal = "idle" /\ k \in retry.closes
  /\ Execute({k}, {}) /\ retry' = [retry EXCEPT !.closes = @ \ {k}]
  /\ UNCHANGED <<market, money, holding, capital, agreed, overdrawn, moves, misses>>
OpenAgain(o) ==
  /\ rebal = "idle" /\ o \in retry.opens
  /\ rebal' = "retrying" /\ opens' = {o} /\ retry' = [retry EXCEPT !.opens = @ \ {o}]
  /\ UNCHANGED <<market, money, holding, capital, agreed, closes, closeFailed, cached, overdrawn,
                 moves, misses>>

-----------------------------------------------------------------------------
(* The world *)

Moved == rebal = "idle" /\ moves < MaxMoves /\ moves' = moves + 1
QuoteMoves == /\ Moved /\ \E r \in Rows, q \in Quotes2 : scan' = [scan EXCEPT ![r] = q]
              /\ UNCHANGED <<unified, shocked, gain, money, holding>>
SpreadMoves == /\ Moved /\ \E k \in Held2 : gain' = [gain EXCEPT ![k] = 2 * FeeHalf + 9]
               /\ UNCHANGED <<unified, scan, shocked, money, holding>>
BasisMoves == /\ Moved /\ \E S \in SUBSET Rows : shocked' = S
              /\ UNCHANGED <<unified, scan, gain, money, holding>>
Withdrawal == /\ Moved /\ \E w \in Wallets : money[w] > 0 /\ money' = [money EXCEPT ![w] = 0]
              /\ UNCHANGED <<market, holding>>
World == /\ QuoteMoves \/ SpreadMoves \/ BasisMoves \/ Withdrawal
         /\ UNCHANGED <<capital, agreed, exec, retry, overdrawn, misses>>
\* A request or the risk job closes a strategy, at any time.
ClosedElsewhere ==
  /\ moves < MaxMoves /\ moves' = moves + 1 /\ \E k \in Held2 : Sold(k)
  /\ UNCHANGED <<unified, scan, shocked, capital, agreed, exec, overdrawn, misses>>

RebalNext ==
  \/ World \/ LockProfits \/ HardStop \/ Reduce \/ ShockExit \/ Rebalance
  \/ ClosedElsewhere \/ \E k \in Slots : Close2(k) \/ CloseAgain(k)
  \/ ClosePhaseEnds \/ (\E o \in opens : Open2(o) \/ OpenUnread(o)) \/ CycleEnds
  \/ \E o \in retry.opens : OpenAgain(o)
RebalSpec == RebalInit /\ [][RebalNext]_rebalVars

-----------------------------------------------------------------------------
(* Properties *)

\* However stale the plan, no open asks for more than its wallets hold, as long as
\* the balances can be read and nobody else draws on them: the executor's caches
\* stay below the money that is there.
OrdersAreCovered == ~overdrawn

\* When the market rests, so does the portfolio: the engine does not go on closing
\* and opening, whatever the age of the capital it plans with.  A row whose basis
\* stays shocked is exempt: it is closed, and opened again in the next cycle.
PortfolioSettles == <>[](shocked = {}) => <>[][FALSE]_holding
=============================================================================
