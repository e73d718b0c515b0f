------------------------------- MODULE Backtest -------------------------------
(***************************************************************************)
(* The backtest of the spot-basis engine: run_event_backtest steps a book  *)
(* over the 15-minute bars of the tables CandleStore fills, and            *)
(* run_walk_forward_search runs it for many parameter combinations, trains *)
(* on some days and tests the best on the days after them.                 *)
(*                                                                         *)
(* A tape is what the tables hold: candles, funding and the universes of   *)
(* the days.  All of it lies there from the start, the future too: what a  *)
(* step may know is up to the lookups.                                     *)
(*                                                                         *)
(* Sizes are one unit a row (Rebalance has the sizing), the basis is       *)
(* perp - spot, a rate is earned per bar, and the drawdown is in units.    *)
(***************************************************************************)
EXTENDS Integers, FiniteSetsExt, SequencesExt

CONSTANTS
  Pairs,      \* the rows, as a sequence (a stable sort keeps it)
  Grid,       \* parameter combinations, a sequence of [rounds, threshold]
  MaxTrials,  \* how many of them a search tries
  Tapes,      \* [perp, spot, rate, universe]: series are functions of some bars
  DayBars, LastDay,
  AgeNew,     \* bars a price is good for, of a candidate
  AgeHeld,    \* and of a position
  StaleMax,   \* data_stale_max_buckets
  RateWindow, \* FUNDING_STABILITY_WINDOW_SECS
  RateLead,   \* bars before the first day from which funding is loaded
  MinRate, MinBasis, MaxHeld, Deadband, Fee, HardStop2,
  TrainDays, TestDays, StepDays, TopK

ASSUME BacktestAssumption ==
  /\ {DayBars, TrainDays, TestDays, StepDays, TopK, MaxTrials} \subseteq Nat \ {0}
  /\ {LastDay, AgeNew, AgeHeld, StaleMax, RateWindow, RateLead, MaxHeld, Fee} \subseteq Nat
  \* Bars and days are counted from the first of the tables.
  /\ \A tp \in Tapes :
       /\ DOMAIN tp.spot \subseteq Nat /\ DOMAIN tp.universe \subseteq Nat
       /\ \A p \in ToSet(Pairs) : DOMAIN tp.perp[p] \subseteq Nat /\ DOMAIN tp.rate[p] \subseteq Nat

VARIABLES
  tape,
  mode,    \* "single" (one backtest) or "search"
  combos,  \* the combinations of the search, indices of Grid in order
  test,    \* the run at work: [phase, window, combo, first, last]
  bar,     \* the next bar of it
  book,    \* what it has, [pos, equity, peak, dd, fp, count, halted, turns]
  scores,  \* of this window, the combinations trained so far
  chosen,  \* of this window, the combinations to test, best first
  trained, \* history: bars that scored them
  tested   \* combinations with a test record

backtestVars == <<tape, mode, combos, test, bar, book, scores, chosen, trained, tested>>

PairSet == ToSet(Pairs)
BarDay(t) == t \div DayBars
Flat == [held |-> FALSE, mark |-> 0, stale |-> 0]
NewBook == [pos |-> [p \in PairSet |-> Flat], equity |-> 0, peak |-> 0, dd |-> 0,
            fp |-> <<{}, {}>>, count |-> 0, halted |-> FALSE, turns |-> 0]

-----------------------------------------------------------------------------
(* Lookups *)

Between(s, a, b) == [x \in {y \in DOMAIN s : a <= y /\ y <= b} |-> s[x]]
\* What a run over the bars from a to b loads.
Load(tp, a, b) ==
  [perp |-> [p \in PairSet |-> Between(tp.perp[p], a, b)], spot |-> Between(tp.spot, a, b),
   rate |-> [p \in PairSet |-> Between(tp.rate[p], a - RateLead, b)],
   universe |-> Between(tp.universe, BarDay(a), BarDay(b))]

\* _latest_price: 0 if there is none, or none young enough.
\* Mutant: the first one from here on.
NextPrice(s, t, age) ==
  LET P == {x \in DOMAIN s : x >= t} IN IF P = {} \/ t - Min(P) > age THEN 0 ELSE s[Min(P)]
LatestPrice(s, t, age) ==
  LET P == {x \in DOMAIN s : x <= t} IN IF P = {} \/ t - Max(P) > age THEN 0 ELSE s[Max(P)]
Priced(tp, p, t, age) == LatestPrice(tp.perp[p], t, age) > 0 /\ LatestPrice(tp.spot, t, age) > 0
Basis(tp, p, t, age) == LatestPrice(tp.perp[p], t, age) - LatestPrice(tp.spot, t, age)

\* _funding_snapshot: the last rate, however old, and the rates of the window, which
\* make the score (a rate that is high and has been so).
Rate(tp, p, t) ==
  LET P == {x \in DOMAIN tp.rate[p] : x <= t} IN IF P = {} THEN 0 ELSE tp.rate[p][Max(P)]
Score(tp, p, t) == SumFunction(Between(tp.rate[p], t - RateWindow, t))

-----------------------------------------------------------------------------
(* A bar, step by step *)

Held(b) == {p \in PairSet : b.pos[p].held}

\* Positions are marked, if there is a price that is not too old.
Marked(tp, b, t) ==
  LET priced == {p \in Held(b) : Priced(tp, p, t, AgeHeld)}
      now(p) == Basis(tp, p, t, AgeHeld)
  IN [b EXCEPT
        !.equity = @ + SumFunction([p \in priced |-> b.pos[p].mark - now(p) + Rate(tp, p, t)]),
        !.pos = [p \in PairSet |-> IF p \in priced THEN [held |-> TRUE, mark |-> now(p), stale |-> 0]
                                   ELSE IF p \in Held(b) THEN [b.pos[p] EXCEPT !.stale = @ + 1] ELSE Flat]]

\* _close_position_with_fee.
Closed(b, S) == [b EXCEPT !.pos = [p \in PairSet |-> IF p \in S THEN Flat ELSE @[p]],
                          !.equity = @ - Fee * Cardinality(S), !.turns = @ + Cardinality(S)]
Outdated(b) == {p \in Held(b) : b.pos[p].stale > StaleMax}

\* The day's universe, as far as it has prices; what is good enough of it; the best.
Candidates(tp, t) ==
  {p \in PairSet : /\ BarDay(t) \in DOMAIN tp.universe /\ p \in tp.universe[BarDay(t)]
                  /\ Priced(tp, p, t, AgeNew)}
Good2(tp, c, t) ==
  {p \in Candidates(tp, t) : /\ Rate(tp, p, t) >= MinRate /\ Basis(tp, p, t, AgeNew) >= MinBasis
                             /\ Score(tp, p, t) >= c.threshold}
Ahead(tp, p, q, t) ==
  \/ Score(tp, p, t) > Score(tp, q, t)
  \/ /\ Score(tp, p, t) = Score(tp, q, t)
     /\ SelectInSeq(Pairs, LAMBDA x : x = p) < SelectInSeq(Pairs, LAMBDA x : x = q)
Best(tp, c, t) ==
  {p \in Good2(tp, c, t) : Cardinality({q \in Good2(tp, c, t) : Ahead(tp, q, p, t)}) < MaxHeld}

\* The plan of a bar; it is executed in the last of so many bars that had it.
PlanOf(tp, c, b, t) ==
  LET target == IF b.halted THEN Held(b) ELSE Best(tp, c, t)
      income(S) == SumFunction([p \in S \cap Candidates(tp, t) |-> Rate(tp, p, t)])
  IN [close |-> Held(b) \ target, open |-> target \ Held(b),
      signal |-> target # Held(b) /\ income(target) - income(Held(b)) >= Deadband]
Confirmed(b, plan) ==
  LET fp == <<plan.close, plan.open>> IN
  IF plan.signal THEN [b EXCEPT !.fp = fp, !.count = IF b.fp = fp THEN @ + 1 ELSE 1]
  ELSE [b EXCEPT !.fp = <<{}, {}>>, !.count = 0]
Executed(tp, c, b, plan, t) ==
  IF ~plan.signal \/ b.count < c.rounds THEN b
  ELSE LET d == Closed(b, plan.close) IN
       [d EXCEPT !.pos = [p \in PairSet |-> IF p \in plan.open
                            THEN [held |-> TRUE, mark |-> Basis(tp, p, t, AgeNew), stale |-> 0] ELSE d.pos[p]],
                 !.equity = @ - Fee * Cardinality(plan.open), !.turns = @ + Cardinality(plan.open)]
Guarded(b) ==
  LET peak == Max({b.peak, b.equity})
      e == [b EXCEPT !.peak = peak, !.dd = Min({@, b.equity - peak})]
  IN IF ~b.halted /\ peak - b.equity >= HardStop2 THEN [Closed(e, Held(e)) EXCEPT !.halted = TRUE] ELSE e

Step(tp, c, b, t) ==
  LET m == Marked(tp, b, t)
      n == Closed(m, Outdated(m))
      plan == PlanOf(tp, c, n, t)
  IN Guarded(Executed(tp, c, Confirmed(n, plan), plan, t))

-----------------------------------------------------------------------------
(* Runs and windows *)

Windows2 ==
  {[train |-> d, test |-> d + TrainDays] :
     d \in {StepDays * i : i \in 0 .. LastDay} \cap 0 .. LastDay + 1 - TrainDays - TestDays}
FirstBar(d) == DayBars * d
RunOf(phase, w, c) ==
  LET d == IF phase = "train" THEN w ELSE w + TrainDays
      n == IF phase = "train" THEN TrainDays ELSE TestDays
  IN [phase |-> phase, window |-> w, combo |-> c, first |-> FirstBar(d), last |-> FirstBar(d + n) - 1]
Over == [phase |-> "over", window |-> 0, combo |-> 1, first |-> 0, last |-> 0]
Start(run) == test' = run /\ bar' = run.first /\ book' = NewBook

\* _build_combo_space: all, or the first and a sample of the others.
Picks == IF Len(Grid) <= MaxTrials THEN {[i \in DOMAIN Grid |-> i]}
         ELSE {q \in [1 .. MaxTrials -> DOMAIN Grid] : q[1] = 1 /\ IsInjective(q)}

BacktestInit ==
  /\ tape \in Tapes
  /\ \/ /\ mode = "single" /\ combos \in {<<c>> : c \in DOMAIN Grid}
        /\ test = [Over EXCEPT !.phase = "single", !.last = FirstBar(LastDay + 1) - 1]
     \/ /\ mode = "search" /\ combos \in Picks
        /\ test = IF Windows2 = {} THEN Over ELSE RunOf("train", 0, 1)
  /\ bar = 0 /\ book = NewBook
  /\ scores = <<>> /\ chosen = <<>> /\ trained = {} /\ tested = {}

Loaded == Load(tape, test.first, test.last)
Params == Grid[combos[test.combo]]
NextBar ==
  /\ test.phase # "over" /\ bar <= test.last
  /\ book' = Step(Loaded, Params, book, bar) /\ bar' = bar + 1
  /\ trained' = IF test.phase = "train" THEN trained \union {bar} ELSE trained
  /\ UNCHANGED <<tape, mode, combos, combos, test, scores, chosen, tested>>

Finished == test.phase # "over" /\ bar > test.last
\* What is held at the end is closed.
Final == Closed(book, Held(book))
\* _train_objective, in thousandths.
Objective(b) == 1000 * b.equity + 300 * b.dd - 15 * b.turns - (IF b.halted THEN 1500 ELSE 0)

SingleEnds ==
  /\ Finished /\ test.phase = "single" /\ book' = Final /\ test' = Over /\ bar' = 0
  /\ UNCHANGED <<tape, mode, combos, scores, chosen, trained, tested>>

Trained ==
  /\ Finished /\ test.phase = "train"
  /\ LET all == Append(scores, Objective(Final))
         order(i, j) == all[i] > all[j] \/ (all[i] = all[j] /\ i < j)
         ranked == SetToSortSeq(DOMAIN combos, order)
     IN IF Len(all) < Len(combos)
        THEN /\ scores' = all /\ UNCHANGED chosen
             /\ Start(RunOf("train", test.window, Len(all) + 1))
        ELSE /\ scores' = <<>> /\ chosen' = SubSeq(ranked, 1, Min({TopK, Len(combos)}))
             /\ Start(RunOf("test", test.window, ranked[1]))
  /\ UNCHANGED <<tape, mode, combos, trained, tested>>

Tested ==
  /\ Finished /\ test.phase = "test"
  /\ tested' = tested \union {test.combo} /\ chosen' = Tail(chosen)
  /\ IF Len(chosen) > 1
     THEN Start(RunOf("test", test.window, chosen[2])) /\ UNCHANGED trained
     ELSE /\ trained' = {}
          /\ IF \E w \in Windows2 : w.train = test.window + StepDays
             THEN Start(RunOf("train", test.window + StepDays, 1)) ELSE Start(Over)
  /\ UNCHANGED <<tape, mode, combos, scores>>

BacktestNext == NextBar \/ SingleEnds \/ Trained \/ Tested
BacktestSpec == BacktestInit /\ [][BacktestNext]_backtestVars

-----------------------------------------------------------------------------
(* Properties *)

\* What the tables will say after a moment is not used at that moment: a bar leaves
\* the same book if every row after it is gone (a bar's own candle and the day's
\* universe count as known), and no combination is tested on a bar that helped to
\* choose it.
NoLookAhead ==
  test.phase # "over" /\ bar <= test.last =>
    /\ Step(Loaded, Params, book, bar)
         = Step(Load(Load(tape, 0, bar), test.first, test.last), Params, book, bar)
    /\ test.phase = "test" => bar \notin trained
=============================================================================
