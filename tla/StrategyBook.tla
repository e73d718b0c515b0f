----------------------------- MODULE StrategyBook -----------------------------
(***************************************************************************)
(* The book of funding and basis strategies: strategies/cross_exchange.py, *)
(* strategies/spot_hedge/, core/risk_manager.py and the trading API.       *)
(*                                                                         *)
(* Three kinds of thread work on the tables strategies and positions:      *)
(*   - requests of the trading API open and close any strategy;            *)
(*   - "risk", the scheduler job run_risk_checks, closes active ones;      *)
(*   - "engine", a cycle of the spot-basis engine, closes the spot hedges  *)
(*     it found open at its start and opens new ones.                      *)
(* Nothing keeps two of them off one strategy.                             *)
(*                                                                         *)
(* Every thread has a session of its own.  What it changes in a session is *)
(* seen by nobody, not even by its own queries (autoflush is off), until   *)
(* it commits; a session closed without a commit leaves nothing.  One step *)
(* is one commit or one call to an exchange.  A position is one unit.      *)
(***************************************************************************)
EXTENDS Integers, FiniteSets

CONSTANTS
  Strategies,    \* slots of the table strategies
  Spots,         \* those that are spot_hedge, the others are cross_exchange
  Symbols,       \* traded symbols
  SymbolOf,      \* the symbol a strategy is about
  NoStrategy,    \* "no strategy in hand"
  Requests,      \* threads that serve API requests
  MaxOpens,      \* bound: opens attempted
  MaxFaults,     \* bound: rejected, lost or failed calls, aborts and crashes
  MaxDeleted     \* bound: exchanges the user deletes

Risk == "risk"
Engine == "engine"
Workers == {Risk, Engine} \cup Requests
Legs == {"long", "short"}

\* Order variants one close_hedge_position call sends before it gives up.
CloseVariants == 3

ASSUME BookAssumption ==
  /\ IsFiniteSet(Strategies)
  /\ Spots \subseteq Strategies
  /\ SymbolOf \in [Strategies -> Symbols]
  /\ NoStrategy \notin Strategies
  /\ IsFiniteSet(Requests)
  /\ Requests \cap {Risk, Engine} = {}
  /\ MaxOpens \in Nat
  /\ MaxFaults \in Nat
  /\ MaxDeleted \in Nat

\* Where a leg is held: a side of the swap market, or the spot wallet.  The
\* strategies of a symbol share it.
Markets == Symbols \X {"long", "short", "spot"}
Market(k, l) == <<SymbolOf[k], IF k \in Spots /\ l = "long" THEN "spot" ELSE l>>

VARIABLES
  \* The database.
  sst,      \* Strategy.status; "none" is a slot with no row
  pst,      \* Position.status of its two legs
  gone,     \* markets whose Exchange row was deleted
  \* The exchanges.
  venue,    \* units held per market
  \* What each worker has in hand.
  pc, book, todo, local, err, plan,
  \* History.
  stray,    \* units per market no row was ever written for, at most
  adrift,   \* strategies whose closer died
  opens,    \* opens attempted so far
  faults    \* faults so far

database == <<sst, pst, gone>>
locals   == <<pc, book, todo, local, err, plan>>
vars     == <<database, venue, locals, stray, adrift, opens, faults>>

Kept == [l \in Legs |-> "kept"]
NoLegs == [l \in Legs |-> "none"]

Init ==
  /\ sst = [k \in Strategies |-> "none"]
  /\ pst = [k \in Strategies |-> NoLegs]
  /\ gone = {}
  /\ venue = [m \in Markets |-> 0]
  /\ pc = [w \in Workers |-> "idle"]
  /\ book = [w \in Workers |-> NoStrategy]
  /\ todo = [w \in Workers |-> {}]
  /\ local = [w \in Workers |-> Kept]
  /\ err = [w \in Workers |-> FALSE]
  /\ plan = [w \in Workers |-> {}]
  /\ stray = [m \in Markets |-> 0]
  /\ adrift = {}
  /\ opens = 0
  /\ faults = 0

Lesser(a, b) == IF a < b THEN a ELSE b

\* Mutant: the session is closed without its last commit.
FlushedNothing(row, u) == row

\* The uncommitted changes u of a session reach the table.
Flushed(row, u) == [l \in Legs |-> IF u[l] = "kept" THEN row[l] ELSE u[l]]

\* The worker lets go of its strategy and goes to p.
Leave(w, p) ==
  /\ pc' = [pc EXCEPT ![w] = p]
  /\ book' = [book EXCEPT ![w] = NoStrategy]
  /\ todo' = [todo EXCEPT ![w] = {}]
  /\ local' = [local EXCEPT ![w] = Kept]
  /\ err' = [err EXCEPT ![w] = FALSE]

\* A request that is done ends, a job goes on with its list.
Release(w) == Leave(w, IF w \in Requests THEN "idle" ELSE "pick")

\* Units of market m an opener has filled and not committed.
InFlight(m) ==
  Cardinality({x \in Workers \X Legs :
    /\ pc[x[1]] \in {"second", "report"}
    /\ local[x[1]][x[2]] = "open"
    /\ Market(book[x[1]], x[2]) = m})

-----------------------------------------------------------------------------
(* Opening: CrossExchangeStrategy.open and SpotHedgeOpenMixin.open.        *)

First(k) == IF k \in Spots THEN "short" ELSE "long"
Second(k) == IF k \in Spots THEN "long" ELSE "short"

OpenBegin(w, k) ==
  /\ \/ w \in Requests /\ pc[w] = "idle"
     \/ w = Engine /\ pc[w] = "pick" /\ k \in Spots
  /\ sst[k] = "none"
  /\ \A v \in Workers : book[v] # k
  /\ \A l \in Legs : Market(k, l) \notin gone
  /\ opens < MaxOpens
  /\ opens' = opens + 1
  /\ pc' = [pc EXCEPT ![w] = "first"]
  /\ book' = [book EXCEPT ![w] = k]
  /\ UNCHANGED <<database, venue, todo, local, err, plan, stray, adrift, faults>>

\* One place_hedge_order or place_spot_order: n units land and the caller gets
\* an order or not, after f faults.  A spot buy on one exchange sends a second
\* order when the first one raised.
PlaceOutcomes(m) ==
  {o \in [n : 0 .. 2, ok : BOOLEAN, f : 0 .. 2] :
     /\ o.n = 2 => m[2] = "spot"
     /\ o.ok => o.n \in {1, 2} /\ o.f = o.n - 1
     /\ ~o.ok => o.f = IF o.n = 2 THEN 2 ELSE 1}

PlacedLeg(w) == IF pc[w] = "first" THEN First(book[w]) ELSE Second(book[w])

\* A cross_exchange strategy tries its second leg in any case, a spot hedge
\* only after the first.
Place(w) ==
  LET k == book[w]
      l == PlacedLeg(w)
      m == Market(k, l)
  IN
  /\ pc[w] \in {"first", "second"}
  /\ \E o \in PlaceOutcomes(m) :
       /\ faults + o.f <= MaxFaults
       /\ faults' = faults + o.f
       /\ venue' = [venue EXCEPT ![m] = @ + o.n]
       /\ stray' = [stray EXCEPT ![m] = @ + o.n - (IF o.ok THEN 1 ELSE 0)]
       /\ IF ~o.ok /\ k \in Spots /\ pc[w] = "first"
          THEN /\ local' = [local EXCEPT ![w] = [x \in Legs |-> "error"]]
               /\ pc' = [pc EXCEPT ![w] = "report"]
          ELSE /\ local' = [local EXCEPT ![w][l] = IF o.ok THEN "open" ELSE "error"]
               /\ pc' = [pc EXCEPT ![w] = IF @ = "first" THEN "second" ELSE "report"]
       /\ err' = [err EXCEPT ![w] = @ \/ ~o.ok]
  /\ UNCHANGED <<database, book, todo, plan, adrift, opens>>

\* A spot hedge whose orders were both filled is committed.
ReportSpot(w) ==
  /\ pc[w] = "report"
  /\ ~err[w]
  /\ book[w] \in Spots
  /\ sst' = [sst EXCEPT ![book[w]] = "active"]
  /\ pst' = [pst EXCEPT ![book[w]] = local[w]]
  /\ Release(w)
  /\ UNCHANGED <<gone, venue, plan, stray, adrift, opens, faults>>

\* A cross_exchange strategy whose orders were both filled is reported as a
\* success and not committed: the session is closed and the rows are gone.
ReportCross(w) ==
  LET k == book[w] IN
  /\ pc[w] = "report"
  /\ ~err[w]
  /\ k \notin Spots
  /\ stray' = [m \in Markets |->
                 stray[m] + Cardinality({l \in Legs : Market(k, l) = m})]
  /\ Release(w)
  /\ UNCHANGED <<database, venue, plan, adrift, opens, faults>>

\* A leg failed: the strategy is committed as "error" before the unwind.
ReportError(w) ==
  LET k == book[w] IN
  /\ pc[w] = "report"
  /\ err[w]
  /\ sst' = [sst EXCEPT ![k] = "error"]
  /\ pst' = [pst EXCEPT ![k] = local[w]]
  /\ todo' = [todo EXCEPT ![w] = {l \in Legs : local[w][l] = "open"}]
  /\ local' = [local EXCEPT ![w] = Kept]
  /\ pc' = [pc EXCEPT ![w] = "unwind"]
  /\ UNCHANGED <<gone, venue, book, err, plan, stray, adrift, opens, faults>>

-----------------------------------------------------------------------------
(* Calls that close a leg.  An outcome says how many units are closed,     *)
(* whether the caller gets an order (or "already closed"), at what faults. *)

\* Mutant: an order that finds no position opens one on the other side.
ReversingOutcomes(h) ==
  {[n |-> 1, ok |-> TRUE, f |-> 0], [n |-> 0, ok |-> FALSE, f |-> 1]}

\* close_hedge_position: three variants of a one-unit order, each sent when the
\* one before raised, then a look at the position.
HedgeOutcomes(h) ==
  {o \in [n : 0 .. Lesser(CloseVariants, h), ok : BOOLEAN, f : 0 .. CloseVariants] :
     /\ o.ok => (o.n = 0 => h = 0) /\ o.f = (IF o.n = 0 THEN 0 ELSE o.n - 1)
     /\ ~o.ok => o.f = (IF o.n = 0 THEN 1 ELSE o.n)}

\* close_spot_position and close_position: an order of one unit; when it raised,
\* an order for whatever is left.  When nothing is left, close_spot_position
\* says "already closed" and close_position fails.
RestOutcomes(h, a, f, spot) ==
  {o \in [n : {a, h}, ok : BOOLEAN, f : f .. f + 1] :
     \/ a = h /\ o.ok = spot /\ o.f = f
     \/ a < h /\ o.n = h /\ o.ok /\ o.f = f
     \/ ~o.ok /\ o.f = f + 1}

SweepOutcomes(h, spot) ==
  IF h = 0 THEN RestOutcomes(0, 0, 0, spot)
  ELSE {[n |-> 1, ok |-> TRUE, f |-> 0]}
         \cup RestOutcomes(h, 0, 1, spot) \cup RestOutcomes(h, 1, 1, spot)

CloseOutcomes(w, m) ==
  IF m[2] = "spot" THEN SweepOutcomes(venue[m], TRUE)
  ELSE IF w = Risk THEN SweepOutcomes(venue[m], FALSE)
  ELSE HedgeOutcomes(venue[m])

Call(m, o) ==
  /\ faults + o.f <= MaxFaults
  /\ faults' = faults + o.f
  /\ venue' = [venue EXCEPT ![m] = @ - o.n]
  /\ stray' = [stray EXCEPT ![m] = Lesser(@, venue[m] - o.n)]

\* The emergency unwind of the one leg that was filled.  A spot hedge whose
\* unwind failed writes "open" again, a cross_exchange leaves it as it is.
Unwind(w) ==
  LET k == book[w] IN
  /\ pc[w] = "unwind"
  /\ \E l \in todo[w] : \E o \in CloseOutcomes(w, Market(k, l)) :
       /\ Call(Market(k, l), o)
       /\ local' = [local EXCEPT ![w][l] =
                      IF o.ok THEN "closed" ELSE IF k \in Spots THEN "open" ELSE "kept"]
       /\ todo' = [todo EXCEPT ![w] = {}]
  /\ UNCHANGED <<database, pc, book, err, plan, adrift, opens>>

\* _remaining_open_positions counts the rows of the table.
Remaining(w, k) == \E l \in Legs : pst[k][l] = "open"

\* The last commit of a failed open.
Settle(w) ==
  LET k == book[w] IN
  /\ pc[w] = "unwind"
  /\ todo[w] = {}
  /\ pst' = [pst EXCEPT ![k] = Flushed(@, local[w])]
  /\ sst' = [sst EXCEPT ![k] =
               IF k \notin Spots THEN @
               ELSE IF Remaining(w, k) THEN "active" ELSE "closed"]
  /\ Release(w)
  /\ UNCHANGED <<gone, venue, plan, stray, adrift, opens, faults>>

-----------------------------------------------------------------------------
(* Closing: the two close methods and the risk manager's _close_strategy.  *)

\* The trading API looks at the status first.
CloseCheck(w, k) ==
  /\ w \in Requests
  /\ pc[w] = "idle"
  /\ sst[k] \in {"active", "error"}
  /\ pc' = [pc EXCEPT ![w] = "checked"]
  /\ book' = [book EXCEPT ![w] = k]
  /\ UNCHANGED <<database, venue, todo, local, err, plan, stray, adrift, opens, faults>>

\* run_risk_checks lists the active strategies.
StartRisk ==
  /\ pc[Risk] = "idle"
  /\ pc' = [pc EXCEPT ![Risk] = "pick"]
  /\ plan' = [plan EXCEPT ![Risk] = {k \in Strategies : sst[k] = "active"}]
  /\ UNCHANGED <<database, venue, book, todo, local, err, stray, adrift, opens, faults>>

\* _active_spot_hedge_holds: those with a leg open, stuck ones included.
StartAuto ==
  /\ pc[Engine] = "idle"
  /\ pc' = [pc EXCEPT ![Engine] = "pick"]
  /\ plan' = [plan EXCEPT ![Engine] =
                {k \in Spots : /\ sst[k] \in {"active", "closing", "error"}
                               /\ \E l \in Legs : pst[k][l] = "open"}]
  /\ UNCHANGED <<database, venue, book, todo, local, err, stray, adrift, opens, faults>>

\* Nothing triggers for the rest of the list.
EndPass(w) ==
  /\ w \in {Risk, Engine}
  /\ pc[w] = "pick"
  /\ pc' = [pc EXCEPT ![w] = "idle"]
  /\ plan' = [plan EXCEPT ![w] = {}]
  /\ UNCHANGED <<database, venue, book, todo, local, err, stray, adrift, opens, faults>>

\* A request has looked at the status; a job goes by its list (a rule triggers,
\* a plan says so) and does not look again.
Chosen(w, k) ==
  \/ w \in Requests /\ pc[w] = "checked" /\ book[w] = k
  \/ w \in {Risk, Engine} /\ pc[w] = "pick" /\ k \in plan[w]

\* Mutant: a strategy without open positions is left at once.
CloseBeginEmpty(w, k) ==
  /\ Chosen(w, k)
  /\ sst' = [sst EXCEPT ![k] = "closing"]
  /\ IF Remaining(w, k)
     THEN /\ pc' = [pc EXCEPT ![w] = "closing"]
          /\ book' = [book EXCEPT ![w] = k]
          /\ todo' = [todo EXCEPT ![w] = {l \in Legs : pst[k][l] = "open"}]
          /\ UNCHANGED <<local, err>>
     ELSE Release(w)
  /\ plan' = [plan EXCEPT ![w] = @ \ {k}]
  /\ UNCHANGED <<pst, gone, venue, stray, adrift, opens, faults>>

\* "closing" is committed whatever the status is by now, then the open
\* positions are read.
CloseBegin(w, k) ==
  /\ Chosen(w, k)
  /\ sst' = [sst EXCEPT ![k] = "closing"]
  /\ pc' = [pc EXCEPT ![w] = "closing"]
  /\ book' = [book EXCEPT ![w] = k]
  /\ todo' = [todo EXCEPT ![w] = {l \in Legs : pst[k][l] = "open"}]
  /\ plan' = [plan EXCEPT ![w] = @ \ {k}]
  /\ UNCHANGED <<pst, gone, venue, local, err, stray, adrift, opens, faults>>

\* Mutant: a position counts as closed once the order was sent.
ClosedWhenSent(w, ok) == "closed"

\* What the session writes for a leg after the call.
LegAfter(w, ok) ==
  IF ok THEN "closed" ELSE IF w = Risk THEN "error" ELSE "kept"

CloseLeg(w, l) ==
  LET m == Market(book[w], l) IN
  /\ pc[w] = "closing"
  /\ l \in todo[w]
  /\ m \notin gone
  /\ todo' = [todo EXCEPT ![w] = @ \ {l}]
  /\ \E o \in CloseOutcomes(w, m) :
       /\ Call(m, o)
       /\ local' = [local EXCEPT ![w][l] = LegAfter(w, o.ok)]
       /\ err' = [err EXCEPT ![w] = @ \/ ~o.ok]
  /\ UNCHANGED <<database, pc, book, plan, adrift, opens>>

\* The leg's exchange was deleted: the risk manager passes over it, a spot
\* hedge notes an error and goes on.
SkipLeg(w, l) ==
  LET k == book[w] IN
  /\ pc[w] = "closing"
  /\ l \in todo[w]
  /\ Market(k, l) \in gone
  /\ w = Risk \/ k \in Spots
  /\ todo' = [todo EXCEPT ![w] = @ \ {l}]
  /\ err' = [err EXCEPT ![w] = @ \/ w # Risk]
  /\ UNCHANGED <<database, venue, pc, book, local, plan, stray, adrift, opens, faults>>

\* A cross_exchange strategy takes an attribute of None: the request fails and
\* its session is rolled back.
BreakClose(w, l) ==
  LET k == book[w] IN
  /\ pc[w] = "closing"
  /\ l \in todo[w]
  /\ Market(k, l) \in gone
  /\ w # Risk
  /\ k \notin Spots
  /\ adrift' = adrift \cup {k}
  /\ Release(w)
  /\ UNCHANGED <<database, venue, plan, stray, opens, faults>>

\* The last commit of a close.  A spot hedge counts the rows still open in the
\* table, the ones it has just closed among them.
CloseEnd(w) ==
  LET k == book[w] IN
  /\ pc[w] = "closing"
  /\ todo[w] = {}
  /\ pst' = [pst EXCEPT ![k] = Flushed(@, local[w])]
  /\ sst' = [sst EXCEPT ![k] =
               IF w # Risk /\ k \in Spots
               THEN IF Remaining(w, k) THEN "active" ELSE "closed"
               ELSE IF err[w] THEN "error" ELSE "closed"]
  /\ Release(w)
  /\ UNCHANGED <<gone, venue, plan, stray, adrift, opens, faults>>

-----------------------------------------------------------------------------
(* Failures and the other users of the database.                           *)

Abandoned(S) ==
  [m \in Markets |-> stray[m] + Cardinality({x \in S \X Legs :
    /\ pc[x[1]] \in {"second", "report"}
    /\ local[x[1]][x[2]] = "open"
    /\ Market(book[x[1]], x[2]) = m})]

\* An exception reaches the worker's handler: the session is rolled back, and
\* the request or the job's pass is over.
Abort(w) ==
  /\ book[w] # NoStrategy
  /\ faults < MaxFaults
  /\ faults' = faults + 1
  /\ stray' = Abandoned({w})
  /\ adrift' = adrift \cup {book[w]}
  /\ Leave(w, "idle")
  /\ plan' = [plan EXCEPT ![w] = {}]
  /\ UNCHANGED <<database, venue, opens>>

\* The process dies and starts again.
Crash ==
  /\ \E w \in Workers : pc[w] # "idle"
  /\ faults < MaxFaults
  /\ faults' = faults + 1
  /\ stray' = Abandoned(Workers)
  /\ adrift' = adrift \cup ({book[w] : w \in Workers} \ {NoStrategy})
  /\ pc' = [w \in Workers |-> "idle"]
  /\ book' = [w \in Workers |-> NoStrategy]
  /\ todo' = [w \in Workers |-> {}]
  /\ local' = [w \in Workers |-> Kept]
  /\ err' = [w \in Workers |-> FALSE]
  /\ plan' = [w \in Workers |-> {}]
  /\ UNCHANGED <<database, venue, opens>>

\* delete_exchange does not ask whether a strategy uses the exchange.
DeleteExchange(m) ==
  /\ Cardinality(gone) < MaxDeleted
  /\ gone' = gone \cup {m}
  /\ UNCHANGED <<sst, pst, venue, locals, stray, adrift, opens, faults>>

-----------------------------------------------------------------------------
OpenStep(w) ==
  \/ \E k \in Strategies : OpenBegin(w, k)
  \/ Place(w) \/ ReportSpot(w) \/ ReportCross(w) \/ ReportError(w)
  \/ Unwind(w) \/ Settle(w)

CloseStep(w) ==
  \/ \E k \in Strategies : CloseCheck(w, k) \/ CloseBegin(w, k)
  \/ CloseEnd(w) \/ EndPass(w)
  \/ \E l \in Legs : CloseLeg(w, l) \/ SkipLeg(w, l) \/ BreakClose(w, l)

Next ==
  \/ \E w \in Workers : OpenStep(w) \/ CloseStep(w) \/ Abort(w)
  \/ StartRisk \/ StartAuto \/ Crash
  \/ \E m \in Markets : DeleteExchange(m)

Spec == Init /\ [][Next]_vars

-----------------------------------------------------------------------------
(* Properties.                                                             *)

Statuses == {"open", "closed", "error"}

TypeOK ==
  /\ sst \in [Strategies -> {"none", "active", "closing", "closed", "error"}]
  /\ pst \in [Strategies -> [Legs -> Statuses \cup {"none"}]]
  /\ gone \in SUBSET Markets
  /\ venue \in [Markets -> Nat]
  /\ pc \in [Workers -> {"idle", "pick", "first", "second", "report", "unwind",
                        "checked", "closing"}]
  /\ book \in [Workers -> Strategies \cup {NoStrategy}]
  /\ todo \in [Workers -> SUBSET Legs]
  /\ local \in [Workers -> [Legs -> Statuses \cup {"kept"}]]
  /\ err \in [Workers -> BOOLEAN]
  /\ plan \in [Workers -> SUBSET Strategies]
  /\ stray \in [Markets -> Nat]
  /\ adrift \in SUBSET Strategies
  /\ opens \in 0 .. MaxOpens
  /\ faults \in 0 .. MaxFaults

\* A position that still promises its unit: its leg failed, or it is open, its
\* strategy is not closed and no worker has just closed it.
Promised(k, l) ==
  \/ pst[k][l] = "error"
  \/ /\ pst[k][l] = "open"
     /\ sst[k] # "closed"
     /\ \A w \in Workers : book[w] = k => local[w][l] # "closed"

\* No exposure is forgotten: the units of a market are never more than the
\* positions that promise one, the orders of the openers and the units that
\* were never recorded.  In particular a closed strategy leaves nothing behind
\* but legs marked "error".  (Only a deleted exchange makes it forget more: the
\* risk manager passes over its leg and calls the strategy closed.)
HeldIsPromised ==
  \A m \in Markets \ gone :
    venue[m] <= InFlight(m) + stray[m]
                + Cardinality({x \in Strategies \X Legs :
                    Market(x[1], x[2]) = m /\ Promised(x[1], x[2])})

\* A strategy is "closing" only while a worker closes it, unless that worker
\* died: overlapping closes and failed legs always write a final status.
ClosingHasCloser ==
  \A k \in Strategies : sst[k] = "closing" =>
    k \in adrift \/ \E w \in Workers : book[w] = k /\ pc[w] = "closing"

\* Without failures, an active pair that nobody works on is hedged: each of its
\* open positions is held.
ActiveIsHeld(k) ==
  \A l \in Legs :
    /\ faults = 0
    /\ sst[k] = "active"
    /\ pst[k][l] = "open"
    /\ \A w \in Workers : book[w] # k
    => venue[Market(k, l)] > 0

\* True of the first strategy on its symbol, however many threads close it at
\* once.
FirstIsHeld ==
  \A k \in Strategies :
    (\A q \in Strategies \ {k} : SymbolOf[q] = SymbolOf[k] => sst[q] = "none")
      => ActiveIsHeld(k)

\* The same of every strategy: closing another one on its symbol does not close
\* its unit.  Two threads that close the first one at the
\* same time (which the answer "Strategy is already closing" should exclude)
\* do.
EachIsHeld == \A k \in Strategies : ActiveIsHeld(k)

\* "Create strategy record": the units of an open that reported success are on
\* record.  Without failures every unit an exchange holds is.
SuccessIsRecorded == faults = 0 => \A m \in Markets : stray[m] = 0
=============================================================================
