------------------------------ MODULE SpreadArb ------------------------------
(***************************************************************************)
(* The life of a spread-arbitrage position: core/spread_arb_engine.        *)
(*                                                                         *)
(* Three kinds of thread run the engine's code on one database:            *)
(*   - "fast", the price loop of domains/websocket/router.py.  After every *)
(*     price refresh it tries to enter new positions, then recovers stuck  *)
(*     ones (twice: trigger_spread_exits calls the recovery and then       *)
(*     _check_exits, which calls it again), then checks exits;             *)
(*   - "sched", the scheduler job run_spread_arb: recovery, then exits;    *)
(*   - one thread per manual-close request (domains/spread_arb/router.py). *)
(* The locks _entry_lock and _exit_lock are taken by "fast" only, so they  *)
(* never make another thread wait.  A database commit is one step, and so  *)
(* is one call to an exchange; everything between two of them is local.    *)
(*                                                                         *)
(* A symbol trades on one pair of exchanges, the short leg on the high one *)
(* and the long leg on the low one.  A leg is one unit of venue exposure.  *)
(* An engine that is disabled is one whose workers do not start.           *)
(***************************************************************************)
EXTENDS Integers, FiniteSets

CONSTANTS
  Rows,          \* slots of the table spread_positions
  Symbols,       \* traded symbols
  SymbolOf,      \* the symbol a row is about
  NoRow,         \* "no row in hand"
  Requests,      \* threads that serve manual-close requests
  Reasons,       \* exit reasons _check_exits can produce in this instance
  MaxTries,      \* attempts per order (MAX_ENTRY_RETRIES, max_retries: 3)
  SpreadMax,     \* cfg.spread_max_positions
  TotalMax,      \* cfg.max_open_strategies
  MaxFunding,    \* bound: funding strategies the environment opens
  MaxFaults,     \* bound: rejected, lost or failed calls, aborts and crashes
  MaxDeleted     \* bound: legs whose exchange the user deletes

Fast  == "fast"
Sched == "sched"
Workers == {Fast, Sched} \cup Requests
Legs == {"short", "long"}

\* Order variants one close_hedge_position call sends before it gives up.
CloseVariants == 3

\* Reasons whose text matches _in_cooldown's pattern '%止损%': the engine
\* writes "stop_loss: ..." and no other reason contains the word either.
MarkedReasons == {}

ASSUME ConstantsAssumption ==
  /\ IsFiniteSet(Rows)
  /\ SymbolOf \in [Rows -> Symbols]
  /\ NoRow \notin Rows
  /\ Requests \cap {Fast, Sched} = {}
  /\ MaxTries \in Nat \ {0}
  /\ SpreadMax \in Nat
  /\ TotalMax \in Nat
  /\ MaxFunding \in Nat
  /\ MaxFaults \in Nat
  /\ MaxDeleted \in Nat

VARIABLES
  \* The database.
  status,   \* SpreadPosition.status; "none" is a slot with no row yet
  flag,     \* SpreadPosition.short_closed and long_closed
  stops,    \* rows last closed by a stop-loss, inside the cooldown window
  funding,  \* number of active funding strategies
  gone,     \* (symbol, leg) pairs whose Exchange row was deleted
  \* The exchanges.
  venue,    \* units held per symbol and leg
  \* Process memory.
  cool,     \* rows whose _last_recover_attempt is less than 300 s old
  \* What each worker has in hand.
  pc, job, row, leg, tries, todo, mem, noex, why,
  \* History.
  stray,    \* does the symbol's leg hold units no row was ever written for?
  faults    \* faults so far

database == <<status, flag, stops, funding, gone>>
locals   == <<pc, job, row, leg, tries, todo, mem, noex, why>>
vars     == <<database, venue, cool, locals, stray, faults>>

Unflagged == [l \in Legs |-> FALSE]

OpenRows == {r \in Rows : status[r] = "open"}

\* Mutant: only failed closes are recovered, not interrupted ones.
StuckErrorsOnly == {r \in Rows : status[r] = "error"}
Stuck    == {r \in Rows : status[r] \in {"closing", "error"}}

\* An entry that has filled a leg and has not yet written its row.
InFlight(s, l) ==
  IF /\ row[Fast] # NoRow
     /\ SymbolOf[row[Fast]] = s
     /\ pc[Fast] \in IF l = "short" THEN {"placeLong", "cancel", "persist"}
                                    ELSE {"persist"}
  THEN 1 ELSE 0

Init ==
  /\ status = [r \in Rows |-> "none"]
  /\ flag = [r \in Rows |-> Unflagged]
  /\ stops = {}
  /\ funding = 0
  /\ gone = {}
  /\ venue = [s \in Symbols |-> [l \in Legs |-> 0]]
  /\ cool = {}
  /\ pc = [w \in Workers |-> "idle"]
  /\ job = [w \in Workers |-> "none"]
  /\ row = [w \in Workers |-> NoRow]
  /\ leg = [w \in Workers |-> "short"]
  /\ tries = [w \in Workers |-> 0]
  /\ todo = [w \in Workers |-> {}]
  /\ mem = [w \in Workers |-> Unflagged]
  /\ noex = [w \in Workers |-> {}]
  /\ why = [w \in Workers |-> "none"]
  /\ stray = [s \in Symbols |-> [l \in Legs |-> FALSE]]
  /\ faults = 0

-----------------------------------------------------------------------------
(* Cycles: what a worker does when it has no row in hand.                  *)

\* The worker lets go of its row and goes to p with the same job.
Release(w, p) ==
  /\ pc' = [pc EXCEPT ![w] = p]
  /\ row' = [row EXCEPT ![w] = NoRow]
  /\ leg' = [leg EXCEPT ![w] = "short"]
  /\ tries' = [tries EXCEPT ![w] = 0]
  /\ mem' = [mem EXCEPT ![w] = Unflagged]
  /\ noex' = [noex EXCEPT ![w] = {}]
  /\ why' = [why EXCEPT ![w] = "none"]

Load(w, j, rows) ==
  /\ pc' = [pc EXCEPT ![w] = "pick"]
  /\ job' = [job EXCEPT ![w] = j]
  /\ todo' = [todo EXCEPT ![w] = rows]
  /\ UNCHANGED <<row, leg, tries, mem, noex, why>>

\* update_fast_prices: the opportunities of this refresh, found in the caches.
StartFast ==
  /\ pc[Fast] = "idle"
  /\ \E opps \in SUBSET Symbols : Load(Fast, "entry", opps)
  /\ UNCHANGED <<database, venue, cool, stray, faults>>

StartSched ==
  /\ pc[Sched] = "idle"
  /\ Load(Sched, "recover", Stuck)
  /\ UNCHANGED <<database, venue, cool, stray, faults>>

\* A pass is over: the next query of the cycle, or the end of the cycle.
NextPass(w) ==
  /\ pc[w] = "pick"
  /\ todo[w] = {}
  /\ \/ job[w] = "entry" /\ Load(w, "prerecover", Stuck)
     \/ job[w] = "prerecover" /\ Load(w, "recover", Stuck)
     \/ job[w] = "recover" /\ Load(w, "exit", OpenRows)
     \/ /\ job[w] = "exit"
        /\ Release(w, "idle")
        /\ job' = [job EXCEPT ![w] = "none"]
        /\ UNCHANGED todo
  /\ UNCHANGED <<database, venue, cool, stray, faults>>

-----------------------------------------------------------------------------
(* Entry: _try_open_position.                                              *)

InCooldown(s) ==
  /\ "stop_loss" \in MarkedReasons
  /\ \E r \in stops : SymbolOf[r] = s /\ status[r] \in {"closed", "error"}

\* Mutant: the duplicate check looks for stuck rows only.
HasStuckRow(s) == \E r \in Stuck : SymbolOf[r] = s
HasOpenRow(s) == \E r \in OpenRows : SymbolOf[r] = s

BelowCaps ==
  /\ funding + Cardinality(OpenRows) < TotalMax
  /\ Cardinality(OpenRows) < SpreadMax

\* The z-score, profit, volume, balance and price conditions may always fail.
EntrySkip ==
  /\ pc[Fast] = "pick"
  /\ job[Fast] = "entry"
  /\ \E s \in todo[Fast] : todo' = [todo EXCEPT ![Fast] = @ \ {s}]
  /\ UNCHANGED <<database, venue, cool, stray, faults>>
  /\ UNCHANGED <<pc, job, row, leg, tries, mem, noex, why>>

EntryBegin(r) ==
  LET s == SymbolOf[r] IN
  /\ pc[Fast] = "pick"
  /\ job[Fast] = "entry"
  /\ s \in todo[Fast]
  /\ status[r] = "none"
  /\ ~InCooldown(s)
  /\ ~HasOpenRow(s)
  /\ BelowCaps
  /\ \A l \in Legs : <<s, l>> \notin gone
  /\ pc' = [pc EXCEPT ![Fast] = "placeShort"]
  /\ row' = [row EXCEPT ![Fast] = r]
  /\ todo' = [todo EXCEPT ![Fast] = @ \ {s}]
  /\ UNCHANGED <<database, venue, cool, stray, faults>>
  /\ UNCHANGED <<job, leg, tries, mem, noex, why>>

PlacedLeg == IF pc[Fast] = "placeShort" THEN "short" ELSE "long"

\* _place_with_retry gets an order back.
PlaceFilled ==
  LET s == SymbolOf[row[Fast]] IN
  /\ pc[Fast] \in {"placeShort", "placeLong"}
  /\ venue' = [venue EXCEPT ![s][PlacedLeg] = @ + 1]
  /\ pc' = [pc EXCEPT ![Fast] =
              IF @ = "placeShort" THEN "placeLong" ELSE "persist"]
  /\ tries' = [tries EXCEPT ![Fast] = 0]
  /\ UNCHANGED <<database, cool, stray, faults>>
  /\ UNCHANGED <<job, row, leg, todo, mem, noex, why>>

\* An attempt fails: rejected, or filled and the reply lost.  The next attempt
\* sends a new order; after the last, the short leg aborts the entry and the
\* long leg has the short leg cancelled.
PlaceFailed(landed) ==
  LET s == SymbolOf[row[Fast]] IN
  /\ pc[Fast] \in {"placeShort", "placeLong"}
  /\ faults < MaxFaults
  /\ faults' = faults + 1
  /\ IF landed
     THEN /\ venue' = [venue EXCEPT ![s][PlacedLeg] = @ + 1]
          /\ stray' = [stray EXCEPT ![s][PlacedLeg] = TRUE]
     ELSE UNCHANGED <<venue, stray>>
  /\ \/ /\ tries[Fast] + 1 < MaxTries
        /\ tries' = [tries EXCEPT ![Fast] = @ + 1]
        /\ UNCHANGED <<pc, row, leg, mem, noex, why>>
     \/ /\ tries[Fast] + 1 >= MaxTries
        /\ pc[Fast] = "placeShort"
        /\ Release(Fast, "pick")
     \/ /\ tries[Fast] + 1 >= MaxTries
        /\ pc[Fast] = "placeLong"
        /\ pc' = [pc EXCEPT ![Fast] = "cancel"]
        /\ tries' = [tries EXCEPT ![Fast] = 0]
        /\ UNCHANGED <<row, leg, mem, noex, why>>
  /\ UNCHANGED <<database, cool, job, todo>>

\* close_hedge_position on a leg that holds h units: k of them are closed, and
\* the caller gets an order back or not.  Every variant whose reply is lost is
\* followed by the next one; a flat leg is reported as already closed.
CloseOutcomes(h) ==
  {o \in [k : 0 .. CloseVariants, ok : BOOLEAN] :
     o.k <= h /\ (o.ok /\ o.k = 0 => h = 0)}

LostReplies(o) == IF o.ok THEN IF o.k = 0 THEN 0 ELSE o.k - 1
                          ELSE IF o.k = 0 THEN 1 ELSE o.k

\* The call itself.  Unrecorded units are gone once the leg is flat; "left"
\* says whether the call leaves an unrecorded unit behind.
CloseCall(s, l, o, left) ==
  /\ faults + LostReplies(o) <= MaxFaults
  /\ faults' = faults + LostReplies(o)
  /\ venue' = [venue EXCEPT ![s][l] = @ - o.k]
  /\ stray' = [stray EXCEPT ![s][l] = (@ \/ left) /\ venue[s][l] > o.k]

\* _cancel_leg: one call, and nobody looks at the result.
Cancel ==
  LET s == SymbolOf[row[Fast]] IN
  /\ pc[Fast] = "cancel"
  /\ \E o \in CloseOutcomes(venue[s]["short"]) :
       CloseCall(s, "short", o, o.k = 0)
  /\ Release(Fast, "pick")
  /\ UNCHANGED <<database, cool, job, todo>>

\* The row is written after both orders.
Persist ==
  LET r == row[Fast] IN
  /\ pc[Fast] = "persist"
  /\ status' = [status EXCEPT ![r] = "open"]
  /\ flag' = [flag EXCEPT ![r] = Unflagged]
  /\ Release(Fast, "pick")
  /\ UNCHANGED <<stops, funding, gone, venue, cool, stray, faults, job, todo>>

-----------------------------------------------------------------------------
(* The two legs of a close or of a recovery.                               *)

\* What a commit leaves in the flag columns: the worker has read or set the
\* values m, and SQLAlchemy writes only those it changed (to TRUE).
\* Mutant: it writes every column it has in memory.
FlaggedByCopy(f, m) == m
Flagged(f, m) == [l \in Legs |-> f[l] \/ m[l]]

\* Mutant: one confirmed leg is enough.
FinalStatusByAny(m) == IF \E l \in Legs : m[l] THEN "closed" ELSE "error"
FinalStatus(m) == IF \A l \in Legs : m[l] THEN "closed" ELSE "error"

Closing(w) == job[w] \in {"exit", "manual"}
Missing(r) == {l \in Legs : <<SymbolOf[r], l>> \in gone}

\* A leg is sent an order unless it is flagged or its exchange row is missing.
\* A close flags the leg of a missing exchange ("nothing to close"), in memory
\* until its next commit; a recovery leaves it as it is.
Needs(m, missing, l) == ~m[l] /\ l \notin missing
Passed(m, missing, l, closing) ==
  [m EXCEPT ![l] = @ \/ (closing /\ l \in missing)]

EnterLong(w, m, missing, closing) ==
  /\ tries' = [tries EXCEPT ![w] = 0]
  /\ leg' = [leg EXCEPT ![w] = "long"]
  /\ \/ /\ Needs(m, missing, "long")
        /\ pc' = [pc EXCEPT ![w] = "send"]
        /\ mem' = [mem EXCEPT ![w] = m]
     \/ /\ ~Needs(m, missing, "long")
        /\ pc' = [pc EXCEPT ![w] = "finish"]
        /\ mem' = [mem EXCEPT ![w] = Passed(m, missing, "long", closing)]

EnterShort(w, m, missing, closing) ==
  \/ /\ Needs(m, missing, "short")
     /\ tries' = [tries EXCEPT ![w] = 0]
     /\ leg' = [leg EXCEPT ![w] = "short"]
     /\ pc' = [pc EXCEPT ![w] = "send"]
     /\ mem' = [mem EXCEPT ![w] = m]
  \/ /\ ~Needs(m, missing, "short")
     /\ EnterLong(w, Passed(m, missing, "short", closing), missing, closing)

\* After the leg in hand: the other leg, or the end, with flags m in memory.
Advance(w, m) ==
  \/ leg[w] = "short" /\ EnterLong(w, m, noex[w], Closing(w))
  \/ /\ leg[w] = "long"
     /\ pc' = [pc EXCEPT ![w] = "finish"]
     /\ tries' = [tries EXCEPT ![w] = 0]
     /\ mem' = [mem EXCEPT ![w] = m]
     /\ UNCHANGED leg

\* Mutant: one attempt too many.
RetryOnceMore(w) ==
  \/ /\ tries[w] + 1 <= MaxTries
     /\ tries' = [tries EXCEPT ![w] = @ + 1]
     /\ pc' = [pc EXCEPT ![w] = "send"]
     /\ UNCHANGED <<leg, mem>>
  \/ tries[w] + 1 > MaxTries /\ Advance(w, mem[w])

\* Mutant: a leg that was tried often enough counts as closed.
RetryThenFlag(w) ==
  \/ /\ tries[w] + 1 < MaxTries
     /\ tries' = [tries EXCEPT ![w] = @ + 1]
     /\ pc' = [pc EXCEPT ![w] = "send"]
     /\ UNCHANGED <<leg, mem>>
  \/ tries[w] + 1 >= MaxTries /\ Advance(w, [mem[w] EXCEPT ![leg[w]] = TRUE])

\* An attempt of _close_leg_with_retry did not end with a verified zero.
Retry(w) ==
  \/ /\ tries[w] + 1 < MaxTries
     /\ tries' = [tries EXCEPT ![w] = @ + 1]
     /\ pc' = [pc EXCEPT ![w] = "send"]
     /\ UNCHANGED <<leg, mem>>
  \/ tries[w] + 1 >= MaxTries /\ Advance(w, mem[w])

SendClose(w) ==
  LET s == SymbolOf[row[w]] IN
  /\ pc[w] = "send"
  /\ \E o \in CloseOutcomes(venue[s][leg[w]]) :
       /\ CloseCall(s, leg[w], o, FALSE)
       /\ \/ /\ o.ok
             /\ pc' = [pc EXCEPT ![w] = "verify"]
             /\ UNCHANGED <<leg, tries, mem>>
          \/ ~o.ok /\ Retry(w)
  /\ UNCHANGED <<database, cool, job, row, todo, noex, why>>

\* _verify_leg_closed reads zero.  A close commits the flag at once and reads
\* the row again; a recovery keeps the flag in memory until it has tried both.
VerifiedFlat(w) ==
  LET r == row[w]
      m == [mem[w] EXCEPT ![leg[w]] = TRUE]
      f == Flagged(flag[r], m)
  IN
  /\ pc[w] = "verify"
  /\ venue[SymbolOf[r]][leg[w]] = 0
  /\ \/ /\ Closing(w)
        /\ flag' = [flag EXCEPT ![r] = f]
        /\ Advance(w, f)
     \/ ~Closing(w) /\ Advance(w, m) /\ UNCHANGED flag
  /\ UNCHANGED <<status, stops, funding, gone, venue, cool, stray, faults>>
  /\ UNCHANGED <<job, row, todo, noex, why>>

\* _verify_leg_closed reads a position, or fails to read.
VerifiedOpen(w) ==
  /\ pc[w] = "verify"
  /\ \/ venue[SymbolOf[row[w]]][leg[w]] > 0 /\ UNCHANGED faults
     \/ faults < MaxFaults /\ faults' = faults + 1
  /\ Retry(w)
  /\ UNCHANGED <<database, venue, cool, stray, job, row, todo, noex, why>>

-----------------------------------------------------------------------------
(* Exits: _check_exits and _close_spread_position.                         *)

\* No price, or no exit condition holds.
ExitSkip(w) ==
  /\ pc[w] = "pick"
  /\ job[w] = "exit"
  /\ \E r \in todo[w] : todo' = [todo EXCEPT ![w] = @ \ {r}]
  /\ UNCHANGED <<database, venue, cool, stray, faults>>
  /\ UNCHANGED <<pc, job, row, leg, tries, mem, noex, why>>

\* Mutant: the row stays open while its legs are closed.
BeginCloseUnmarked(w, r) ==
  /\ noex' = [noex EXCEPT ![w] = Missing(r)]
  /\ EnterShort(w, flag[r], Missing(r), TRUE)
  /\ UNCHANGED <<database, venue, cool, stray, faults, job>>

\* status = "closing" is committed whatever the row's status is by now.
BeginClose(w, r) ==
  /\ status' = [status EXCEPT ![r] = "closing"]
  /\ noex' = [noex EXCEPT ![w] = Missing(r)]
  /\ EnterShort(w, flag[r], Missing(r), TRUE)
  /\ UNCHANGED <<flag, stops, funding, gone, venue, cool, stray, faults, job>>

ExitClose(w, r, reason) ==
  /\ pc[w] = "pick"
  /\ job[w] = "exit"
  /\ r \in todo[w]
  /\ BeginClose(w, r)
  /\ row' = [row EXCEPT ![w] = r]
  /\ todo' = [todo EXCEPT ![w] = @ \ {r}]
  /\ why' = [why EXCEPT ![w] = reason]

\* manual_close reads the status before it closes; any other status than open
\* is answered "already_closed".
ManualCheck(w, r) ==
  /\ w \in Requests
  /\ pc[w] = "idle"
  /\ status[r] = "open"
  /\ pc' = [pc EXCEPT ![w] = "checked"]
  /\ job' = [job EXCEPT ![w] = "manual"]
  /\ row' = [row EXCEPT ![w] = r]
  /\ mem' = [mem EXCEPT ![w] = flag[r]]
  /\ why' = [why EXCEPT ![w] = "manual"]
  /\ UNCHANGED <<database, venue, cool, stray, faults>>
  /\ UNCHANGED <<leg, tries, todo, noex>>

ManualClose(w) ==
  /\ pc[w] = "checked"
  /\ BeginClose(w, row[w])
  /\ UNCHANGED <<row, todo, why>>

\* The last commit of _close_spread_position.
FinishClose(w) ==
  LET r == row[w] IN
  /\ pc[w] = "finish"
  /\ Closing(w)
  /\ flag' = [flag EXCEPT ![r] = Flagged(@, mem[w])]
  /\ status' = [status EXCEPT ![r] = FinalStatus(mem[w])]
  /\ stops' = IF why[w] = "stop_loss" THEN stops \cup {r} ELSE stops \ {r}
  /\ \/ job[w] = "exit" /\ Release(w, "pick") /\ UNCHANGED job
     \/ /\ job[w] = "manual"
        /\ Release(w, "idle")
        /\ job' = [job EXCEPT ![w] = "none"]
  /\ UNCHANGED <<funding, gone, venue, cool, stray, faults, todo>>

-----------------------------------------------------------------------------
(* Recovery: _recover_half_closed_positions.                               *)

Recovering(w) == job[w] \in {"prerecover", "recover"}

\* Both legs were confirmed already: only the status is repaired.
RecoverStatus(w, r) ==
  /\ pc[w] = "pick"
  /\ Recovering(w)
  /\ r \in todo[w]
  /\ \A l \in Legs : flag[r][l]
  /\ status' = [status EXCEPT ![r] = "closed"]
  /\ todo' = [todo EXCEPT ![w] = @ \ {r}]
  /\ UNCHANGED <<flag, stops, funding, gone, venue, cool, stray, faults>>
  /\ UNCHANGED <<pc, job, row, leg, tries, mem, noex, why>>

\* Retried less than 300 seconds ago.
RecoverLater(w, r) ==
  /\ pc[w] = "pick"
  /\ Recovering(w)
  /\ r \in todo[w] \cap cool
  /\ \E l \in Legs : ~flag[r][l]
  /\ todo' = [todo EXCEPT ![w] = @ \ {r}]
  /\ UNCHANGED <<database, venue, cool, stray, faults>>
  /\ UNCHANGED <<pc, job, row, leg, tries, mem, noex, why>>

\* The time of the last attempt is read here and written in the next step.
RecoverCheck(w, r) ==
  /\ pc[w] = "pick"
  /\ Recovering(w)
  /\ r \in todo[w] \ cool
  /\ \E l \in Legs : ~flag[r][l]
  /\ pc' = [pc EXCEPT ![w] = "due"]
  /\ row' = [row EXCEPT ![w] = r]
  /\ mem' = [mem EXCEPT ![w] = flag[r]]
  /\ todo' = [todo EXCEPT ![w] = @ \ {r}]
  /\ UNCHANGED <<database, venue, cool, stray, faults>>
  /\ UNCHANGED <<job, leg, tries, noex, why>>

RecoverBegin(w) ==
  LET r == row[w] IN
  /\ pc[w] = "due"
  /\ cool' = cool \cup {r}
  /\ noex' = [noex EXCEPT ![w] = Missing(r)]
  /\ EnterShort(w, mem[w], Missing(r), FALSE)
  /\ UNCHANGED <<database, venue, stray, faults, job, row, todo, why>>

FinishRecover(w) ==
  LET r == row[w] IN
  /\ pc[w] = "finish"
  /\ Recovering(w)
  /\ flag' = [flag EXCEPT ![r] = Flagged(@, mem[w])]
  /\ status' = [status EXCEPT ![r] =
                  IF \A l \in Legs : mem[w][l] THEN "closed" ELSE @]
  /\ Release(w, "pick")
  /\ UNCHANGED <<stops, funding, gone, venue, cool, stray, faults, job, todo>>

-----------------------------------------------------------------------------
(* Failures, time and the other users of the database.                     *)

\* The units of an entry that will not write its row are recorded nowhere.
Abandon ==
  stray' = [s \in Symbols |-> [l \in Legs |->
             stray[s][l] \/ (InFlight(s, l) = 1 /\ venue[s][l] > 0)]]

\* An exception reaches the cycle's handler: rollback, and the cycle ends.
Abort(w) ==
  /\ pc[w] # "idle"
  /\ faults < MaxFaults
  /\ faults' = faults + 1
  /\ IF w = Fast THEN Abandon ELSE UNCHANGED stray
  /\ Release(w, "idle")
  /\ job' = [job EXCEPT ![w] = "none"]
  /\ todo' = [todo EXCEPT ![w] = {}]
  /\ UNCHANGED <<database, venue, cool>>

\* The process dies and starts again; only the database and the exchanges
\* remember anything.
Crash ==
  /\ \E w \in Workers : pc[w] # "idle"
  /\ faults < MaxFaults
  /\ faults' = faults + 1
  /\ Abandon
  /\ cool' = {}
  /\ pc' = [w \in Workers |-> "idle"]
  /\ job' = [w \in Workers |-> "none"]
  /\ row' = [w \in Workers |-> NoRow]
  /\ leg' = [w \in Workers |-> "short"]
  /\ tries' = [w \in Workers |-> 0]
  /\ todo' = [w \in Workers |-> {}]
  /\ mem' = [w \in Workers |-> Unflagged]
  /\ noex' = [w \in Workers |-> {}]
  /\ why' = [w \in Workers |-> "none"]
  /\ UNCHANGED <<database, venue>>

\* 300 seconds since the last attempt on r.
CooldownOver(r) ==
  /\ r \in cool
  /\ cool' = cool \ {r}
  /\ UNCHANGED <<database, venue, locals, stray, faults>>

\* spread_cooldown_mins since r was closed.
StopWindowOver(r) ==
  /\ r \in stops
  /\ stops' = stops \ {r}
  /\ UNCHANGED <<status, flag, funding, gone>>
  /\ UNCHANGED <<venue, cool, locals, stray, faults>>

\* The trading API opens funding strategies without looking at the caps.
OpenFunding ==
  /\ funding < MaxFunding
  /\ funding' = funding + 1
  /\ UNCHANGED <<status, flag, stops, gone>>
  /\ UNCHANGED <<venue, cool, locals, stray, faults>>

CloseFunding ==
  /\ funding > 0
  /\ funding' = funding - 1
  /\ UNCHANGED <<status, flag, stops, gone>>
  /\ UNCHANGED <<venue, cool, locals, stray, faults>>

\* delete_exchange does not ask whether a position uses the exchange.
DeleteExchange(s, l) ==
  /\ Cardinality(gone) < MaxDeleted
  /\ gone' = gone \cup {<<s, l>>}
  /\ UNCHANGED <<status, flag, stops, funding>>
  /\ UNCHANGED <<venue, cool, locals, stray, faults>>

-----------------------------------------------------------------------------
EntryStep ==
  \/ EntrySkip
  \/ \E r \in Rows : EntryBegin(r)
  \/ PlaceFilled
  \/ \E landed \in BOOLEAN : PlaceFailed(landed)
  \/ Cancel
  \/ Persist

LegStep(w) == SendClose(w) \/ VerifiedFlat(w) \/ VerifiedOpen(w)

ExitStep(w) ==
  \/ ExitSkip(w)
  \/ \E r \in Rows, reason \in Reasons : ExitClose(w, r, reason)
  \/ FinishClose(w)

RecoverStep(w) ==
  \/ \E r \in Rows : RecoverStatus(w, r) \/ RecoverLater(w, r) \/ RecoverCheck(w, r)
  \/ RecoverBegin(w)
  \/ FinishRecover(w)

Step(w) == NextPass(w) \/ LegStep(w) \/ ExitStep(w) \/ RecoverStep(w) \/ ManualClose(w)

FastStep  == StartFast \/ EntryStep \/ Step(Fast)
SchedStep == StartSched \/ Step(Sched)

Environment ==
  \/ \E w \in Workers : Abort(w)
  \/ Crash
  \/ \E r \in Rows : CooldownOver(r) \/ StopWindowOver(r)
  \/ OpenFunding \/ CloseFunding
  \/ \E s \in Symbols, l \in Legs : DeleteExchange(s, l)

Next ==
  \/ FastStep
  \/ SchedStep
  \/ \E w \in Requests : Step(w) \/ \E r \in Rows : ManualCheck(w, r)
  \/ Environment

Spec == Init /\ [][Next]_vars

\* The price loop and the scheduler start their next cycle and every thread
\* that runs gets on; requests, users and failures come as they like.  The
\* clock moves on.
Fairness ==
  /\ WF_vars(FastStep)
  /\ WF_vars(SchedStep)
  /\ \A w \in Requests : WF_vars(Step(w))
  /\ \A r \in Rows : WF_vars(CooldownOver(r))

LiveSpec == Spec /\ Fairness

-----------------------------------------------------------------------------
(* Properties.                                                             *)

TypeOK ==
  /\ status \in [Rows -> {"none", "open", "closing", "closed", "error"}]
  /\ flag \in [Rows -> [Legs -> BOOLEAN]]
  /\ stops \in SUBSET Rows
  /\ funding \in 0 .. MaxFunding
  /\ gone \in SUBSET (Symbols \X Legs)
  /\ venue \in [Symbols -> [Legs -> Nat]]
  /\ cool \in SUBSET Rows
  /\ pc \in [Workers -> {"idle", "pick", "placeShort", "placeLong", "cancel",
                        "persist", "checked", "due", "send", "verify", "finish"}]
  /\ job \in [Workers -> {"none", "entry", "prerecover", "recover", "exit", "manual"}]
  /\ row \in [Workers -> Rows \cup {NoRow}]
  /\ leg \in [Workers -> Legs]
  /\ tries \in [Workers -> 0 .. MaxTries - 1]
  /\ todo \in [Workers -> SUBSET (Rows \cup Symbols)]
  /\ mem \in [Workers -> [Legs -> BOOLEAN]]
  /\ noex \in [Workers -> SUBSET Legs]
  /\ why \in [Workers -> Reasons \cup {"none", "manual"}]
  /\ stray \in [Symbols -> [Legs -> BOOLEAN]]
  /\ faults \in 0 .. MaxFaults

\* A written row that still promises to close the leg, and that no worker is
\* about to flag after having seen the leg flat.
Owns(r, l) ==
  /\ status[r] # "none"
  /\ ~flag[r][l]
  /\ \A w \in Workers : row[w] = r => ~mem[w][l]

\* No exposure is forgotten: whatever an exchange holds beyond the entry being
\* made belongs to a row whose leg is not flagged closed, unless it is a unit
\* no row was ever written for (a lost reply, a failed cancel, a crash before
\* the row).  Interleaved closers, retries and recoveries may not flag a leg
\* that still holds something.  (As long as no exchange in use is deleted.)
HeldIsOwned ==
  \A s \in Symbols, l \in Legs :
    venue[s][l] > InFlight(s, l) =>
      stray[s][l] \/ \E r \in Rows : SymbolOf[r] = s /\ Owns(r, l)

\* The same for runs in which the user may delete an exchange: until he does.
OwnedUntilDeleted == gone = {} => HeldIsOwned

\* A closed row has both legs confirmed, whoever closed it and however the
\* threads that closed it overlapped.
ClosedMeansConfirmed ==
  \A r \in Rows : status[r] = "closed" => \A l \in Legs : flag[r][l]

\* Entries are made by one thread, so the duplicate check and the caps, which
\* read the table before two slow orders, still hold when the row is written.
OneOpenRow ==
  \A r, q \in OpenRows : SymbolOf[r] = SymbolOf[q] => r = q

SpreadCap == Cardinality(OpenRows) <= SpreadMax

HoldsBothLegs(r) == \A l \in Legs : venue[SymbolOf[r]][l] > 0

\* An open position is hedged: the row is written when both exchanges hold
\* their leg, and is marked before either is closed.  True of the first
\* position on a symbol; entering the symbol again is another matter:
FirstOpenRowIsHedged ==
  \A r \in OpenRows :
    (\A q \in Rows \ {r} : SymbolOf[q] = SymbolOf[r] => status[q] = "none")
      => HoldsBothLegs(r)

\* An open position is hedged, whatever happened on its symbol before.  ("Don't
\* open duplicate positions" looks at open rows only: a symbol with a stuck row
\* is entered again, and the stuck row's recovery closes the new row's leg.)
OpenHoldsBothLegs == \A r \in OpenRows : HoldsBothLegs(r)

\* A confirmed leg stays confirmed; a stale worker never writes FALSE back.
FlagsNeverRevert ==
  [][\A r \in Rows, l \in Legs : flag[r][l] => flag'[r][l]]_vars

\* A worker that chose a row while it was open, or that gave up on a leg while
\* another confirmed it, may write "closing" or "error" over "closed".  The row
\* never becomes open again, and both legs stay confirmed, so that the next
\* recovery repairs the status without sending an order.
ClosedReopensOnlyConfirmed ==
  [][\A r \in Rows : status[r] = "closed" /\ status'[r] # "closed" =>
       /\ status'[r] \in {"closing", "error"}
       /\ \A l \in Legs : flag'[r][l]]_vars

\* Every row whose close failed or was interrupted is closed in the end, once
\* the exchanges answer and as long as the engine stays enabled.
StuckRowsAreClosed ==
  \A r \in Rows : status[r] \in {"closing", "error"} ~> status[r] = "closed"

\* A pair closed by a stop-loss is not entered again within the cooldown
\* (_in_cooldown; the engine writes "stop_loss", the query looks for a word
\* that no close_reason contains).
NoReentryAfterStop ==
  [][\A q \in Rows : pc[Fast] = "pick" /\ pc'[Fast] = "placeShort" /\ row'[Fast] = q =>
       \A r \in stops : SymbolOf[r] = SymbolOf[q] => status[r] \notin {"closed", "error"}]_vars

\* The engine keeps what SpreadLife promises about its rows.  What somebody knows
\* of a row is what its flags say and what a worker with the row in hand has in
\* memory: a leg gets there, and from there into a flag, only because it was flat
\* or its exchange deleted when a worker on this row looked, however retries,
\* commits, crashes and overlapping closers are ordered.
Confirmed(r) == {l \in Legs : flag[r][l]}
Known(r) == {l \in Legs : flag[r][l] \/ \E w \in Workers : row[w] = r /\ mem[w][l]}
Life == INSTANCE SpreadLife WITH
          life <- status, held <- venue,
          confirmed <- [r \in Rows |-> Confirmed(r)], seen <- [r \in Rows |-> Known(r)]
RowsLive == Life!LifeSpec
=============================================================================
