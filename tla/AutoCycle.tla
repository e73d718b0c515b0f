------------------------------- MODULE AutoCycle -------------------------------
(***************************************************************************)
(* One cycle after another of the spot-basis auto engine:                  *)
(* core/spot_basis_auto_engine/, run_spot_basis_auto_open_cycle.           *)
(*                                                                         *)
(* A cycle runs under a lock and a lock file.  It executes the retries     *)
(* that are due, and nothing else when there are any; otherwise it reads   *)
(* the exchanges, repairs hedges that do not match, runs its guards        *)
(* (profit lock, drawdown, basis shock, stale data) and at last            *)
(* rebalances.  The first of these that has a plan ends the cycle.         *)
(*                                                                         *)
(* A strategy is abstracted to the legs it has open; StrategyBook is the   *)
(* detailed account of an open and a close, of which a step here is the    *)
(* whole.  All strategies of a pair hold their short on one market.        *)
(* Other threads open, close and reconcile between any two steps.          *)
(***************************************************************************)
EXTENDS Integers, FiniteSets

CONSTANTS
  Strategies,     \* slots of the table strategies, spot hedges all (a bound)
  Pairs,          \* pairs (row_id) of a spot and a perpetual market
  PairOf,         \* the pair a strategy is about
  MaxRounds,      \* execution_retry_max_rounds
  Threshold,      \* api_fail_circuit_count
  RepairRounds,   \* repair_retry_rounds
  RepairBreaker,  \* circuit_breaker_on_repair_fail
  MaxToggles,     \* bound: changes of the configuration by the user
  MaxFaults       \* bound: failures of calls or reads, aborts and crashes

ASSUME AutoAssumption ==
  /\ IsFiniteSet(Strategies) /\ IsFiniteSet(Pairs)
  /\ Strategies \cap Pairs = {}
  /\ PairOf \in [Strategies -> Pairs]
  /\ MaxRounds \in Nat
  /\ Threshold \in Nat \ {0}
  /\ RepairRounds \in Nat \ {0}
  /\ RepairBreaker \in BOOLEAN
  /\ MaxToggles \in Nat /\ MaxFaults \in Nat

\* What the retry queue is keyed by: close:<strategy> and open:<pair>.
Keys == Strategies \cup Pairs
NotQueued == -1

VARIABLES
  \* The database.
  enabled, dryRun,  \* the configuration
  st,      \* "none", open legs: "hedged", "spot", "perp", "flat", or "closed"
  thin,    \* strategies whose initial_margin_usd is 0 since a leg was adjusted
  \* Process memory.
  queue,   \* retry_round of a queued key, or NotQueued
  due,     \* queued keys whose next_retry_ts has come
  mis,     \* _HEDGE_MISMATCH_STATE: rounds, and whether an abnormal read is known
  streak,  \* _API_FAIL_STREAK_STATE
  orphan,  \* a lock file whose process died: "no", "fresh" or "stale"
  \* The cycle.
  pc, mode, dry, holds, sell, buy, todo, opening, failed, broke,
  \* The world and history.
  hard,    \* the portfolio drawdown is beyond the hard threshold
  lies,    \* wrong reads of a strategy's short since the last right one, up to 2
  toggles, faults

config == <<enabled, dryRun>>
book   == <<st, thin>>
memory == <<queue, due, mis, streak>>
cycle  == <<pc, mode, dry, holds, sell, buy, todo, opening, failed, broke>>
bounds == <<toggles, faults>>
avars  == <<config, book, memory, orphan, cycle, hard, lies, bounds>>

Unseen == [rounds |-> 0, abnormal |-> FALSE]

Idle ==
  /\ pc' = "idle" /\ mode' = "none" /\ dry' = FALSE
  /\ holds' = {} /\ sell' = {} /\ buy' = {} /\ todo' = {} /\ opening' = {}
  /\ failed' = {} /\ broke' = FALSE

Init ==
  /\ enabled = TRUE /\ dryRun = FALSE
  /\ st = [k \in Strategies |-> "none"]
  /\ thin = {}
  /\ queue = [x \in Keys |-> NotQueued]
  /\ due = {}
  /\ mis = [k \in Strategies |-> Unseen]
  /\ streak = 0
  /\ orphan = "no"
  /\ pc = "idle" /\ mode = "none" /\ dry = FALSE
  /\ holds = {} /\ sell = {} /\ buy = {} /\ todo = {} /\ opening = {}
  /\ failed = {} /\ broke = FALSE
  /\ hard = FALSE
  /\ lies = [k \in Strategies |-> 0]
  /\ toggles = 0 /\ faults = 0

\* _active_spot_hedge_holds: strategies with a leg open.
Held(k) == st[k] \in {"hedged", "spot", "perp"}

Go(p) == pc' = p /\ UNCHANGED <<mode, dry, holds, sell, buy, todo, opening, failed, broke>>

\* Calls that fail together, and a wrong read that goes on, count as one.
Fault(n) == faults + n <= MaxFaults /\ faults' = faults + n

-----------------------------------------------------------------------------
(* The begin of a cycle.                                                   *)

\* Mutant: a lock file that was left behind is never removed.
LockIsFreeForGood == orphan = "no"

LockIsFree == orphan # "fresh"

\* Strategies that lost their open legs are closed.
Reconciled == [k \in Strategies |-> IF st[k] = "flat" THEN "closed" ELSE st[k]]

\* A cycle that is throttled, or finds the engine disabled, does nothing.  The
\* reconciler runs first, unless it did so a moment ago; dry_run is read; retries
\* that are due make the whole of the cycle.
Start ==
  /\ pc = "idle"
  /\ LockIsFree
  /\ enabled
  /\ orphan' = "no"
  /\ st' \in {st, Reconciled}
  /\ dry' = dryRun
  /\ todo' = IF dryRun THEN {} ELSE due
  /\ pc' = IF todo' = {} THEN "scan" ELSE "retrying"
  /\ UNCHANGED <<mode, holds, sell, buy, opening, failed, broke>>
  /\ UNCHANGED <<config, thin, memory, hard, lies, bounds>>

-----------------------------------------------------------------------------
(* Orders.                                                                 *)

\* What a close may leave when one of its orders fails.
LeftOf(s) == IF s = "hedged" THEN {"hedged", "spot", "perp"} ELSE {s}

\* One call of SpotHedgeStrategy.close: what it leaves, how many orders failed
\* and whether it reports a success.  A close that sells open legs counts them
\* before they are flushed, and so reports a failure.
CloseOutcomes(s) ==
  IF s \in {"flat", "closed"} THEN {[to |-> "closed", ok |-> TRUE, f |-> 0]}
  ELSE {[to |-> "flat", ok |-> FALSE, f |-> 0]}
       \cup {[to |-> left, ok |-> FALSE, f |-> 1] : left \in LeftOf(s)}

CloseCall(k, o) ==
  /\ Fault(o.f)
  /\ st' = [st EXCEPT ![k] = o.to]
  /\ UNCHANGED thin

\* One item of _execute_open_plan: skipped for want of margin, opened, or failed
\* with the short leg unwound or left behind.
OpenCall(p, result) ==
  \/ result = "skipped" /\ UNCHANGED <<book, faults>>
  \/ /\ \E k \in Strategies :
          /\ st[k] = "none" /\ PairOf[k] = p
          /\ \/ result = "opened" /\ st' = [st EXCEPT ![k] = "hedged"] /\ Fault(0)
             \/ /\ result = "failed" /\ Fault(1)
                /\ \E s \in {"closed", "flat", "perp"} : st' = [st EXCEPT ![k] = s]
     /\ UNCHANGED thin

-----------------------------------------------------------------------------
(* Retries: _enqueue_retry_items and _process_due_retries.                 *)

\* The items of a plan that failed.  A key that is queued keeps its rounds.
Enqueue(keys) ==
  LET items == IF MaxRounds > 0 THEN keys ELSE {} IN
  /\ queue' = [x \in Keys |-> IF x \in items /\ queue[x] = NotQueued THEN 0 ELSE queue[x]]
  /\ due' = due \ items

\* Mutant: the round is not counted.
RequeuedForever(x) == [round |-> queue[x], drop |-> FALSE]

\* Mutant: one round too many.
RequeuedOnceMore(x) == [round |-> queue[x] + 1, drop |-> queue[x] > MaxRounds]

\* What becomes of an item that failed again.
Requeued(x) == [round |-> queue[x] + 1, drop |-> queue[x] + 1 > MaxRounds]

\* Items that succeeded or are dropped are removed when all are through;
\* "failed" holds them until then.
Retried(x, ok) ==
  /\ todo' = todo \ {x}
  /\ IF ok \/ Requeued(x).drop
     THEN failed' = failed \cup {x} /\ UNCHANGED <<queue, due>>
     ELSE /\ queue' = [queue EXCEPT ![x] = Requeued(x).round]
          /\ due' = due \ {x}
          /\ UNCHANGED failed
  /\ UNCHANGED <<pc, mode, dry, holds, sell, buy, opening, broke>>
  /\ UNCHANGED <<config, mis, streak, orphan, hard, lies, toggles>>

RetryClose(k) ==
  /\ pc = "retrying"
  /\ k \in todo
  /\ \E o \in CloseOutcomes(st[k]) : CloseCall(k, o) /\ Retried(k, o.ok)

\* None of the guards is asked before an open is tried again.
RetryOpen(p) ==
  /\ pc = "retrying"
  /\ p \in todo
  /\ \E result \in {"opened", "skipped", "failed"} :
       OpenCall(p, result) /\ Retried(p, result = "opened")

EndRetries ==
  /\ pc = "retrying"
  /\ todo = {}
  /\ queue' = [x \in Keys |-> IF x \in failed THEN NotQueued ELSE queue[x]]
  /\ due' = due \ failed
  /\ Idle
  /\ UNCHANGED <<config, book, mis, streak, orphan, hard, lies, bounds>>

-----------------------------------------------------------------------------
(* The reads of a cycle and the mismatch guard.                            *)

\* The shorts an exchange really holds on the market of a pair.
Live(p) == Cardinality({k \in Strategies : PairOf[k] = p /\ st[k] \in {"hedged", "perp"}})

\* The size of the market's short as read for k: 0 when the read is wrong.
ReadPerp(k, wrong) == IF k \in wrong THEN 0 ELSE Live(PairOf[k])

\* Without an open spot leg or an answer for the short nothing is compared.
Unavailable(k, unread) == st[k] = "perp" \/ k \in unread

\* The short is gone according to the exchange, though the table has one.
AbnormalRead(k, wrong) == ReadPerp(k, wrong) = 0 /\ st[k] = "hedged"

\* The spot leg is one unit.
Mismatched(k, wrong) == ReadPerp(k, wrong) # 1

Lesser(a, b) == IF a < b THEN a ELSE b

Seen(k, unread, wrong) ==
  IF ~Held(k) THEN Unseen
  ELSE IF Unavailable(k, unread) THEN mis[k]
  ELSE IF ~Mismatched(k, wrong) THEN Unseen
  ELSE [rounds |-> Lesser(mis[k].rounds + 1, RepairRounds - 1),
        abnormal |-> AbnormalRead(k, wrong)]

\* Seen often enough, or long enough (those in late).
Ripe(k, unread, wrong, late) ==
  /\ Held(k)
  /\ ~Unavailable(k, unread)
  /\ Mismatched(k, wrong)
  /\ mis[k].rounds + 1 >= RepairRounds \/ k \in late

\* Mutant: the first abnormal read is believed.
BlockedNever(k, wrong, old) == FALSE

\* A short that looks gone must have done so for a while (those in old).
Blocked(k, wrong, old) == AbnormalRead(k, wrong) /\ k \notin old

\* Longer spot: sell it, unless the read is suspect.  Longer short: buy it back,
\* or close the strategy if the short is not its own.
ToSell(unread, wrong, late, old) ==
  {k \in Strategies : /\ Ripe(k, unread, wrong, late)
                      /\ ReadPerp(k, wrong) = 0
                      /\ ~Blocked(k, wrong, old)}
TooShort(unread, wrong, late) ==
  {k \in Strategies : Ripe(k, unread, wrong, late) /\ ReadPerp(k, wrong) > 1}
ToBuy(unread, wrong, late) == {k \in TooShort(unread, wrong, late) : st[k] = "hedged"}
Foreign(unread, wrong, late) == TooShort(unread, wrong, late) \ ToBuy(unread, wrong, late)

\* A missing spot leg is counted as a failure of the exchange, too.
ApiFailed(unread, scanError) ==
  scanError \/ unread # {} \/ \E k \in Strategies : st[k] = "perp"

\* The scan of opportunities and holds, the reads of the exchanges, the breaker
\* and the mismatch plan: the rest of the cycle works with these holds.
Scan(unread, wrong, late, old, scanError) ==
  LET failing == ApiFailed(unread, scanError)
      tripped == failing /\ streak + 1 >= Threshold
      plan == ToSell(unread, wrong, late, old) \cup TooShort(unread, wrong, late)
  IN
  /\ pc = "scan"
  /\ Fault(IF scanError \/ unread # {} \/ (\E k \in wrong : lies[k] = 0) THEN 1 ELSE 0)
  /\ mis' = [k \in Strategies |-> Seen(k, unread, wrong)]
  /\ lies' = [k \in Strategies |->
                IF ~Held(k) THEN 0
                ELSE IF k \in wrong THEN Lesser(lies[k] + 1, 2)
                ELSE IF Unavailable(k, unread) THEN lies[k] ELSE 0]
  /\ streak' = IF failing THEN Lesser(streak + 1, Threshold) ELSE 0
  /\ enabled' = (enabled /\ ~tripped)
  /\ \/ /\ tripped \/ (plan # {} /\ dry)
        /\ Idle
     \/ /\ ~tripped /\ plan # {} /\ ~dry
        /\ pc' = "repair"
        /\ sell' = ToSell(unread, wrong, late, old)
        /\ buy' = ToBuy(unread, wrong, late)
        /\ todo' = Foreign(unread, wrong, late)
        /\ UNCHANGED <<mode, dry, holds, opening, failed, broke>>
     \/ /\ ~tripped /\ plan = {}
        /\ pc' = "guard"
        /\ holds' = {k \in Strategies : Held(k)}
        /\ UNCHANGED <<mode, dry, sell, buy, todo, opening, failed, broke>>
  /\ UNCHANGED <<dryRun, book, queue, due, orphan, hard, toggles>>

\* What is left of k without its spot leg, or without its short.
Without(s, l) == IF s = "hedged" THEN (IF l = "spot" THEN "perp" ELSE "spot") ELSE "flat"

HasLeg(k, l) == st[k] \in {"hedged", l}

\* One item of _execute_mismatch_repair_plan, by the leg to reduce: done, failed
\* (the strategy is closed instead) or about a strategy that is closed by now.
Repair(k, l) ==
  /\ pc = "repair"
  /\ k \in IF l = "spot" THEN sell ELSE buy
  /\ sell' = IF l = "spot" THEN sell \ {k} ELSE sell
  /\ buy' = IF l = "perp" THEN buy \ {k} ELSE buy
  /\ \/ /\ HasLeg(k, l)
        /\ st' = [st EXCEPT ![k] = Without(@, l)]
        /\ thin' = thin \cup {k}
        /\ UNCHANGED <<todo, broke, faults>>
     \/ /\ st[k] # "closed"
        /\ Fault(IF HasLeg(k, l) THEN 1 ELSE 0)
        /\ todo' = todo \cup {k}
        /\ broke' = TRUE
        /\ UNCHANGED book
     \/ /\ st[k] = "closed"
        /\ broke' = TRUE
        /\ UNCHANGED <<book, todo, faults>>
  /\ UNCHANGED <<pc, mode, dry, holds, opening, failed>>
  /\ UNCHANGED <<config, memory, orphan, hard, lies, toggles>>

\* Repairs that failed switch the engine off, now or after the closes.
EndRepairs ==
  /\ pc = "repair"
  /\ sell = {} /\ buy = {}
  /\ \/ /\ todo # {}
        /\ pc' = "close" /\ mode' = "fallback"
        /\ UNCHANGED <<enabled, dry, holds, sell, buy, todo, opening, failed, broke>>
     \/ /\ todo = {}
        /\ enabled' = (enabled /\ ~(RepairBreaker /\ broke))
        /\ Idle
  /\ UNCHANGED <<dryRun, book, memory, orphan, hard, lies, bounds>>

-----------------------------------------------------------------------------
(* The guards and the rebalance.                                           *)

\* A plan of closes; an empty one, or a dry run, ends the cycle.
PlanCloses(plan, m, open) ==
  \/ (dry \/ plan \cup open = {}) /\ Idle
  \/ /\ ~dry /\ plan \cup open # {}
     /\ pc' = "close" /\ mode' = m
     /\ todo' = plan /\ opening' = open
     /\ UNCHANGED <<dry, holds, sell, buy, failed, broke>>

\* Mutant: nothing is closed under a hard stop.
NoHardPlan == {}

\* _build_force_close_all_plan passes over holds without a notional.
HardPlan == holds \ thin

\* Whether profits lock, the basis jumps, the drawdown is soft or the data stale
\* (also after the attempt to refresh it), what a risk reduction closes and
\* whether a rebalance is signalled, confirmed and covered, are free choices.
Guard ==
  /\ pc = "guard"
  /\ \/ \E plan \in SUBSET (holds \ thin) : plan # {} /\ PlanCloses(plan, "plan", {})
     \/ hard /\ PlanCloses(HardPlan, "plan", {})
     \/ ~hard /\ \E plan \in SUBSET holds : PlanCloses(plan, "plan", {})
     \/ /\ ~hard
        /\ \E plan \in SUBSET (holds \ thin), open \in SUBSET Pairs :
             PlanCloses(plan, "rebalance", open)
  /\ UNCHANGED <<config, book, memory, orphan, hard, lies, bounds>>

Close(k) ==
  /\ pc = "close"
  /\ k \in todo
  /\ todo' = todo \ {k}
  /\ \E o \in CloseOutcomes(st[k]) :
       /\ CloseCall(k, o)
       /\ failed' = IF o.ok THEN failed ELSE failed \cup {k}
  /\ UNCHANGED <<pc, mode, dry, holds, sell, buy, opening, broke>>
  /\ UNCHANGED <<config, memory, orphan, hard, lies, toggles>>

\* A close that failed is queued, and lets no open of the rebalance happen.
EndCloses ==
  /\ pc = "close"
  /\ todo = {}
  /\ \/ /\ mode = "rebalance" /\ failed = {}
        /\ Go("open")
        /\ UNCHANGED <<enabled, queue, due>>
     \/ /\ mode # "rebalance" \/ failed # {}
        /\ Enqueue(failed)
        /\ enabled' = (enabled /\ ~(mode = "fallback" /\ RepairBreaker /\ (broke \/ failed # {})))
        /\ Idle
  /\ UNCHANGED <<dryRun, book, mis, streak, orphan, hard, lies, bounds>>

Open(p) ==
  /\ pc = "open"
  /\ p \in opening
  /\ opening' = opening \ {p}
  /\ \E result \in {"opened", "skipped", "failed"} :
       /\ OpenCall(p, result)
       /\ failed' = IF result = "failed" THEN failed \cup {p} ELSE failed
  /\ UNCHANGED <<pc, mode, dry, holds, sell, buy, todo, broke>>
  /\ UNCHANGED <<config, memory, orphan, hard, lies, toggles>>

EndOpens ==
  /\ pc = "open"
  /\ opening = {}
  /\ Enqueue(failed)
  /\ Idle
  /\ UNCHANGED <<config, book, mis, streak, orphan, hard, lies, bounds>>

-----------------------------------------------------------------------------
(* Failures, time and the other users of the database.                     *)

\* An exception ends the cycle.  Before the scan has recorded the outcome of the
\* cycle it counts as a failed one, after it as none.
Abort ==
  LET unrecorded == pc \in {"retrying", "scan"} IN
  /\ pc # "idle"
  /\ Fault(1)
  /\ streak' = IF unrecorded THEN Lesser(streak + 1, Threshold) ELSE streak
  /\ enabled' = (enabled /\ ~(unrecorded /\ streak + 1 >= Threshold))
  /\ Idle
  /\ UNCHANGED <<dryRun, book, queue, due, mis, orphan, hard, lies, toggles>>

\* The process dies and starts again: its memory is lost, the lock file stays.
Crash ==
  /\ Fault(1)
  /\ queue' = [x \in Keys |-> NotQueued]
  /\ due' = {}
  /\ mis' = [k \in Strategies |-> Unseen]
  /\ streak' = 0
  /\ orphan' = IF pc = "idle" THEN orphan ELSE "fresh"
  /\ Idle
  /\ UNCHANGED <<config, book, hard, lies, toggles>>

\* The backoff of a queued item is over.
FallsDue(x) ==
  /\ queue[x] # NotQueued /\ x \notin due
  /\ due' = due \cup {x}
  /\ UNCHANGED <<config, book, queue, mis, streak, orphan, cycle, hard, lies, bounds>>

\* _CYCLE_FILE_LOCK_STALE_SECS since the lock file was written.
LockAges ==
  /\ orphan = "fresh"
  /\ orphan' = "stale"
  /\ UNCHANGED <<config, book, memory, cycle, hard, lies, bounds>>

\* The trading API opens a strategy, also one on a pair that has one already.
UserOpen(k) ==
  /\ st[k] = "none"
  /\ st' = [st EXCEPT ![k] = "hedged"]
  /\ UNCHANGED <<config, thin, memory, orphan, cycle, hard, lies, toggles, faults>>

\* The trading API or the risk manager closes a strategy.  (Legs the risk manager
\* failed to close are no longer open in the table; StrategyBook follows them.)
OtherClose(k) ==
  /\ Held(k) \/ st[k] = "flat"
  /\ \/ \E o \in CloseOutcomes(st[k]) : CloseCall(k, o)
     \/ st' = [st EXCEPT ![k] = "closed"] /\ UNCHANGED <<thin, faults>>
  /\ UNCHANGED <<config, memory, orphan, cycle, hard, lies, toggles>>

\* The reconciler's own job.
Reconcile ==
  /\ st' = Reconciled
  /\ UNCHANGED <<config, thin, memory, orphan, cycle, hard, lies, bounds>>

\* The user switches the engine or its dry run, or both.
Toggle ==
  /\ toggles < MaxToggles
  /\ toggles' = toggles + 1
  /\ enabled' \in BOOLEAN /\ dryRun' \in BOOLEAN
  /\ config' # config
  /\ UNCHANGED <<book, memory, orphan, cycle, hard, lies, faults>>

DrawdownMoves ==
  /\ hard' = ~hard
  /\ UNCHANGED <<config, book, memory, orphan, cycle, lies, bounds>>

-----------------------------------------------------------------------------
ScanStep ==
  /\ pc = "scan"
  /\ \E unread \in SUBSET {k \in Strategies : Held(k)}, scanError \in BOOLEAN :
     \E wrong \in SUBSET {k \in Strategies \ unread : Held(k)} :
     \E late \in SUBSET {k \in Strategies : mis[k].rounds > 0} :
     \E old \in SUBSET {k \in Strategies : mis[k].abnormal} :
       Scan(unread, wrong, late, old, scanError)

CycleStep ==
  \/ Start \/ EndRetries
  \/ ScanStep
  \/ EndRepairs \/ Guard \/ EndCloses \/ EndOpens
  \/ \E k \in Strategies :
       \/ RetryClose(k) \/ Close(k)
       \/ \E l \in {"spot", "perp"} : Repair(k, l)
  \/ \E p \in Pairs : RetryOpen(p) \/ Open(p)

Environment ==
  \/ Abort \/ Crash \/ LockAges \/ Reconcile \/ Toggle \/ DrawdownMoves
  \/ \E x \in Keys : FallsDue(x)
  \/ \E k \in Strategies : UserOpen(k) \/ OtherClose(k)

Next == CycleStep \/ Environment

Spec == Init /\ [][Next]_avars

\* The scheduler starts a cycle every few seconds and a cycle that runs gets on;
\* the clock moves.  Users, other threads and failures come as they like.
Fairness ==
  /\ WF_avars(CycleStep)
  /\ WF_avars(LockAges)
  /\ \A x \in Keys : WF_avars(FallsDue(x))

LiveSpec == Spec /\ Fairness

-----------------------------------------------------------------------------
(* Properties.                                                             *)

TypeOK ==
  /\ enabled \in BOOLEAN /\ dryRun \in BOOLEAN
  /\ st \in [Strategies -> {"none", "hedged", "spot", "perp", "flat", "closed"}]
  /\ thin \in SUBSET Strategies
  /\ queue \in [Keys -> {NotQueued} \cup 0 .. MaxRounds]
  /\ due \in SUBSET {x \in Keys : queue[x] # NotQueued}
  /\ mis \in [Strategies -> [rounds : 0 .. RepairRounds - 1, abnormal : BOOLEAN]]
  /\ streak \in 0 .. Threshold
  /\ orphan \in {"no", "fresh", "stale"}
  /\ pc \in {"idle", "retrying", "scan", "repair", "guard", "close", "open"}
  /\ mode \in {"none", "plan", "fallback", "rebalance"}
  /\ dry \in BOOLEAN
  /\ holds \in SUBSET Strategies /\ sell \in SUBSET Strategies /\ buy \in SUBSET Strategies
  /\ todo \in SUBSET Keys /\ opening \in SUBSET Pairs
  /\ failed \in SUBSET Keys
  /\ broke \in BOOLEAN
  /\ hard \in BOOLEAN
  /\ lies \in [Strategies -> 0 .. 2]
  /\ toggles \in 0 .. MaxToggles /\ faults \in 0 .. MaxFaults

\* Retries come before everything else and end the cycle, but they cannot keep
\* an enabled engine from its guards: items that never succeed are dropped, and
\* a lock file left by a crash is taken over.
GuardsRun == enabled ~> pc = "scan" \/ ~enabled

\* While the drawdown stays beyond the hard threshold and the engine on, every
\* strategy it holds is closed, whatever fails in between, retries, repairs and
\* opens that are still queued included.  (Except one whose leg the mismatch
\* guard has taken off: its notional is 0, and the force-close plan passes over it.)
HardStopCloses ==
  \A k \in Strategies :
    Held(k) /\ k \notin thin ~>
      ~Held(k) \/ k \in thin \/ ~hard \/ ~enabled \/ dryRun

\* The mismatch guard does not sell the spot leg of a hedged strategy because the
\* exchange reported once that its short is gone.
OneLieSellsNothing ==
  [][\A k \in Strategies :
       k \in sell \ sell' /\ st[k] = "hedged" /\ st'[k] = "perp"
         => lies[k] >= 2]_avars

\* "Force no-unhedged policy regardless of payload": as long as nothing fails, a
\* strategy has both its legs or none.
NoUnhedged == faults = 0 => \A k \in Strategies : st[k] \notin {"spot", "perp"}
=============================================================================
