------------------------------ MODULE HealthGate ------------------------------
(***************************************************************************)
(* The health gate of a collector worker: after every window it may slow   *)
(* the worker down by one of three stages (a smaller order book, one more  *)
(* shard, a longer delay between subscriptions) and takes the stages back  *)
(* one by one after enough healthy windows.                                *)
(*                                                                         *)
(* Of a window's measurements counts whether the slowest symbol stays under*)
(* target_hz and whether the fastest one allows a merge.                   *)
(***************************************************************************)
EXTENDS Integers, FiniteSetsExt

CONSTANTS
  BaseLimit, BaseDelay, BaseShards,  \* the worker's configuration
  ShardLimit,     \* min(symbol_count, max_shards)
  RecoverWindows, \* healthy windows that take a step back
  ValidLimits     \* limits the exchange accepts ({}: all; binance has a list)

ASSUME HealthGateAssumption ==
  /\ BaseLimit \in Nat \ {0} /\ BaseDelay \in 0 .. 5000
  /\ ShardLimit \in Nat \ {0} /\ BaseShards \in 1 .. ShardLimit
  /\ RecoverWindows \in Nat \ {0} /\ ValidLimits \subseteq Nat \ {0}

VARIABLES
  fails,     \* fail_windows, up to the three that count
  healthy,   \* healthy_windows, up to the RecoverWindows that count
  stage,     \* degrade_stage
  degraded,
  cooling,   \* rebalance_cooldown_sec have not passed
  shards, limit, delay,  \* what the worker runs with
  window,    \* the last window was slow
  ended,     \* the worker's loop is over
  tick       \* windows so far, modulo two: a window that changes nothing is a step too

gateVars == <<fails, healthy, stage, degraded, cooling, shards, limit, delay, window, ended, tick>>

Lower(a, b) == IF a < b THEN a ELSE b
Higher(a, b) == IF a > b THEN a ELSE b

GateInit ==
  /\ fails = 0 /\ healthy = 0 /\ stage = 0 /\ degraded = FALSE /\ cooling = FALSE
  /\ shards = BaseShards /\ limit = BaseLimit /\ delay = BaseDelay /\ window = FALSE /\ ended = FALSE /\ tick = 0

\* _normalize_order_book_limit
Normal(n) ==
  IF ValidLimits = {} \/ n \in ValidLimits THEN n
  ELSE IF {v \in ValidLimits : v <= n} = {} THEN Min(ValidLimits)
  ELSE Max({v \in ValidLimits : v <= n})

\* The decision's outcome: stage, shards, limit and delay.
Becomes(st, sh, li, de) ==
  /\ stage' = st /\ degraded' = (st > 0)
  /\ shards' = Lower(ShardLimit, Higher(1, sh))
  /\ limit' = Normal(li) /\ delay' = de

\* The recovery chain.
\* Mutant: with the delay everything is taken back.
StageAfterDelayDone(d) == IF d = BaseDelay THEN 0 ELSE stage
StageAfterDelay(d) == IF d = BaseDelay THEN 2 ELSE stage
TakeBackDelay == stage >= 3 /\ delay > BaseDelay
TakeBackShard == ~TakeBackDelay /\ stage >= 2 /\ shards > BaseShards
Recover ==
  /\ cooling' = TRUE
  /\ \/ /\ TakeBackDelay
        /\ LET d == Higher(BaseDelay, delay - 300)
           IN Becomes(StageAfterDelay(d), shards, limit, d)
     \/ /\ TakeBackShard
        /\ Becomes(IF shards - 1 = BaseShards THEN 1 ELSE stage, shards - 1, limit, delay)
     \/ /\ ~TakeBackDelay /\ ~TakeBackShard
        /\ IF limit < BaseLimit
           THEN Becomes(IF limit + 1 = BaseLimit THEN 0 ELSE stage, shards, limit + 1, delay)
           ELSE Becomes(0, shards, limit, delay)

\* The degradation chain.
Degrade ==
  \/ /\ stage = 0 /\ limit > 1
     /\ Becomes(1, shards, limit - 1, delay) /\ cooling' = TRUE
  \/ /\ stage = 1 /\ shards < ShardLimit
     /\ Becomes(2, shards + 1, limit, delay) /\ cooling' = TRUE
  \/ /\ stage = 2
     /\ Becomes(3, shards, limit, Lower(5000, delay + 300)) /\ cooling' = TRUE
  \/ /\ (stage = 0 /\ limit <= 1) \/ (stage = 1 /\ shards >= ShardLimit) \/ stage = 3
     /\ degraded' = TRUE
     /\ UNCHANGED <<stage, shards, limit, delay, cooling>>

\* Some symbol very fast and hardly an error: one shard fewer.
Settle(fast) ==
  \/ /\ fast /\ shards > 1
     /\ shards' = shards - 1 /\ cooling' = TRUE
     /\ UNCHANGED <<stage, degraded, limit, delay>>
  \/ /\ ~fast \/ shards = 1
     /\ degraded' = (degraded /\ stage # 0)
     /\ UNCHANGED <<stage, shards, limit, delay, cooling>>

\* decide, and what _evaluate_health makes of it: the slowest symbol is slow or
\* not, the fastest one fast or not.
Window(slow, fast) ==
  LET f == IF slow THEN Lower(3, fails + 1) ELSE 0
      h == IF slow THEN 0 ELSE Lower(RecoverWindows, healthy + 1)
      back == ~cooling /\ stage > 0 /\ h >= RecoverWindows
  IN /\ ~ended /\ UNCHANGED ended
     /\ fails' = f /\ healthy' = (IF back THEN 0 ELSE h) /\ window' = slow /\ tick' = 1 - tick
     /\ \/ cooling /\ UNCHANGED <<stage, degraded, cooling, shards, limit, delay>>
        \/ back /\ Recover
        \/ ~cooling /\ ~back /\ f >= 3 /\ Degrade
        \/ ~cooling /\ ~back /\ f < 3 /\ Settle(fast)

Cools == /\ ~ended /\ cooling /\ cooling' = FALSE
         /\ UNCHANGED <<fails, healthy, stage, degraded, shards, limit, delay, window, ended, tick>>

\* The duration is over, or the worker is stopped.
WorkerEnds == /\ ~ended /\ ended' = TRUE
              /\ UNCHANGED <<fails, healthy, stage, degraded, cooling, shards, limit, delay,
                             window, tick>>

GateNext == Cools \/ WorkerEnds \/ \E slow, fast \in BOOLEAN : Window(slow, fast)

\* Windows end and the cooldown passes by the clock.
GateFairness ==
  /\ WF_gateVars(Cools)
  /\ WF_gateVars(\E slow, fast \in BOOLEAN : Window(slow, fast))
GateSpec == GateInit /\ [][GateNext]_gateVars /\ GateFairness

-----------------------------------------------------------------------------
(* Properties *)

\* "Reversible degradation": after enough healthy windows in a row the worker
\* runs with its configured limit and delay again and is not degraded, whatever
\* stages it went down and up before.  (Not its shards: a merge below the
\* configured number is never taken back.)
DegradationIsReversible ==
  ValidLimits = {} =>
    (<>[](~window /\ ~ended) => <>[](stage = 0 /\ ~degraded /\ limit = BaseLimit /\ delay = BaseDelay))
=============================================================================
