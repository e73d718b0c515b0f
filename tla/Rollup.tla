------------------------------- MODULE Rollup -------------------------------
(***************************************************************************)
(* The compaction of the market-data service: quotes older than a limit are*)
(* rolled up into candles of one second, those into candles of ten and of  *)
(* sixty seconds, and every second candle is thrown away when the file is  *)
(* too large.  A step of a roll-up writes the candles of the oldest rows,  *)
(* deletes the rows and commits: one transaction.  Between steps the writer*)
(* goes on, and the time budget may end the run.                           *)
(*                                                                         *)
(* Level 0 is l0_raw: a quote is a candle of width one.  Prices are small  *)
(* numbers, one symbol, at most one quote per instant.                     *)
(***************************************************************************)
EXTENDS Integers, FiniteSetsExt

CONSTANTS
  Horizon,   \* bound: instants of the run
  Width,     \* per level 1 .. 3, the instants of a bucket
  Keep,      \* per level 0 .. 2, the instants rows are kept
  Batch,     \* rows of one step
  Mids       \* prices

Levels == 0 .. 3
Times == 0 .. Horizon - 1

ASSUME RollupAssumption ==
  /\ Horizon \in Nat \ {0} /\ Batch \in Nat \ {0} /\ Mids \subseteq Nat
  /\ Width \in [0 .. 3 -> Nat \ {0}] /\ Width[0] = 1
  /\ \A l \in 0 .. 2 : Width[l + 1] % Width[l] = 0
  /\ Keep \in [0 .. 2 -> Nat]
  /\ \A l \in 0 .. 1 : Keep[l + 1] - Width[l + 1] >= Keep[l] - Width[l]

VARIABLES
  now,      \* the instant of the next quote
  rows,     \* per level, the candles by bucket
  step,     \* the level being rolled up; 3: emergency delete, 4: none
  at,       \* the instant the run began
  seen,     \* history: every quote written
  dropped   \* history: the quotes under a candle that was thrown away

rollupVars == <<now, rows, step, at, seen, dropped>>

RollupInit ==
  /\ now = 0 /\ rows = [l \in Levels |-> <<>>] /\ step = 4 /\ at = 0
  /\ seen = <<>> /\ dropped = {}

With(f, x, v) == [y \in DOMAIN f \union {x} |-> IF y = x THEN v ELSE f[y]]
Less(f, S) == [y \in DOMAIN f \ S |-> f[y]]
Bucket(t, l) == (t \div Width[l]) * Width[l]
QuoteRow(m) == [open |-> m, high |-> m, low |-> m, close |-> m, samples |-> 1]

\* A quote of price m, or none, in this instant.
WriteQuote ==
  /\ now < Horizon
  /\ now' = now + 1
  /\ \/ \E m \in Mids : /\ rows' = [rows EXCEPT ![0] = With(@, now, QuoteRow(m))]
                        /\ seen' = With(seen, now, m)
     \/ UNCHANGED <<rows, seen>>
  /\ UNCHANGED <<step, at, dropped>>

\* run_once
StartRun ==
  /\ step = 4
  /\ step' = 0 /\ at' = now
  /\ UNCHANGED <<now, rows, seen, dropped>>

\* The oldest Batch rows of level l below the cutoff.
Older(S, n) == {t \in S : Cardinality({u \in S : u < t}) < n}
\* Mutant: the youngest first.
PickedLast(l) == LET old == {t \in DOMAIN rows[l] : t < at - Keep[l]}
                 IN {t \in old : Cardinality({u \in old : u > t}) < Batch}
Picked(l) == Older({t \in DOMAIN rows[l] : t < at - Keep[l]}, Batch)

\* The candle of a bucket, from the picked rows of it alone.
Merge(l, S) ==
  [open |-> rows[l][Min(S)].open, close |-> rows[l][Max(S)].close,
   high |-> Max({rows[l][t].high : t \in S}), low |-> Min({rows[l][t].low : t \in S}),
   samples |-> MapThenSumSet(LAMBDA t : rows[l][t].samples, S)]

\* INSERT .. ON CONFLICT DO UPDATE: a candle that is there is replaced.
Upsert(l) ==
  LET hit == {Bucket(t, l + 1) : t \in Picked(l)}
  IN [b \in DOMAIN rows[l + 1] \union hit |->
        IF b \in hit THEN Merge(l, {t \in Picked(l) : Bucket(t, l + 1) = b})
        ELSE rows[l + 1][b]]

\* Mutant: DELETE without its LIMIT.
DeletedAll(l) == {t \in DOMAIN rows[l] : t < at - Keep[l]}
Deleted(l) == Picked(l)

RollStep ==
  /\ step \in 0 .. 2
  /\ \/ /\ at - Keep[step] > 0 /\ Picked(step) # {}
        /\ rows' = [rows EXCEPT ![step] = Less(@, Deleted(step)),
                                ![step + 1] = Upsert(step)]
        /\ UNCHANGED step
     \/ /\ at - Keep[step] <= 0 \/ Picked(step) = {}
        /\ step' = step + 1
        /\ UNCHANGED rows
  /\ UNCHANGED <<now, at, seen, dropped>>

\* The budget is used up, or the file is small enough.
EndRun ==
  /\ step \in 0 .. 3
  /\ step' = 4
  /\ UNCHANGED <<now, rows, at, seen, dropped>>

\* emergency_half_delete: the candles of odd buckets among the oldest Batch of a
\* level; the coarsest level first, as often as it finds one.
Odd(l) == {b \in Older(DOMAIN rows[l], Batch) : (b \div Width[l]) % 2 = 1}
Under(l, b) == {t \in Times : Bucket(t, l) = b}
HalfDelete ==
  /\ step = 3
  /\ \E l \in 1 .. 3 :
       /\ Odd(l) # {} /\ \A h \in (l + 1) .. 3 : Odd(h) = {}
       /\ rows' = [rows EXCEPT ![l] = Less(@, Odd(l))]
       /\ dropped' = dropped \union UNION {Under(l, b) : b \in Odd(l)}
  /\ UNCHANGED <<now, step, at, seen>>

RollupNext == WriteQuote \/ StartRun \/ RollStep \/ EndRun \/ HalfDelete
RollupSpec == RollupInit /\ [][RollupNext]_rollupVars

-----------------------------------------------------------------------------
(* Properties *)

\* Every quote is still there or is under a candle of some level, whatever the
\* batches and the budget cut apart, unless an emergency threw its candle away.
NothingVanishes ==
  \A t \in DOMAIN seen \ dropped : \E l \in Levels : Bucket(t, l) \in DOMAIN rows[l]

\* A candle replaced by that of a later batch keeps the right close, because the
\* batches go by time; its high and low are prices of its bucket.  (Its open,
\* high, low and samples are those of the last batch alone: a bucket that the
\* cutoff or the LIMIT cut apart forgets its first part.)
CloseIsLast ==
  \A l \in 1 .. 3 : \A b \in DOMAIN rows[l] :
    LET inside == {t \in DOMAIN seen : Bucket(t, l) = b}
        gone == {t \in inside : \A k \in 0 .. (l - 1) : Bucket(t, k) \notin DOMAIN rows[k]}
    IN inside \intersect dropped = {} =>
         /\ gone # {} /\ rows[l][b].close = seen[Max(gone)]
         /\ {rows[l][b].high, rows[l][b].low} \subseteq {seen[t] : t \in gone}
=============================================================================
