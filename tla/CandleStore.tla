------------------------------ MODULE CandleStore ------------------------------
(***************************************************************************)
(* The table of 15-minute candles a backtest is run on, for one market,    *)
(* and the pair universe of each day, which says whether the market is     *)
(* collected.  Candles are written by the scheduled collector, which looks *)
(* a few buckets back each time, by a backfill and by imports; universes   *)
(* by the collector, a backfill and the daily or manual freeze.            *)
(*                                                                         *)
(* A candle of the bucket in progress is partial; every writer overwrites  *)
(* what is there.  A day's universe is "none", "others" (rows, the market  *)
(* not among them) or "market"; which one a scan or the funding history    *)
(* gives is left open.  A file that is imported holds finished candles.    *)
(***************************************************************************)
EXTENDS Integers

CONSTANTS
  LookBack,    \* buckets the collector goes back
  DayLength,   \* buckets of a day
  LastBucket,  \* bound: buckets of the run
  MaxGap,      \* bound: buckets in a row without a collection
  MaxStirs     \* bound: freezes, backfills, imports and crashes

ASSUME CandleAssumption ==
  /\ LookBack \in Nat /\ DayLength \in Nat \ {0} /\ LastBucket \in Nat
  /\ MaxGap \in Nat /\ MaxStirs \in Nat
  \* The window covers the gap twice over, so the default of eight buckets
  \* (run_spot_basis_data_collection_job) allows three.
  /\ LookBack >= 2 /\ LookBack >= 2 * MaxGap + 1

VARIABLES
  bucket,    \* the bucket in progress
  candles,   \* per bucket, "none", "partial" or "final"
  universe,  \* per day
  collect,   \* the collector: [pc, day, top, at, got]
  collected, \* the bucket in which it last fetched what it then wrote
  freeze,    \* the daily or a manual freeze: [pc, day]
  backfill,  \* the backfill job: [pc, day, at, got]
  stirs      \* freezes, backfills, imports and crashes so far

candleVars == <<bucket, candles, universe, collect, collected, freeze, backfill,
                stirs>>

Buckets == 0 .. LastBucket
DayOf(b) == b \div DayLength
Days == 0 .. DayOf(LastBucket)
Resting == [pc |-> "done", day |-> 0, top |-> 0, at |-> 0, got |-> <<>>]
NoBackfill == [pc |-> "idle", day |-> 0, at |-> 0, got |-> <<>>]

CandleInit ==
  /\ bucket = 0 /\ candles = [b \in Buckets |-> "none"]
  /\ universe = [d \in Days |-> "none"]
  /\ collect = [Resting EXCEPT !.pc = "due"] /\ collected = 0
  /\ freeze = [pc |-> "idle", day |-> 0] /\ backfill = NoBackfill
  /\ stirs = 0

\* What the exchange answers for the buckets from a to b: those that have begun.
CandlesOf(a, b) == [x \in {y \in Buckets : a <= y /\ y <= b /\ y <= bucket} |->
                     IF x = bucket THEN "partial" ELSE "final"]
\* The upsert: what was fetched replaces what is there.
Upserted2(got) == [b \in Buckets |-> IF b \in DOMAIN got THEN got[b] ELSE candles[b]]

\* _persist_pair_universe_daily: the day's rows are deleted in a commit of their
\* own, and the new ones (if there are any) inserted in another.
Scans == {"none", "others", "market"}
Wiped(d) == universe' = [universe EXCEPT ![d] = "none"]
Persisted(d, rows) == universe' = [universe EXCEPT ![d] = IF rows = "none" THEN @ ELSE rows]

Stir == stirs < MaxStirs /\ stirs' = stirs + 1

-----------------------------------------------------------------------------
(* The clock *)

\* Assumed: what has been fetched is written before another bucket has passed, and
\* the collector does not fail for long, nor is the market dropped from the
\* universe for long.  A run that is still going skips the next.
NextBucket ==
  /\ bucket < LastBucket /\ bucket - collected <= MaxGap
  /\ collect.pc = "fetched" => collect.at = bucket
  /\ backfill.pc = "fetched" => backfill.at = bucket
  /\ bucket' = bucket + 1
  /\ collect' = IF collect.pc = "done" THEN [Resting EXCEPT !.pc = "due"] ELSE collect
  /\ UNCHANGED <<candles, universe, collected, freeze, backfill, stirs>>

-----------------------------------------------------------------------------
(* The collector and the freeze *)

\* A day that has no universe gets one.
CollectStarts ==
  /\ collect.pc = "due"
  /\ LET d == DayOf(bucket) IN
     IF universe[d] = "none"
     THEN Wiped(d) /\ collect' = [collect EXCEPT !.pc = "wiped", !.day = d]
     ELSE UNCHANGED universe /\ collect' = [collect EXCEPT !.pc = "rows", !.day = d]
  /\ UNCHANGED <<bucket, candles, collected, freeze, backfill, stirs>>
CollectBootstraps ==
  /\ collect.pc = "wiped"
  /\ \E r \in Scans : Persisted(collect.day, r)
  /\ collect' = [collect EXCEPT !.pc = "rows"]
  /\ UNCHANGED <<bucket, candles, collected, freeze, backfill, stirs>>

\* The window, from the bucket in progress back.
\* Mutant: one bucket back.
FromLast(top) == IF top > 0 THEN top - 1 ELSE 0
From(top) == IF top > LookBack THEN top - LookBack ELSE 0
CollectPlans ==
  /\ collect.pc = "rows"
  /\ collect' = IF universe[collect.day] = "market"
                THEN [Resting EXCEPT !.pc = "fetch", !.top = bucket] ELSE Resting
  /\ UNCHANGED <<bucket, candles, universe, collected, freeze, backfill, stirs>>
CollectFetches ==
  /\ collect.pc = "fetch"
  /\ collect' = [Resting EXCEPT !.pc = "fetched", !.at = bucket,
                                !.got = CandlesOf(From(collect.top), collect.top)]
  /\ UNCHANGED <<bucket, candles, universe, collected, freeze, backfill, stirs>>
\* No answer, no write: the exception is counted.
CollectFails ==
  /\ collect.pc \in {"fetch", "fetched"} /\ collect' = Resting
  /\ UNCHANGED <<bucket, candles, universe, collected, freeze, backfill, stirs>>
CollectWrites ==
  /\ collect.pc = "fetched"
  /\ candles' = Upserted2(collect.got) /\ collected' = collect.at /\ collect' = Resting
  /\ UNCHANGED <<bucket, universe, freeze, backfill, stirs>>

\* At 00:05, or by a request, for any day; with what the market looks like now.
FreezeWipes ==
  /\ freeze.pc = "idle" /\ Stir
  /\ \E d \in Days : Wiped(d) /\ freeze' = [pc |-> "wiped", day |-> d]
  /\ UNCHANGED <<bucket, candles, collect, collected, backfill>>
FreezeInserts ==
  /\ freeze.pc = "wiped"
  /\ \E r \in Scans : Persisted(freeze.day, r)
  /\ freeze' = [pc |-> "idle", day |-> 0]
  /\ UNCHANGED <<bucket, candles, collect, collected, backfill, stirs>>

-----------------------------------------------------------------------------
(* Backfill and import *)

\* A backfill of one day (longer ones are left out) gives it a universe if it has
\* none: from the funding history, or from the live market if the day is today.
BackfillStarts ==
  /\ backfill.pc = "idle" /\ Stir
  /\ \E d \in Days :
       IF universe[d] = "none"
       THEN Wiped(d) /\ backfill' = [NoBackfill EXCEPT !.pc = "wiped", !.day = d, !.at = bucket]
       ELSE UNCHANGED universe /\ backfill' = [NoBackfill EXCEPT !.pc = "fetch", !.day = d]
  /\ UNCHANGED <<bucket, candles, collect, collected, freeze>>
BackfillSeeds ==
  /\ backfill.pc \in {"wiped", "fallback"}
  /\ \E r \in Scans :
       /\ Persisted(backfill.day, r)
       /\ backfill' = IF r = "none" /\ backfill.pc = "wiped" /\ DayOf(backfill.at) = backfill.day
                      THEN [backfill EXCEPT !.pc = "fallback"]
                      ELSE [backfill EXCEPT !.pc = "fetch", !.at = 0]
  /\ UNCHANGED <<bucket, candles, collect, collected, freeze, stirs>>
\* Without rows of the market, or without an answer, nothing is written.
BackfillFetches ==
  /\ backfill.pc = "fetch"
  /\ backfill' = IF universe[backfill.day] # "market" THEN NoBackfill
       ELSE [backfill EXCEPT !.pc = "fetched", !.at = bucket,
               !.got = CandlesOf(DayLength * backfill.day, DayLength * (backfill.day + 1) - 1)]
  /\ UNCHANGED <<bucket, candles, universe, collect, collected, freeze, stirs>>
BackfillErrs ==
  /\ backfill.pc \in {"fetch", "fetched"} /\ backfill' = NoBackfill
  /\ UNCHANGED <<bucket, candles, universe, collect, collected, freeze, stirs>>
BackfillWrites ==
  /\ backfill.pc = "fetched" /\ candles' = Upserted2(backfill.got) /\ backfill' = NoBackfill
  /\ UNCHANGED <<bucket, universe, collect, collected, freeze, stirs>>

\* A file of candles of buckets that are over: its rows come in one upsert.
Import ==
  /\ Stir
  /\ \E b \in 0 .. bucket - 1 : candles' = Upserted2([x \in 0 .. b |-> "final"])
  /\ UNCHANGED <<bucket, universe, collect, collected, freeze, backfill>>

CandleCrash ==
  /\ Stir
  /\ freeze' = [pc |-> "idle", day |-> 0] /\ collect' = Resting /\ backfill' = NoBackfill
  /\ UNCHANGED <<bucket, candles, universe, collected>>

CandleNext ==
  \/ NextBucket \/ CollectStarts \/ CollectBootstraps \/ CollectPlans \/ CollectFetches
  \/ CollectFails \/ CollectWrites \/ FreezeWipes \/ FreezeInserts
  \/ BackfillStarts \/ BackfillSeeds \/ BackfillFetches \/ BackfillErrs \/ BackfillWrites
  \/ Import \/ CandleCrash
CandleSpec == CandleInit /\ [][CandleNext]_candleVars

-----------------------------------------------------------------------------
(* Properties *)

\* No candle stays partial once the collector's window has passed it, although
\* any writer may overwrite a final one with what it fetched while the bucket was
\* in progress, and the collector misses its turn now and then (no universe, no
\* answer, a run that takes too long, a crash): a backtest of yesterday never
\* prices a bucket by the minutes somebody happened to see of it.
PartialsAreRewritten ==
  \A b \in Buckets : candles[b] = "partial" => bucket <= b + LookBack
=============================================================================
