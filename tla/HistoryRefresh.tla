---------------------------- MODULE HistoryRefresh ----------------------------
(***************************************************************************)
(* The refresh of the funding history of the spot-basis scanner.  A        *)
(* refresher (the one background job, or a request or a scan in its own    *)
(* thread) goes through legs, fetches what their exchanges list, and       *)
(* stores what has no row yet.  A leg that was tried lately is left out.   *)
(*                                                                         *)
(* A leg is a market under its normalised symbol, BTC/USDT:USDT: the keys  *)
(* of the tries, the rows read and the rows written.  The collector's rows *)
(* and the scanner's statistics with their cache are under the symbol of   *)
(* the cached rates, BTC/USDT.  So a refresh neither sees those rows nor   *)
(* adds to them, the cache entry it drops is none of the scanner's, and    *)
(* they are not part of this module.                                       *)
(*                                                                         *)
(* Instants are 15-minute buckets: a leg has at most one row that counts   *)
(* in each, so a second row of a bucket is not told from the first.        *)
(***************************************************************************)
EXTENDS Integers, FiniteSetsExt

CONSTANTS
  Legs,          \* markets of an exchange
  Askers,        \* requests to start the job
  JobThreads,    \* threads of it
  Requests,      \* refreshes in the thread of a request or a scan
  LastMoment,
  Settled,       \* instants at which funding settles, and is listed from then on
  Forced,        \* refreshers that do not look when a leg was last tried
  HistoryDays,   \* how far back a refresh goes
  RefreshTtl,    \* how long a leg counts as tried
  HistoryCap,    \* rows an exchange gives in the pages that are read
  RefreshFaults, \* how often a thread cannot start, or a job breaks
  NoLeg

Refreshers == JobThreads \union Requests

ASSUME RefreshAssumption ==
  /\ JobThreads \intersect Requests = {} /\ Forced \subseteq Refreshers /\ NoLeg \notin Legs
  /\ Settled \subseteq Nat
  /\ {LastMoment, HistoryDays, RefreshTtl, HistoryCap, RefreshFaults} \subseteq Nat

VARIABLES
  moment,
  rates,       \* [Legs -> instants] the rows of FundingRate
  asked,       \* [Askers -> [built, legs]], of a request between the two looks at the job
  refreshJob,  \* _FUNDING_REFRESH_JOB, [running, finished]
  triedAt,     \* _FUNDING_HISTORY_REFRESH_CACHE, when a leg was last tried; 0 if never
  brokenOff,   \* history: legs at which a refresh broke since they were last tried
  refresher,   \* [Refreshers -> [pc, todo, leg, began, records]]
  unlisted,    \* legs whose exchange lists no history; never changes
  refreshFaults

historyVars == <<moment, rates, asked, refreshJob, triedAt, brokenOff, refresher,
                 unlisted, refreshFaults>>

NotAsked == [built |-> FALSE, legs |-> {}]
Resting2 == [pc |-> "idle", todo |-> {}, leg |-> NoLeg, began |-> 0, records |-> {}]

HistoryInit ==
  /\ moment = 1 /\ rates = [l \in Legs |-> {}]
  /\ asked = [q \in Askers |-> NotAsked] /\ refreshJob = [running |-> FALSE, finished |-> "never"]
  /\ triedAt = [l \in Legs |-> 0] /\ brokenOff = {} /\ refresher = [r \in Refreshers |-> Resting2]
  /\ unlisted \in SUBSET Legs /\ refreshFaults = RefreshFaults

-----------------------------------------------------------------------------
TimePasses ==
  /\ moment < LastMoment /\ moment' = moment + 1
  /\ UNCHANGED <<rates, asked, refreshJob, triedAt, brokenOff, refresher, refreshFaults>>

-----------------------------------------------------------------------------
(* Starting the job *)

\* The first look at the job, then the targets: what a filter and a limit leave of the
\* legs with a positive rate in funding_rate_cache, which may be any, and is none while
\* the collector has cleared the cache to fill it again.
Ask(q, S) ==
  /\ ~asked[q].built /\ ~refreshJob.running
  /\ asked' = [asked EXCEPT ![q] = [built |-> TRUE, legs |-> S]]
  /\ UNCHANGED <<moment, rates, refreshJob, triedAt, brokenOff, refresher,
                 refreshFaults>>

Begun(S) == [Resting2 EXCEPT !.pc = "next", !.todo = S, !.began = moment]

\* The second look, under the lock that sets running.
MayStart(q) == asked[q].built /\ ~refreshJob.running
StartJob(q, t) ==
  /\ MayStart(q) /\ refresher[t].pc = "idle"
  /\ asked' = [asked EXCEPT ![q] = NotAsked]
  /\ refreshJob' = [running |-> TRUE, finished |-> "never"]
  /\ refresher' = [refresher EXCEPT ![t] = Begun(asked[q].legs)]
  /\ UNCHANGED <<moment, rates, triedAt, brokenOff, refreshFaults>>
\* The thread cannot be started: nobody resets running.
ThreadNotStarted(q) ==
  /\ MayStart(q) /\ refreshFaults > 0 /\ refreshFaults' = refreshFaults - 1
  /\ asked' = [asked EXCEPT ![q] = NotAsked]
  /\ refreshJob' = [running |-> TRUE, finished |-> "never"]
  /\ UNCHANGED <<moment, rates, triedAt, brokenOff, refresher>>
AlreadyRunning(q) ==
  /\ asked[q].built /\ refreshJob.running
  /\ asked' = [asked EXCEPT ![q] = NotAsked]
  /\ UNCHANGED <<moment, rates, refreshJob, triedAt, brokenOff, refresher,
                 refreshFaults>>

RefreshNow(r, S) ==
  /\ refresher[r].pc = "idle" /\ S # {}
  /\ refresher' = [refresher EXCEPT ![r] = Begun(S)]
  /\ UNCHANGED <<moment, rates, asked, refreshJob, triedAt, brokenOff, refreshFaults>>

-----------------------------------------------------------------------------
(* A refresh, leg by leg *)

Next3(r) == [refresher EXCEPT ![r] = [@ EXCEPT !.pc = "next", !.leg = NoLeg, !.records = {}]]

Tried(r, l) == r \notin Forced /\ triedAt[l] > 0 /\ refresher[r].began - triedAt[l] < RefreshTtl
Skip(r, l) ==
  /\ refresher[r].pc = "next" /\ l \in refresher[r].todo /\ Tried(r, l)
  /\ refresher' = [refresher EXCEPT ![r].todo = @ \ {l}]
  /\ UNCHANGED <<moment, rates, asked, refreshJob, triedAt, brokenOff, refreshFaults>>
\* The leg counts as tried before it is.
Try(r, l) ==
  /\ refresher[r].pc = "next" /\ l \in refresher[r].todo /\ ~Tried(r, l)
  /\ refresher' = [refresher EXCEPT ![r] = [@ EXCEPT !.pc = "fetch", !.todo = refresher[r].todo \ {l},
                                                  !.leg = l]]
  /\ triedAt' = [triedAt EXCEPT ![l] = refresher[r].began] /\ brokenOff' = brokenOff \ {l}
  /\ UNCHANGED <<moment, rates, asked, refreshJob, refreshFaults>>

\* One bucket more than asked for on either side; an exchange that gives short pages is
\* read once, and gives the first or the last of them.
Within(began) == {x \in Settled : began - HistoryDays - 1 <= x /\ x <= began + 1}
Listed(r) == {x \in Within(refresher[r].began) : x <= moment}
Given(S) ==
  IF Cardinality(S) <= HistoryCap THEN {S}
  ELSE {T \in kSubset(HistoryCap, S) : \/ \A x \in T, y \in S \ T : x < y
                                       \/ \A x \in T, y \in S \ T : x > y}
Fetch(r) ==
  /\ refresher[r].pc = "fetch" /\ refresher[r].leg \notin unlisted
  /\ \E records \in Given(Listed(r)) :
       refresher' = IF records = {} THEN Next3(r)
                    ELSE [refresher EXCEPT ![r] = [@ EXCEPT !.pc = "look", !.records = records]]
  /\ UNCHANGED <<moment, rates, asked, refreshJob, triedAt, brokenOff, refreshFaults>>
Unsupported(r) ==
  /\ refresher[r].pc = "fetch" /\ refresher[r].leg \in unlisted /\ refresher' = Next3(r)
  /\ UNCHANGED <<moment, rates, asked, refreshJob, triedAt, brokenOff, refreshFaults>>

\* _persist_funding_history_records: what has no row of its bucket, as far as the window goes.
Known(r) == {x \in rates[refresher[r].leg] :
               /\ refresher[r].began - HistoryDays <= x /\ x <= refresher[r].began}
Look(r) ==
  /\ refresher[r].pc = "look"
  /\ LET add == refresher[r].records \ Known(r) IN
     refresher' = IF add = {} THEN Next3(r)
                  ELSE [refresher EXCEPT ![r] = [@ EXCEPT !.pc = "insert", !.records = add]]
  /\ UNCHANGED <<moment, rates, asked, refreshJob, triedAt, brokenOff, refreshFaults>>
InsertRows(r) ==
  /\ refresher[r].pc = "insert" /\ refresher' = Next3(r)
  /\ rates' = [rates EXCEPT ![refresher[r].leg] = @ \union refresher[r].records]
  /\ UNCHANGED <<moment, asked, refreshJob, triedAt, brokenOff, refreshFaults>>

\* The exchange or the database refuses: the leg may be tried again at once.
\* Mutant: it still counts as tried.
StillTried(l) == triedAt
Untried(l) == [triedAt EXCEPT ![l] = 0]
LegFails(r) ==
  /\ refresher[r].pc \in {"fetch", "look", "insert"} /\ refresher' = Next3(r)
  /\ triedAt' = Untried(refresher[r].leg)
  /\ UNCHANGED <<moment, rates, asked, refreshJob, brokenOff, refreshFaults>>

RefreshEnds(r) ==
  /\ refresher[r].pc = "next" /\ refresher[r].todo = {}
  /\ refresher' = [refresher EXCEPT ![r] = Resting2]
  /\ refreshJob' = IF r \in JobThreads THEN [running |-> FALSE, finished |-> "ok"] ELSE refreshJob
  /\ UNCHANGED <<moment, rates, asked, triedAt, brokenOff, refreshFaults>>
\* What the handler of a leg raises (its rollback) ends the refresh, and the leg still
\* counts as tried.
RefreshBreaks(r) ==
  /\ refresher[r].pc \in {"fetch", "look", "insert"} /\ refreshFaults > 0
  /\ refreshFaults' = refreshFaults - 1
  /\ brokenOff' = brokenOff \union {refresher[r].leg}
  /\ refresher' = [refresher EXCEPT ![r] = Resting2]
  /\ refreshJob' = IF r \in JobThreads THEN [running |-> FALSE, finished |-> "failed"] ELSE refreshJob
  /\ UNCHANGED <<moment, rates, asked, triedAt>>

HistoryNext ==
  /\ UNCHANGED unlisted
  /\ \/ TimePasses
     \/ \E S \in SUBSET Legs :
          \/ \E q \in Askers : Ask(q, S)
          \/ \E r \in Requests : RefreshNow(r, S)
     \/ \E q \in Askers :
          \/ \E t \in JobThreads : StartJob(q, t)
          \/ ThreadNotStarted(q) \/ AlreadyRunning(q)
     \/ \E r \in Refreshers :
          \/ \E l \in Legs : Skip(r, l) \/ Try(r, l)
          \/ Fetch(r) \/ Unsupported(r) \/ Look(r) \/ InsertRows(r)
          \/ LegFails(r) \/ RefreshEnds(r) \/ RefreshBreaks(r)

HistorySpec == HistoryInit /\ [][HistoryNext]_historyVars

-----------------------------------------------------------------------------
(* Properties *)

\* A leg that counts as tried has every settlement that was listed when its refresher
\* began, as far back as a refresh goes, or the refresher is at work on it. Except where
\* the exchange lists no history, or more than is read, or the refresh broke.
TriedIsStored ==
  \A l \in Legs \ unlisted : triedAt[l] > 0 =>
    \/ l \in brokenOff
    \/ Cardinality(Within(triedAt[l])) > HistoryCap
    \/ {x \in Within(triedAt[l]) : triedAt[l] - HistoryDays <= x /\ x <= triedAt[l]}
         \subseteq rates[l]
    \/ \E r \in Refreshers : /\ refresher[r].pc \in {"fetch", "look", "insert"}
                             /\ refresher[r].leg = l /\ refresher[r].began = triedAt[l]

\* At most one thread of the background job is at work, and as long as one is, the job
\* says that it runs.
JobRunsAlone ==
  \A t \in JobThreads : refresher[t].pc # "idle" =>
    refreshJob.running /\ \A u \in JobThreads \ {t} : refresher[u].pc = "idle"
=============================================================================
