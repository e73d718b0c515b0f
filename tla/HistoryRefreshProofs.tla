-------------------------- MODULE HistoryRefreshProofs --------------------------
(***************************************************************************)
(* What holds of HistoryRefresh for all legs, askers, threads and windows: *)
(* the background job runs alone, and a leg counts as tried only if its    *)
(* rows are stored or its refresher still at work.                         *)
(***************************************************************************)
EXTENDS HistoryRefresh, FiniteSetTheorems, TLAPS

-----------------------------------------------------------------------------
(* One job at a time *)

AskTyped == asked \in [Askers -> [built : BOOLEAN, legs : SUBSET Legs]]
States == [pc : {"idle", "next", "fetch", "look", "insert"},
           todo : SUBSET Legs, leg : Legs \union {NoLeg}, began : Nat, records : SUBSET Int]
RefreshersTyped == refresher \in [Refreshers -> States]
JobTyped == refreshJob \in [running : BOOLEAN, finished : {"never", "ok", "failed"}]
RowsTyped == moment \in Nat /\ rates \in [Legs -> SUBSET Int]
HistoryTyped == AskTyped /\ RefreshersTyped /\ JobTyped /\ RowsTyped

\* What a refresher's own step makes of it.
LEMMA RefresherReplaced ==
  ASSUME RefreshersTyped, NEW r \in Refreshers, NEW v \in States,
         refresher' = [refresher EXCEPT ![r] = v]
  PROVE  /\ RefreshersTyped' /\ refresher'[r] = v
         /\ \A o \in Refreshers \ {r} : refresher'[o] = refresher[o]
BY DEF RefreshersTyped

LEMMA RestingTyped ==
  /\ Resting2 \in States
  /\ Resting2.pc = "idle"
BY DEF Resting2, States

LEMMA BegunTyped ==
  ASSUME RowsTyped, NEW S \in SUBSET Legs
  PROVE  /\ Begun(S) \in States
         /\ Begun(S).pc = "next"
BY DEF Begun, Resting2, RowsTyped, States

LEMMA GivenAreListed ==
  ASSUME NEW S, NEW T \in Given(S)
  PROVE  T \subseteq S
BY DEF Given, kSubset

-----------------------------------------------------------------------------
(* The steps of a refresher: it keeps its type, nobody else moves, and where it is. *)

Moved(r, to) ==
  /\ RefreshersTyped' /\ refresher'[r].pc \in to
  /\ \A o \in Refreshers \ {r} : refresher'[o] = refresher[o]

LEMMA MovedBy ==
  ASSUME RefreshersTyped, NEW r \in Refreshers, NEW v \in States, NEW to,
         refresher' = [refresher EXCEPT ![r] = v], v.pc \in to
  PROVE  Moved(r, to)
BY RefresherReplaced DEF Moved

LEMMA NextMoves ==
  ASSUME RefreshersTyped, NEW r \in Refreshers, refresher' = Next3(r)
  PROVE  Moved(r, {"next"})
<1> DEFINE v == [refresher[r] EXCEPT !.pc = "next", !.leg = NoLeg, !.records = {}]
<1>1. v \in States /\ v.pc = "next"
  BY DEF RefreshersTyped, States
<1>2. refresher' = [refresher EXCEPT ![r] = v]
  BY DEF Next3
<1> QED BY <1>1, <1>2, MovedBy

LEMMA RestMoves ==
  ASSUME RefreshersTyped, NEW r \in Refreshers, refresher' = [refresher EXCEPT ![r] = Resting2]
  PROVE  Moved(r, {"idle"})
BY RestingTyped, MovedBy

LEMMA BeginMoves ==
  ASSUME RefreshersTyped, RowsTyped, NEW r \in Refreshers, NEW S \in SUBSET Legs,
         refresher' = [refresher EXCEPT ![r] = Begun(S)]
  PROVE  Moved(r, {"next"})
BY BegunTyped, MovedBy

LEMMA SkipMoves ==
  ASSUME RefreshersTyped, NEW r \in Refreshers, NEW l \in Legs, Skip(r, l)
  PROVE  Moved(r, {"next"}) /\ refresher[r].pc = "next"
<1> DEFINE v == [refresher[r] EXCEPT !.todo = @ \ {l}]
<1>1. v \in States /\ v.pc = "next"
  BY DEF RefreshersTyped, States, Skip
<1>2. refresher' = [refresher EXCEPT ![r] = v]
  BY DEF Skip
<1> QED BY <1>1, <1>2, MovedBy DEF Skip

LEMMA TryMoves ==
  ASSUME RefreshersTyped, NEW r \in Refreshers, NEW l \in Legs, Try(r, l)
  PROVE  Moved(r, {"fetch"}) /\ refresher[r].pc = "next"
<1> DEFINE v == [refresher[r] EXCEPT !.pc = "fetch", !.todo = refresher[r].todo \ {l}, !.leg = l]
<1>1. v \in States /\ v.pc = "fetch"
  BY DEF RefreshersTyped, States
<1>2. refresher' = [refresher EXCEPT ![r] = v]
  BY DEF Try
<1> QED BY <1>1, <1>2, MovedBy DEF Try

LEMMA FetchMoves ==
  ASSUME RefreshersTyped, NEW r \in Refreshers, Fetch(r)
  PROVE  Moved(r, {"next", "look"})
<1>1. PICK R \in Given(Listed(r)) :
        refresher' = IF R = {} THEN Next3(r)
                     ELSE [refresher EXCEPT ![r] = [@ EXCEPT !.pc = "look", !.records = R]]
  BY DEF Fetch
<1>2. R \subseteq Int
  BY <1>1, GivenAreListed, RefreshAssumption DEF Listed, Within
<1>3. CASE R = {}
  BY <1>1, <1>3, NextMoves DEF Moved
<1>4. CASE R # {}
  <2> DEFINE v == [refresher[r] EXCEPT !.pc = "look", !.records = R]
  <2>1. v \in States /\ v.pc \in {"next", "look"}
    BY <1>2 DEF RefreshersTyped, States
  <2>2. refresher' = [refresher EXCEPT ![r] = v]
    BY <1>1, <1>4
  <2> HIDE DEF v
  <2> QED BY <2>1, <2>2, MovedBy
<1> QED BY <1>3, <1>4

LEMMA LookMoves ==
  ASSUME RefreshersTyped, NEW r \in Refreshers, Look(r)
  PROVE  Moved(r, {"next", "insert"})
<1> DEFINE add == refresher[r].records \ Known(r)
           v == [refresher[r] EXCEPT !.pc = "insert", !.records = add]
<1>1. CASE add = {}
  BY <1>1, NextMoves DEF Moved, Look
<1>2. CASE add # {}
  <2>1. v \in States /\ v.pc \in {"next", "insert"}
    BY DEF RefreshersTyped, States
  <2>2. refresher' = [refresher EXCEPT ![r] = v]
    BY <1>2 DEF Look
  <2> HIDE DEF v
  <2> QED BY <2>1, <2>2, MovedBy
<1> QED BY <1>1, <1>2

LEMMA InsertMoves ==
  ASSUME RefreshersTyped, NEW r \in Refreshers, InsertRows(r)
  PROVE  Moved(r, {"next"})
BY NextMoves DEF InsertRows

\* The steps of a refresher that leave the table alone.
Quiet(r) ==
  \/ \E l \in Legs : Skip(r, l) \/ Try(r, l)
  \/ Fetch(r) \/ Unsupported(r) \/ Look(r) \/ LegFails(r)
Over(r) == RefreshEnds(r) \/ RefreshBreaks(r)
Busy == {"next", "fetch", "look", "insert"}

LEMMA QuietMoves ==
  ASSUME RefreshersTyped, NEW r \in Refreshers, Quiet(r)
  PROVE  /\ Moved(r, Busy) /\ refresher[r].pc \in Busy
         /\ UNCHANGED <<moment, rates, asked, refreshJob>>
<1>1. ASSUME NEW l \in Legs, Skip(r, l) \/ Try(r, l)
      PROVE  /\ Moved(r, Busy) /\ refresher[r].pc \in Busy
             /\ UNCHANGED <<moment, rates, asked, refreshJob>>
  <2>1. CASE Skip(r, l)
    BY <2>1, SkipMoves DEF Skip, Moved, Busy
  <2>2. CASE Try(r, l)
    BY <2>2, TryMoves DEF Try, Moved, Busy
  <2> QED BY <1>1, <2>1, <2>2
<1>2. CASE Fetch(r)
  <2>1. Moved(r, {"next", "look"})
    BY <1>2, FetchMoves
  <2> QED BY <1>2, <2>1 DEF Fetch, Moved, Busy
<1>3. CASE Unsupported(r)
  BY <1>3, NextMoves DEF Unsupported, Moved, Busy
<1>4. CASE Look(r)
  <2>1. Moved(r, {"next", "insert"})
    BY <1>4, LookMoves
  <2> QED BY <1>4, <2>1 DEF Look, Moved, Busy
<1>5. CASE LegFails(r)
  BY <1>5, NextMoves DEF LegFails, Moved, Busy
<1> QED BY <1>1, <1>2, <1>3, <1>4, <1>5 DEF Quiet

LEMMA OverMoves ==
  ASSUME RefreshersTyped, NEW r \in Refreshers, Over(r)
  PROVE  /\ Moved(r, {"idle"}) /\ refresher[r].pc \in Busy
         /\ UNCHANGED <<moment, rates, asked>>
<1>1. refresher' = [refresher EXCEPT ![r] = Resting2]
  BY DEF Over, RefreshEnds, RefreshBreaks
<1>2. Moved(r, {"idle"})
  BY <1>1, RestMoves
<1> QED BY <1>2 DEF Over, RefreshEnds, RefreshBreaks, Busy

LEMMA StartMoves ==
  ASSUME HistoryTyped, NEW q \in Askers, NEW t \in JobThreads, StartJob(q, t)
  PROVE  /\ Moved(t, {"next"}) /\ refresher[t].pc = "idle"
         /\ UNCHANGED <<moment, rates>>
<1>1. asked[q].legs \in SUBSET Legs /\ t \in Refreshers
  BY DEF HistoryTyped, AskTyped, Refreshers
<1>2. refresher' = [refresher EXCEPT ![t] = Begun(asked[q].legs)]
  BY DEF StartJob
<1>3. Moved(t, {"next"})
  BY <1>1, <1>2, BeginMoves DEF HistoryTyped
<1> QED BY <1>3 DEF StartJob

LEMMA RequestMoves ==
  ASSUME HistoryTyped, NEW r \in Requests, NEW S \in SUBSET Legs, RefreshNow(r, S)
  PROVE  /\ Moved(r, {"next"}) /\ refresher[r].pc = "idle"
         /\ UNCHANGED <<moment, rates, asked, refreshJob>>
<1>1. r \in Refreshers
  BY DEF Refreshers
<1>2. Moved(r, {"next"})
  BY <1>1, BeginMoves DEF HistoryTyped, RefreshNow
<1> QED BY <1>2 DEF RefreshNow

\* Every step is one of these.
Asking(q) == (\E S \in SUBSET Legs : Ask(q, S)) \/ ThreadNotStarted(q) \/ AlreadyRunning(q)
LEMMA StepsByKind ==
  HistoryNext =>
    \/ TimePasses
    \/ \E q \in Askers : Asking(q) \/ \E t \in JobThreads : StartJob(q, t)
    \/ \E r \in Requests : \E S \in SUBSET Legs : RefreshNow(r, S)
    \/ \E r \in Refreshers : Quiet(r) \/ Over(r) \/ InsertRows(r)
BY DEF HistoryNext, Asking, Quiet, Over

-----------------------------------------------------------------------------
(* Types *)

LEMMA HistoryInitTyped == HistoryInit => HistoryTyped
BY RestingTyped DEF HistoryInit, HistoryTyped, AskTyped, RefreshersTyped, JobTyped, RowsTyped, NotAsked

LEMMA AskingTyped ==
  ASSUME HistoryTyped, NEW q \in Askers, Asking(q)
  PROVE  /\ HistoryTyped' /\ UNCHANGED <<refresher, moment, rates>>
         /\ refreshJob' = refreshJob \/ refreshJob'.running
<1>1. ASSUME NEW S \in SUBSET Legs, Ask(q, S)
      PROVE  /\ AskTyped'
             /\ UNCHANGED <<refreshJob, refresher, moment, rates>>
  BY <1>1 DEF Ask, AskTyped, HistoryTyped
<1>2. CASE ThreadNotStarted(q)
  <2>1. AskTyped' /\ JobTyped' /\ refreshJob'.running
    BY <1>2 DEF ThreadNotStarted, AskTyped, HistoryTyped, JobTyped, NotAsked
  <2> QED BY <1>2, <2>1 DEF ThreadNotStarted, HistoryTyped, RefreshersTyped, RowsTyped
<1>3. CASE AlreadyRunning(q)
  <2>1. AskTyped'
    BY <1>3 DEF AlreadyRunning, AskTyped, HistoryTyped, NotAsked
  <2> QED BY <1>3, <2>1
          DEF AlreadyRunning, HistoryTyped, RefreshersTyped, JobTyped, RowsTyped
<1> QED BY <1>1, <1>2, <1>3 DEF Asking, HistoryTyped, RefreshersTyped, JobTyped, RowsTyped

\* A step of a refresher that leaves the table alone.
LEMMA MovedTyped ==
  ASSUME HistoryTyped, NEW r \in Refreshers, NEW to, Moved(r, to), AskTyped', JobTyped',
         UNCHANGED <<moment, rates>>
  PROVE  HistoryTyped'
BY DEF HistoryTyped, Moved, RowsTyped

LEMMA InsertTyped ==
  ASSUME HistoryTyped, NEW r \in Refreshers, InsertRows(r)
  PROVE  HistoryTyped'
<1>1. Moved(r, {"next"})
  BY InsertMoves DEF HistoryTyped
<1>2. refresher[r].records \subseteq Int
  BY DEF HistoryTyped, RefreshersTyped, States
<1>3. RowsTyped'
  BY <1>2 DEF InsertRows, HistoryTyped, RowsTyped
<1> QED BY <1>1, <1>3 DEF InsertRows, Moved, HistoryTyped, AskTyped, JobTyped

-----------------------------------------------------------------------------
(* The background job runs alone *)

\* Nobody begins, and the job says what it said, or that it runs.
LEMMA NobodyBegins ==
  ASSUME JobRunsAlone,
         \A t \in JobThreads : refresher'[t].pc # "idle" => refresher[t].pc # "idle",
         refreshJob' = refreshJob \/ refreshJob'.running
  PROVE  JobRunsAlone'
BY DEF JobRunsAlone

LEMMA BusyStays ==
  ASSUME JobRunsAlone, NEW r \in Refreshers, NEW to, Moved(r, to),
         refresher[r].pc # "idle", refreshJob' = refreshJob
  PROVE  JobRunsAlone'
<1>1. \A t \in JobThreads : refresher'[t].pc # "idle" => refresher[t].pc # "idle"
  BY DEF Moved, Refreshers
<1> QED BY <1>1, NobodyBegins

LEMMA HistoryStep ==
  ASSUME HistoryTyped, JobRunsAlone, [HistoryNext]_historyVars
  PROVE  HistoryTyped' /\ JobRunsAlone'
<1>1. CASE UNCHANGED historyVars
  BY <1>1 DEF historyVars, HistoryTyped, AskTyped, RefreshersTyped, JobTyped, RowsTyped,
              JobRunsAlone
<1>2. CASE TimePasses
  BY <1>2 DEF TimePasses, HistoryTyped, AskTyped, RefreshersTyped, JobTyped, RowsTyped,
              JobRunsAlone
<1>3. ASSUME NEW q \in Askers, Asking(q)
      PROVE  HistoryTyped' /\ JobRunsAlone'
  <2>1. /\ HistoryTyped' /\ UNCHANGED refresher
        /\ refreshJob' = refreshJob \/ refreshJob'.running
    BY <1>3, AskingTyped
  <2> QED BY <2>1, NobodyBegins
<1>4. ASSUME NEW q \in Askers, NEW t \in JobThreads, StartJob(q, t)
      PROVE  HistoryTyped' /\ JobRunsAlone'
  <2>1. Moved(t, {"next"}) /\ UNCHANGED <<moment, rates>>
    BY <1>4, StartMoves
  <2>2. AskTyped'
    BY <1>4 DEF StartJob, HistoryTyped, AskTyped, NotAsked
  <2>3. refreshJob' = [running |-> TRUE, finished |-> "never"]
    BY <1>4 DEF StartJob
  <2>4. JobTyped' /\ refreshJob'.running /\ ~refreshJob.running
    BY <1>4, <2>3 DEF StartJob, MayStart, JobTyped
  <2>5. \A u \in JobThreads : refresher[u].pc = "idle"
    BY <2>4 DEF JobRunsAlone
  <2>6. \A u \in JobThreads \ {t} : refresher'[u].pc = "idle"
    BY <2>1, <2>5 DEF Moved, Refreshers
  <2>7. JobRunsAlone'
    BY <2>4, <2>6 DEF JobRunsAlone
  <2> QED BY <2>1, <2>2, <2>4, <2>7, MovedTyped DEF Refreshers
<1>5. ASSUME NEW r \in Requests, NEW S \in SUBSET Legs, RefreshNow(r, S)
      PROVE  HistoryTyped' /\ JobRunsAlone'
  <2>1. /\ Moved(r, {"next"}) /\ r \in Refreshers
        /\ UNCHANGED <<moment, rates, asked, refreshJob>>
    BY <1>5, RequestMoves DEF Refreshers
  <2>2. HistoryTyped'
    BY <2>1, MovedTyped DEF HistoryTyped, AskTyped, JobTyped
  <2>3. r \notin JobThreads
    BY RefreshAssumption
  <2>4. \A t \in JobThreads : refresher'[t] = refresher[t]
    BY <2>1, <2>3 DEF Moved, Refreshers
  <2> QED BY <2>1, <2>2, <2>4, NobodyBegins
<1>6. ASSUME NEW r \in Refreshers, Quiet(r)
      PROVE  HistoryTyped' /\ JobRunsAlone'
  <2>1. /\ Moved(r, Busy) /\ refresher[r].pc \in Busy
        /\ UNCHANGED <<moment, rates, asked, refreshJob>>
    BY <1>6, QuietMoves DEF HistoryTyped
  <2>2. HistoryTyped'
    BY <2>1, MovedTyped DEF HistoryTyped, AskTyped, JobTyped
  <2> QED BY <2>1, <2>2, BusyStays DEF Busy
<1>7. ASSUME NEW r \in Refreshers, Over(r)
      PROVE  HistoryTyped' /\ JobRunsAlone'
  <2>1. /\ Moved(r, {"idle"}) /\ refresher[r].pc \in Busy
        /\ UNCHANGED <<moment, rates, asked>>
    BY <1>7, OverMoves DEF HistoryTyped
  <2>2. PICK f \in {"ok", "failed"} :
          refreshJob' = IF r \in JobThreads THEN [running |-> FALSE, finished |-> f] ELSE refreshJob
    BY <1>7 DEF Over, RefreshEnds, RefreshBreaks
  <2>3. HistoryTyped'
    BY <2>1, <2>2, MovedTyped DEF HistoryTyped, AskTyped, JobTyped
  <2>4. CASE r \in JobThreads
    <3>1. \A t \in JobThreads \ {r} : refresher[t].pc = "idle"
      BY <2>1, <2>4 DEF JobRunsAlone, Busy
    <3>2. \A t \in JobThreads : refresher'[t].pc = "idle"
      BY <2>1, <3>1 DEF Moved, Refreshers
    <3> QED BY <2>3, <3>2 DEF JobRunsAlone
  <2>5. CASE r \notin JobThreads
    BY <2>1, <2>2, <2>3, <2>5, BusyStays DEF Busy
  <2> QED BY <2>4, <2>5
<1>8. ASSUME NEW r \in Refreshers, InsertRows(r)
      PROVE  HistoryTyped' /\ JobRunsAlone'
  <2>1. HistoryTyped' /\ Moved(r, {"next"})
    BY <1>8, InsertTyped, InsertMoves DEF HistoryTyped
  <2> QED BY <1>8, <2>1, BusyStays DEF InsertRows
<1> QED BY <1>1, <1>2, <1>3, <1>4, <1>5, <1>6, <1>7, <1>8, StepsByKind

\* Two threads of the background job are never at work together, and the job says that
\* it runs whenever one is (start_funding_history_refresh_job looks at it twice).
THEOREM HistoryJobRunsAlone == HistorySpec => []JobRunsAlone
<1>1. HistoryInit => HistoryTyped /\ JobRunsAlone
  BY HistoryInitTyped, RestingTyped DEF HistoryInit, JobRunsAlone, Refreshers
<1>2. HistoryTyped /\ JobRunsAlone /\ [HistoryNext]_historyVars => (HistoryTyped /\ JobRunsAlone)'
  BY HistoryStep
<1> QED BY <1>1, <1>2, PTL DEF HistorySpec

-----------------------------------------------------------------------------
(* A leg that counts as tried                                              *)
(*                                                                         *)
(* TriedIsStored is not inductive: it says nothing of what a refresher at  *)
(* work has in hand.  With its records it has the settlements that were    *)
(* listed when it began, as far as they are not stored yet.                *)

Due(began) == {x \in Within(began) : began - HistoryDays <= x /\ x <= began}
TooMany(began) == Cardinality(Within(began)) > HistoryCap
Working(r) == refresher[r].pc \in {"fetch", "look", "insert"}
At(r, l) == Working(r) /\ refresher[r].leg = l

\* What a refresher at work has in hand, where it is, and when it began.
InHand(r) ==
  /\ refresher[r].began <= moment
  /\ Working(r) => refresher[r].leg \in Legs
  /\ refresher[r].pc \in {"look", "insert"} =>
       \/ TooMany(refresher[r].began)
       \/ Due(refresher[r].began) \subseteq rates[refresher[r].leg] \union refresher[r].records
Accounted(l) ==
  triedAt[l] > 0 => \/ l \in brokenOff
                    \/ TooMany(triedAt[l])
                    \/ Due(triedAt[l]) \subseteq rates[l]
                    \/ \E r \in Refreshers : At(r, l) /\ refresher[r].began = triedAt[l]
TriesTyped == triedAt \in [Legs -> Nat] /\ brokenOff \in SUBSET Legs
TriedInv ==
  /\ TriesTyped
  /\ \A r \in Refreshers : InHand(r)
  /\ \A l \in Legs \ unlisted : Accounted(l)

\* What was read is all that is due, or there was more than is read.
LEMMA GivenAreDue ==
  ASSUME HistoryTyped, NEW r \in Refreshers, refresher[r].began <= moment,
         NEW R \in Given(Listed(r))
  PROVE  TooMany(refresher[r].began) \/ Due(refresher[r].began) \subseteq R
<1> DEFINE b == refresher[r].began
<1>1. b \in Nat /\ moment \in Nat /\ HistoryDays \in Nat /\ Settled \subseteq Nat
  BY RefreshAssumption DEF HistoryTyped, RefreshersTyped, States, RowsTyped
<1>2. Due(b) \subseteq Listed(r)
  <2>1. ASSUME NEW x \in Due(b) PROVE x \in Listed(r)
    <3>1. x \in Within(b) /\ x <= b /\ x \in Nat
      BY <1>1, <2>1 DEF Due, Within
    <3> QED BY <1>1, <3>1 DEF Listed
  <2> QED BY <2>1
<1>3. CASE Cardinality(Listed(r)) <= HistoryCap
  BY <1>2, <1>3 DEF Given
<1>4. CASE ~(Cardinality(Listed(r)) <= HistoryCap)
  <2>1. IsFiniteSet((b - HistoryDays - 1) .. (b + 1))
    BY <1>1, FS_Interval
  <2>2. Within(b) \subseteq (b - HistoryDays - 1) .. (b + 1)
    <3>1. ASSUME NEW x \in Within(b)
          PROVE  x \in Nat /\ b - HistoryDays - 1 <= x /\ x <= b + 1
      BY <1>1, <3>1 DEF Within
    <3> QED BY <1>1, <3>1
  <2>3. IsFiniteSet(Within(b))
    BY <2>1, <2>2, FS_Subset
  <2>4. Listed(r) \subseteq Within(b)
    BY DEF Listed
  <2>5. IsFiniteSet(Listed(r)) /\ Cardinality(Listed(r)) <= Cardinality(Within(b))
    BY <2>3, <2>4, FS_Subset
  <2>6. Cardinality(Listed(r)) \in Nat /\ Cardinality(Within(b)) \in Nat /\ HistoryCap \in Nat
    BY <2>3, <2>5, FS_CardinalityType, RefreshAssumption
  <2> QED BY <1>4, <2>5, <2>6 DEF TooMany
<1> QED BY <1>3, <1>4

\* Nothing is lost that was stored, and nobody tries a leg.
Grows ==
  /\ moment <= moment' /\ unlisted' = unlisted /\ triedAt' = triedAt /\ brokenOff \subseteq brokenOff'
  /\ \A l \in Legs : rates[l] \subseteq rates'[l]

LEMMA StaysInHand ==
  ASSUME HistoryTyped, HistoryTyped', NEW r \in Refreshers, InHand(r), refresher'[r] = refresher[r],
         moment <= moment', \A l \in Legs : rates[l] \subseteq rates'[l]
  PROVE  InHand(r)'
<1>1. refresher[r].began <= moment'
  BY DEF InHand, HistoryTyped, RefreshersTyped, States, RowsTyped
<1> QED BY <1>1 DEF InHand, Working

\* A refresher moves, and leaves the leg it was at accounted for.
LEMMA TriedByMove ==
  ASSUME HistoryTyped, HistoryTyped', TriedInv, Grows, brokenOff' \subseteq Legs,
         NEW r \in Refreshers, NEW to, Moved(r, to), InHand(r)',
         \A l \in Legs \ unlisted : At(r, l) /\ refresher[r].began = triedAt[l] => Accounted(l)'
  PROVE  TriedInv'
<1>1. \A o \in Refreshers : InHand(o)'
  BY StaysInHand DEF TriedInv, Moved, Grows
<1>2. ASSUME NEW l \in Legs \ unlisted PROVE Accounted(l)'
  <2>1. Accounted(l)
    BY DEF TriedInv
  <2>2. ASSUME NEW o \in Refreshers, At(o, l), refresher[o].began = triedAt[l]
        PROVE  Accounted(l)'
    <3>1. CASE o = r
      BY <2>2, <3>1
    <3>2. CASE o # r
      BY <2>2, <3>2 DEF Moved, Grows, Accounted, At, Working
    <3> QED BY <3>1, <3>2
  <2> QED BY <2>1, <2>2 DEF Accounted, Grows
<1>3. TriesTyped'
  BY DEF TriedInv, TriesTyped, Grows
<1> QED BY <1>1, <1>2, <1>3 DEF TriedInv, Grows

\* A refresher that was at no leg moves to none.
LEMMA TriedByIdleMove ==
  ASSUME HistoryTyped, HistoryTyped', TriedInv, NEW r \in Refreshers, NEW to, Moved(r, to),
         ~Working(r), to \subseteq {"idle", "next"}, refresher'[r].began <= moment,
         UNCHANGED <<moment, rates, triedAt, brokenOff, unlisted>>
  PROVE  TriedInv'
<1>1. InHand(r)'
  BY DEF InHand, Working, Moved
<1>2. Grows /\ brokenOff' \subseteq Legs
  BY DEF Grows, TriedInv, TriesTyped, HistoryTyped, RowsTyped
<1> QED BY <1>1, <1>2, TriedByMove DEF At

\* Nobody moves.
LEMMA TriedByOthers ==
  ASSUME HistoryTyped, HistoryTyped', TriedInv, moment <= moment',
         UNCHANGED <<refresher, rates, triedAt, brokenOff, unlisted>>
  PROVE  TriedInv'
<1>1. \A r \in Refreshers : InHand(r)'
  BY StaysInHand DEF TriedInv
<1>2. \A l \in Legs \ unlisted : Accounted(l)'
  BY DEF TriedInv, Accounted, At, Working
<1> QED BY <1>1, <1>2 DEF TriedInv, TriesTyped

LEMMA TriedBySkip ==
  ASSUME HistoryTyped, HistoryTyped', TriedInv, unlisted' = unlisted,
         NEW r \in Refreshers, NEW l \in Legs, Skip(r, l)
  PROVE  TriedInv'
<1>1. Moved(r, {"next"}) /\ ~Working(r)
  BY SkipMoves DEF HistoryTyped, Working
<1>2. refresher'[r].began = refresher[r].began
  BY DEF Skip, HistoryTyped, RefreshersTyped, States
<1>3. refresher'[r].began <= moment
  BY <1>2 DEF TriedInv, InHand
<1> QED BY <1>1, <1>3, TriedByIdleMove DEF Skip

LEMMA TriedByTry ==
  ASSUME HistoryTyped, HistoryTyped', TriedInv, unlisted' = unlisted,
         NEW r \in Refreshers, NEW l \in Legs, Try(r, l)
  PROVE  TriedInv'
<1>1. Moved(r, {"fetch"}) /\ refresher[r].pc = "next"
  BY TryMoves DEF HistoryTyped
<1>2. refresher'[r].began = refresher[r].began /\ refresher'[r].leg = l
  BY DEF Try, HistoryTyped, RefreshersTyped, States
<1>3. /\ triedAt' = [triedAt EXCEPT ![l] = refresher[r].began] /\ brokenOff' = brokenOff \ {l}
      /\ UNCHANGED <<moment, rates>>
  BY DEF Try
<1>4. refresher[r].began \in Nat
  BY DEF HistoryTyped, RefreshersTyped, States
<1>5. TriesTyped'
  BY <1>3, <1>4 DEF TriedInv, TriesTyped
<1>6. InHand(r)'
  BY <1>1, <1>2, <1>3 DEF TriedInv, InHand, Moved, Working
<1>7. \A o \in Refreshers \ {r} : InHand(o)'
  BY <1>1, <1>3 DEF TriedInv, InHand, Moved, Working
<1>8. Accounted(l)'
  <2>1. triedAt'[l] = refresher'[r].began /\ At(r, l)'
    BY <1>1, <1>2, <1>3 DEF TriedInv, TriesTyped, Moved, At, Working
  <2> QED BY <2>1 DEF Accounted
<1>9. ASSUME NEW k \in Legs \ unlisted, k # l PROVE Accounted(k)'
  <2>1. triedAt'[k] = triedAt[k] /\ rates'[k] = rates[k] /\ (k \in brokenOff => k \in brokenOff')
    BY <1>3, <1>9 DEF TriedInv, TriesTyped
  <2>2. \A o \in Refreshers : At(o, k) => o # r /\ At(o, k)' /\ refresher'[o].began = refresher[o].began
    BY <1>1 DEF At, Working, Moved
  <2>3. Accounted(k)
    BY DEF TriedInv
  <2> QED BY <2>1, <2>2, <2>3 DEF Accounted
<1> QED BY <1>5, <1>6, <1>7, <1>8, <1>9 DEF TriedInv

\* After the rows of a leg are done with, the refresher is at none.
LEMMA NextInHand ==
  ASSUME HistoryTyped, NEW r \in Refreshers, InHand(r), refresher' = Next3(r), moment' = moment
  PROVE  InHand(r)'
<1>1. refresher'[r].pc = "next" /\ refresher'[r].began = refresher[r].began
  BY DEF Next3, HistoryTyped, RefreshersTyped, States
<1> QED BY <1>1 DEF InHand, Working

LEMMA TriedByFetch ==
  ASSUME HistoryTyped, HistoryTyped', TriedInv, unlisted' = unlisted,
         NEW r \in Refreshers, Fetch(r)
  PROVE  TriedInv'
<1> DEFINE b == refresher[r].began
           l == refresher[r].leg
<1>1. PICK R \in Given(Listed(r)) :
        refresher' = IF R = {} THEN Next3(r)
                     ELSE [refresher EXCEPT ![r] = [@ EXCEPT !.pc = "look", !.records = R]]
  BY DEF Fetch
<1>2. UNCHANGED <<moment, rates, triedAt, brokenOff>> /\ InHand(r) /\ At(r, l) /\ l \in Legs
  BY DEF Fetch, TriedInv, InHand, At, Working
<1>3. TooMany(b) \/ Due(b) \subseteq R
  BY <1>2, GivenAreDue DEF InHand
<1>4. Moved(r, {"next", "look"})
  BY FetchMoves DEF HistoryTyped
<1>5. Grows /\ brokenOff' \subseteq Legs
  BY <1>2 DEF Grows, TriedInv, TriesTyped, HistoryTyped, RowsTyped
<1>6. CASE R = {}
  <2>1. InHand(r)'
    BY <1>1, <1>2, <1>6, NextInHand
  <2>2. ASSUME NEW k \in Legs \ unlisted, At(r, k), b = triedAt[k] PROVE Accounted(k)'
    BY <1>2, <1>3, <1>6, <2>2 DEF Accounted, At
  <2> QED BY <1>4, <1>5, <2>1, <2>2, TriedByMove
<1>7. CASE R # {}
  <2>1. /\ refresher'[r].pc = "look" /\ refresher'[r].began = b /\ refresher'[r].leg = l
        /\ refresher'[r].records = R
    BY <1>1, <1>7 DEF HistoryTyped, RefreshersTyped, States
  <2>2. InHand(r)'
    BY <1>2, <1>3, <2>1 DEF InHand, Working
  <2>3. ASSUME NEW k \in Legs \ unlisted, At(r, k), b = triedAt[k] PROVE Accounted(k)'
    BY <1>2, <2>1, <2>3 DEF Accounted, At, Working
  <2> QED BY <1>4, <1>5, <2>2, <2>3, TriedByMove
<1> QED BY <1>6, <1>7

LEMMA TriedByUnsupported ==
  ASSUME HistoryTyped, HistoryTyped', TriedInv, unlisted' = unlisted,
         NEW r \in Refreshers, Unsupported(r)
  PROVE  TriedInv'
<1>1. Moved(r, {"next"}) /\ UNCHANGED <<moment, rates, triedAt, brokenOff>>
  BY NextMoves DEF Unsupported, HistoryTyped
<1>2. InHand(r)'
  BY NextInHand DEF Unsupported, TriedInv
<1>3. Grows /\ brokenOff' \subseteq Legs
  BY <1>1 DEF Grows, TriedInv, TriesTyped, HistoryTyped, RowsTyped
<1>4. \A l \in Legs \ unlisted : ~At(r, l)
  BY DEF Unsupported, At
<1> QED BY <1>1, <1>2, <1>3, <1>4, TriedByMove

LEMMA TriedByLook ==
  ASSUME HistoryTyped, HistoryTyped', TriedInv, unlisted' = unlisted,
         NEW r \in Refreshers, Look(r)
  PROVE  TriedInv'
<1> DEFINE b == refresher[r].began
           l == refresher[r].leg
           add == refresher[r].records \ Known(r)
<1>1. /\ UNCHANGED <<moment, rates, triedAt, brokenOff>> /\ InHand(r) /\ At(r, l) /\ l \in Legs
      /\ refresher[r].pc = "look"
  BY DEF Look, TriedInv, InHand, At, Working
<1>2. TooMany(b) \/ Due(b) \subseteq rates[l] \union add
  BY <1>1 DEF InHand, Known
<1>3. Moved(r, {"next", "insert"})
  BY LookMoves DEF HistoryTyped
<1>4. Grows /\ brokenOff' \subseteq Legs
  BY <1>1 DEF Grows, TriedInv, TriesTyped, HistoryTyped, RowsTyped
<1>5. CASE add = {}
  <2>1. refresher' = Next3(r)
    BY <1>5 DEF Look
  <2>2. InHand(r)'
    BY <1>1, <2>1, NextInHand
  <2>3. ASSUME NEW k \in Legs \ unlisted, At(r, k), b = triedAt[k] PROVE Accounted(k)'
    BY <1>1, <1>2, <1>5, <2>3 DEF Accounted, At
  <2> QED BY <1>3, <1>4, <2>2, <2>3, TriedByMove
<1>6. CASE add # {}
  <2>1. /\ refresher'[r].pc = "insert" /\ refresher'[r].began = b /\ refresher'[r].leg = l
        /\ refresher'[r].records = add
    BY <1>6 DEF Look, HistoryTyped, RefreshersTyped, States
  <2>2. InHand(r)'
    BY <1>1, <1>2, <2>1 DEF InHand, Working
  <2>3. ASSUME NEW k \in Legs \ unlisted, At(r, k), b = triedAt[k] PROVE Accounted(k)'
    BY <1>1, <2>1, <2>3 DEF Accounted, At, Working
  <2> QED BY <1>3, <1>4, <2>2, <2>3, TriedByMove
<1> QED BY <1>5, <1>6

LEMMA TriedByInsert ==
  ASSUME HistoryTyped, HistoryTyped', TriedInv, unlisted' = unlisted,
         NEW r \in Refreshers, InsertRows(r)
  PROVE  TriedInv'
<1> DEFINE b == refresher[r].began
           l == refresher[r].leg
<1>1. /\ refresher' = Next3(r) /\ rates' = [rates EXCEPT ![l] = @ \union refresher[r].records]
      /\ UNCHANGED <<moment, triedAt, brokenOff>> /\ InHand(r) /\ At(r, l) /\ l \in Legs
      /\ refresher[r].pc = "insert"
  BY DEF InsertRows, TriedInv, InHand, At, Working
<1>2. Moved(r, {"next"}) /\ InHand(r)'
  BY <1>1, InsertMoves, NextInHand DEF HistoryTyped
<1>3. rates'[l] = rates[l] \union refresher[r].records
      /\ \A k \in Legs : rates[k] \subseteq rates'[k]
  BY <1>1 DEF HistoryTyped, RowsTyped
<1>4. Grows /\ brokenOff' \subseteq Legs
  BY <1>1, <1>3 DEF Grows, TriedInv, TriesTyped, HistoryTyped, RowsTyped
<1>5. ASSUME NEW k \in Legs \ unlisted, At(r, k), b = triedAt[k] PROVE Accounted(k)'
  BY <1>1, <1>3, <1>5 DEF Accounted, At, InHand
<1> QED BY <1>2, <1>4, <1>5, TriedByMove

LEMMA TriedByFailure ==
  ASSUME HistoryTyped, HistoryTyped', TriedInv, unlisted' = unlisted,
         NEW r \in Refreshers, LegFails(r)
  PROVE  TriedInv'
<1> DEFINE l == refresher[r].leg
<1>1. /\ refresher' = Next3(r) /\ triedAt' = [triedAt EXCEPT ![l] = 0]
      /\ UNCHANGED <<moment, rates, brokenOff>> /\ InHand(r) /\ l \in Legs
  BY DEF LegFails, Untried, TriedInv, InHand, Working
<1>2. Moved(r, {"next"}) /\ InHand(r)'
  BY <1>1, NextMoves, NextInHand DEF HistoryTyped
<1>3. \A o \in Refreshers \ {r} : InHand(o)'
  BY <1>1, <1>2 DEF TriedInv, InHand, Moved, Working
<1>4. TriesTyped' /\ triedAt'[l] = 0
  BY <1>1 DEF TriedInv, TriesTyped
<1>5. ASSUME NEW k \in Legs \ unlisted PROVE Accounted(k)'
  <2>1. CASE k = l
    BY <1>4, <2>1 DEF Accounted
  <2>2. CASE k # l
    <3>1. triedAt'[k] = triedAt[k] /\ Accounted(k)
      BY <1>1, <2>2 DEF TriedInv, TriesTyped
    <3>2. \A o \in Refreshers : At(o, k) => At(o, k)' /\ refresher'[o].began = refresher[o].began
      BY <1>2, <2>2 DEF At, Working, Moved
    <3> QED BY <1>1, <3>1, <3>2 DEF Accounted
  <2> QED BY <2>1, <2>2
<1> QED BY <1>1, <1>2, <1>3, <1>4, <1>5 DEF TriedInv

LEMMA TriedByEnd ==
  ASSUME HistoryTyped, HistoryTyped', TriedInv, unlisted' = unlisted,
         NEW r \in Refreshers, Over(r)
  PROVE  TriedInv'
<1>1. Moved(r, {"idle"}) /\ UNCHANGED <<moment, rates, triedAt>>
  BY OverMoves DEF HistoryTyped, Over, RefreshEnds, RefreshBreaks
<1>2. refresher'[r] = Resting2
  BY DEF Over, RefreshEnds, RefreshBreaks, HistoryTyped, RefreshersTyped
<1>3. InHand(r)'
  BY <1>1, <1>2 DEF InHand, Working, Resting2, HistoryTyped, RowsTyped
<1>4. CASE RefreshEnds(r)
  <2>1. Grows /\ brokenOff' \subseteq Legs
    BY <1>1, <1>4 DEF RefreshEnds, Grows, TriedInv, TriesTyped, HistoryTyped, RowsTyped
  <2> QED BY <1>1, <1>3, <1>4, <2>1, TriedByMove DEF At, Working, RefreshEnds
<1>5. CASE RefreshBreaks(r)
  <2>1. brokenOff' = brokenOff \union {refresher[r].leg} /\ refresher[r].leg \in Legs
    BY <1>5 DEF RefreshBreaks, TriedInv, InHand, Working
  <2>2. Grows /\ brokenOff' \subseteq Legs
    BY <1>1, <2>1 DEF Grows, TriedInv, TriesTyped, HistoryTyped, RowsTyped
  <2>3. \A l \in Legs : At(r, l) => Accounted(l)'
    BY <2>1 DEF At, Accounted
  <2> QED BY <1>1, <1>3, <2>2, <2>3, TriedByMove
<1> QED BY <1>4, <1>5 DEF Over

LEMMA TriedByBeginning ==
  ASSUME HistoryTyped, HistoryTyped', TriedInv, NEW r \in Refreshers, refresher[r].pc = "idle",
         NEW S \in SUBSET Legs, refresher' = [refresher EXCEPT ![r] = Begun(S)],
         UNCHANGED <<moment, rates, triedAt, brokenOff, unlisted>>
  PROVE  TriedInv'
<1>1. Moved(r, {"next"}) /\ ~Working(r)
  BY BeginMoves DEF HistoryTyped, Working
<1>2. refresher'[r].began = moment
  BY DEF Begun, Resting2, HistoryTyped, RefreshersTyped
<1>3. refresher'[r].began <= moment
  BY <1>2 DEF HistoryTyped, RowsTyped
<1> QED BY <1>1, <1>3, TriedByIdleMove

LEMMA TriedStep ==
  ASSUME HistoryTyped, HistoryTyped', TriedInv, [HistoryNext]_historyVars
  PROVE  TriedInv'
<1> USE DEF Refreshers
<1>1. CASE UNCHANGED historyVars
  BY <1>1, TriedByOthers DEF historyVars, HistoryTyped, RowsTyped
<1> SUFFICES ASSUME HistoryNext PROVE TriedInv'
  BY <1>1
<1>u. unlisted' = unlisted
  BY DEF HistoryNext
<1>2. CASE TimePasses
  BY <1>2, <1>u, TriedByOthers DEF TimePasses, HistoryTyped, RowsTyped
<1>3. ASSUME NEW q \in Askers, Asking(q) PROVE TriedInv'
  BY <1>3, <1>u, TriedByOthers DEF Asking, Ask, ThreadNotStarted, AlreadyRunning, HistoryTyped, RowsTyped
<1>4. ASSUME NEW q \in Askers, NEW t \in JobThreads, StartJob(q, t) PROVE TriedInv'
  <2>1. asked[q].legs \in SUBSET Legs
    BY DEF HistoryTyped, AskTyped
  <2> QED BY <1>4, <1>u, <2>1, TriedByBeginning DEF StartJob
<1>5. ASSUME NEW r \in Requests, NEW S \in SUBSET Legs, RefreshNow(r, S) PROVE TriedInv'
  BY <1>5, <1>u, TriedByBeginning DEF RefreshNow
<1>6. ASSUME NEW r \in Refreshers, Quiet(r) PROVE TriedInv'
  BY <1>6, <1>u, TriedBySkip, TriedByTry, TriedByFetch, TriedByUnsupported, TriedByLook,
     TriedByFailure DEF Quiet
<1>7. ASSUME NEW r \in Refreshers, Over(r) PROVE TriedInv'
  BY <1>7, <1>u, TriedByEnd
<1>8. ASSUME NEW r \in Refreshers, InsertRows(r) PROVE TriedInv'
  BY <1>8, <1>u, TriedByInsert
<1> QED BY <1>2, <1>3, <1>4, <1>5, <1>6, <1>7, <1>8, StepsByKind

\* A leg that counts as tried has the settlements that were listed when its refresher
\* began, or one that began then is at work on it (_refresh_funding_history_targets sets
\* the time before it fetches, and takes it back when the leg fails).
THEOREM TriedLegsAreStored == HistorySpec => []TriedIsStored
<1>1. HistoryInit => HistoryTyped /\ JobRunsAlone
  BY HistoryInitTyped, RestingTyped DEF HistoryInit, JobRunsAlone, Refreshers
<1>2. HistoryInit => TriedInv
  <2> SUFFICES ASSUME HistoryInit PROVE TriedInv
    OBVIOUS
  <2>1. TriesTyped /\ \A l \in Legs \ unlisted : Accounted(l)
    BY DEF HistoryInit, TriesTyped, Accounted
  <2>2. \A r \in Refreshers : InHand(r)
    BY DEF HistoryInit, InHand, Working, Resting2
  <2> QED BY <2>1, <2>2 DEF TriedInv
<1>3. HistoryTyped /\ JobRunsAlone /\ TriedInv /\ [HistoryNext]_historyVars
        => (HistoryTyped /\ JobRunsAlone /\ TriedInv)'
  BY HistoryStep, TriedStep
<1>4. TriedInv => TriedIsStored
  BY DEF TriedInv, Accounted, TriedIsStored, TooMany, Due, At, Working
<1> QED BY <1>1, <1>2, <1>3, <1>4, PTL DEF HistorySpec
=============================================================================
