---------------------------- MODULE DataLayerProofs ----------------------------
(***************************************************************************)
(* The spot-basis data layer: the table of background jobs implements the  *)
(* board its API promises (JobTable, JobBoard), the candles the table ends *)
(* up with are final (CandleStore), and a backtest on them uses nothing of *)
(* the future (Backtest); for every value of the constants.                *)
(***************************************************************************)
EXTENDS JobTable, CandleStore, Backtest, WellFoundedInduction, NaturalsInduction, TLAPS

-----------------------------------------------------------------------------
(* What a row may say, as far as its thread has come.                      *)

Rows == [status : {"none", "pending", "running", "stale", "failed", "succeeded"}, at : Nat]
Places == {"none", "created", "refused", "registered", "entered", "working", "over"}
JobTyped == jobTick \in Nat /\ row \in [Jobs -> Rows] /\ thread \in [Jobs -> Places]

Agrees(t, s) ==
  /\ t = "none" <=> s = "none"
  /\ t \in {"created", "refused", "registered", "entered"} => s \in {"pending", "stale"}
  /\ t = "working" => s \in {"running", "stale"}
RowsAgree == \A j \in Jobs : Agrees(thread[j], row[j].status)
JobInv == JobTyped /\ RowsAgree

Shown == [j \in Jobs |-> row[j].status]

LEMMA JobInitAgrees == JobInit => JobInv
BY DEF JobInit, JobInv, JobTyped, RowsAgree, Agrees, Rows, Places

\* A step of one job: of its thread, and perhaps of its row.
LEMMA JobMoves ==
  ASSUME JobInv, NEW j \in Jobs, NEW t \in Places, NEW r \in Rows,
         thread' = [thread EXCEPT ![j] = t], row' = [row EXCEPT ![j] = r],
         UNCHANGED jobTick, Agrees(t, r.status)
  PROVE  JobInv' /\ Shown' = [Shown EXCEPT ![j] = r.status]
<1>1. JobTyped'
  BY DEF JobInv, JobTyped
<1>2. RowsAgree'
  BY DEF JobInv, JobTyped, RowsAgree
<1>3. Shown' = [Shown EXCEPT ![j] = r.status]
  BY DEF Shown, JobInv, JobTyped
<1> QED BY <1>1, <1>2, <1>3 DEF JobInv

\* A step of which only the thread is seen, or that sets a status.
LEMMA RowStays ==
  ASSUME JobInv, NEW j \in Jobs, NEW t \in Places, Agrees(t, row[j].status),
         thread' = [thread EXCEPT ![j] = t], UNCHANGED <<row, jobTick>>
  PROVE  JobInv' /\ UNCHANGED Shown
BY DEF JobInv, JobTyped, RowsAgree, Shown

LEMMA StatusSet ==
  ASSUME JobInv, NEW j \in Jobs, NEW t \in Places, NEW s \in {"failed", "succeeded"},
         Agrees(t, s), thread' = [thread EXCEPT ![j] = t],
         row' = [row EXCEPT ![j].status = s], UNCHANGED jobTick
  PROVE  JobInv' /\ Shown' = [Shown EXCEPT ![j] = s]
<1> DEFINE r == [row[j] EXCEPT !.status = s]
<1>1. r \in Rows /\ r.status = s
  BY DEF JobInv, JobTyped, Rows
<1>2. row' = [row EXCEPT ![j] = r]
  OBVIOUS
<1> HIDE DEF r
<1> QED BY <1>1, <1>2, JobMoves

-----------------------------------------------------------------------------
(* Every step is one of the board, or is not seen on it.                   *)

Seen == [Board!BoardNext]_Shown

LEMMA CreateShown ==
  ASSUME JobInv, NEW j \in Jobs, Create(j)
  PROVE  JobInv' /\ Seen
<1> DEFINE S == {k \in Jobs : Stale(k)} \ {j}
<1>1. row[j].status = "none" /\ thread' = [thread EXCEPT ![j] = "created"] /\ UNCHANGED jobTick
  BY DEF Create, JobInv, RowsAgree, Agrees
<1>2. row' = [k \in Jobs |-> IF k = j THEN [status |-> "pending", at |-> jobTick]
                            ELSE IF Stale(k) THEN [row[k] EXCEPT !.status = "stale"] ELSE row[k]]
  BY DEF Create
<1>3. \A k \in Jobs : row[k] \in Rows /\ [row[k] EXCEPT !.status = "stale"] \in Rows
  BY DEF JobInv, JobTyped, Rows
<1>4. row'[j] = [status |-> "pending", at |-> jobTick]
  BY <1>2
<1>5. \A k \in Jobs \ {j} :
        row'[k] = IF Stale(k) THEN [row[k] EXCEPT !.status = "stale"] ELSE row[k]
  BY <1>2
<1>6. \A k \in Jobs \ {j} :
        row'[k].status = IF Stale(k) THEN "stale" ELSE row[k].status
  BY <1>3, <1>5 DEF Rows
<1>7. JobTyped'
  <2>1. row'[j] \in Rows
    BY <1>4 DEF JobInv, JobTyped, Rows
  <2>2. \A k \in Jobs : row'[k] \in Rows
    BY <1>3, <1>5, <2>1
  <2>3. row' \in [Jobs -> Rows]
    BY <1>2, <2>2
  <2> QED BY <1>1, <2>3 DEF JobInv, JobTyped, Places
<1>8. RowsAgree'
  <2>1. Agrees(thread'[j], row'[j].status)
    BY <1>1, <1>4 DEF JobInv, JobTyped, Agrees
  <2>2. ASSUME NEW k \in Jobs \ {j} PROVE Agrees(thread'[k], row'[k].status)
    BY <1>1, <1>6 DEF JobInv, JobTyped, RowsAgree, Agrees, Stale
  <2> QED BY <2>1, <2>2 DEF RowsAgree
<1>9. Board!Submit(j)
  <2>1. S \in SUBSET {k \in Jobs : Shown[k] \in {"pending", "running"}}
    BY DEF Stale, Shown
  <2>2. Shown' = [k \in Jobs |-> IF k = j THEN "pending" ELSE IF k \in S THEN "stale" ELSE Shown[k]]
    BY <1>4, <1>6 DEF Shown
  <2>3. Shown[j] = "none"
    BY <1>1 DEF Shown
  <2> HIDE DEF S
  <2> QED BY <2>1, <2>2, <2>3 DEF Board!Submit, Shown
<1> QED BY <1>7, <1>8, <1>9 DEF JobInv, Seen, Board!BoardNext

LEMMA LaunchShown ==
  ASSUME JobInv, NEW j \in Jobs, Launch(j) \/ StartThread(j) \/ EnterFails(j) \/ LeaveFails(j)
  PROVE  JobInv' /\ Seen
<1>1. \E t \in Places : /\ thread' = [thread EXCEPT ![j] = t] /\ UNCHANGED <<row, jobTick>>
                        /\ Agrees(t, row[j].status)
  <2>1. CASE Launch(j)
    BY <2>1 DEF Launch, JobInv, JobTyped, RowsAgree, Agrees, Places
  <2>2. CASE StartThread(j)
    BY <2>2 DEF StartThread, JobInv, JobTyped, RowsAgree, Agrees, Places
  <2>3. CASE EnterFails(j)
    BY <2>3 DEF EnterFails, Faulty, JobInv, JobTyped, RowsAgree, Agrees, Places
  <2>4. CASE LeaveFails(j)
    BY <2>4 DEF LeaveFails, Faulty, JobInv, JobTyped, RowsAgree, Agrees, Places
  <2> QED BY <2>1, <2>2, <2>3, <2>4
<1>2. JobInv' /\ UNCHANGED Shown
  BY <1>1, RowStays
<1> QED BY <1>2 DEF Seen

LEMMA GivenUpShown ==
  ASSUME JobInv, NEW j \in Jobs, Refused(j) \/ ThreadFails(j)
  PROVE  JobInv' /\ Seen
<1>1. /\ thread' = [thread EXCEPT ![j] = "over"] /\ UNCHANGED jobTick
      /\ row' = [row EXCEPT ![j].status = "failed"]
      /\ thread[j] \in {"refused", "registered"}
  BY DEF Refused, ThreadFails, Faulty, AfterRefusal
<1>2. row[j].status \in {"pending", "stale"}
  BY <1>1 DEF JobInv, RowsAgree, Agrees
<1>3. JobInv' /\ Shown' = [Shown EXCEPT ![j] = "failed"]
  BY <1>1, StatusSet DEF Places, Agrees
<1>4. Board!GiveUpOn(j)
  BY <1>2, <1>3 DEF Board!GiveUpOn, Shown
<1> QED BY <1>3, <1>4 DEF Seen, Board!BoardNext

LEMMA EnterShown ==
  ASSUME JobInv, NEW j \in Jobs, Enter(j)
  PROVE  JobInv' /\ Seen
<1>1. /\ thread' = [thread EXCEPT ![j] = "working"] /\ UNCHANGED jobTick
      /\ row' = [row EXCEPT ![j] = [status |-> "running", at |-> jobTick]]
      /\ row[j].status \in {"pending", "stale"}
  BY DEF Enter, JobInv, RowsAgree, Agrees
<1>2. [status |-> "running", at |-> jobTick] \in Rows
  BY DEF JobInv, JobTyped, Rows
<1>3. JobInv' /\ Shown' = [Shown EXCEPT ![j] = "running"]
  BY <1>1, <1>2, JobMoves DEF Places, Agrees
<1>4. Board!Work(j)
  BY <1>1, <1>3 DEF Board!Work, Shown
<1> QED BY <1>3, <1>4 DEF Seen, Board!BoardNext

LEMMA ResultsAreFinal == Outcomes \subseteq {"failed", "succeeded"}
BY DEF Outcomes, BackfillOutcome, ImportOutcome, ExportOutcome, BacktestOutcome, SearchOutcome

LEMMA LeaveShown ==
  ASSUME JobInv, NEW j \in Jobs, Leave(j)
  PROVE  JobInv' /\ Seen
<1>1. PICK s \in Outcomes : row' = [row EXCEPT ![j].status = s]
  BY DEF Leave
<1>2. /\ thread' = [thread EXCEPT ![j] = "over"] /\ UNCHANGED jobTick
      /\ row[j].status \in {"running", "stale"}
  BY DEF Leave, JobInv, RowsAgree, Agrees
<1>3. s \in {"failed", "succeeded"}
  BY ResultsAreFinal
<1>4. Agrees("over", s) /\ "over" \in Places
  BY <1>3 DEF Places, Agrees
<1>5. JobInv' /\ Shown' = [Shown EXCEPT ![j] = s]
  BY <1>1, <1>2, <1>3, <1>4, StatusSet
<1>6. Board!End(j)
  BY <1>2, <1>3, <1>5 DEF Board!End, Shown
<1> QED BY <1>5, <1>6 DEF Seen, Board!BoardNext

LEMMA UnseenShown ==
  ASSUME JobInv, NextTick \/ JobCrash \/ UNCHANGED jobVars
  PROVE  JobInv' /\ Seen
<1>1. UNCHANGED row /\ jobTick' \in Nat
  BY DEF NextTick, JobCrash, Faulty, jobVars, JobInv, JobTyped
<1>2. thread' \in [Jobs -> Places]
  BY DEF NextTick, JobCrash, jobVars, JobInv, JobTyped, Places
<1>3. \A j \in Jobs : \/ thread'[j] = thread[j]
                      \/ thread'[j] = "over" /\ thread[j] # "none"
  BY DEF NextTick, JobCrash, jobVars
<1>4. RowsAgree'
  BY <1>1, <1>3 DEF JobInv, RowsAgree, Agrees
<1> QED BY <1>1, <1>2, <1>4 DEF JobInv, JobTyped, Seen, Shown

LEMMA JobStep ==
  ASSUME JobInv, [JobNext]_jobVars
  PROVE  JobInv' /\ Seen
BY CreateShown, LaunchShown, GivenUpShown, EnterShown, LeaveShown, UnseenShown DEF JobNext

\* What a client reads of its job by polling is a behaviour of the board: a result is never
\* taken back, a refused job never runs, and only a swept row is revised by the worker
\* that had been slow (create_job, _run_background, _update_job).
THEOREM JobTableImplementsBoard == JobSpec => BoardIsKept
<1>1. JobInit => JobInv /\ Board!BoardInit
  BY JobInitAgrees DEF JobInit, Board!BoardInit
<1>2. JobInv /\ [JobNext]_jobVars => JobInv' /\ [Board!BoardNext]_([j \in Jobs |-> row[j].status])
  BY JobStep DEF Seen, Shown
<1> QED BY <1>1, <1>2, PTL DEF JobSpec, BoardIsKept, Board!BoardSpec

-----------------------------------------------------------------------------
(* The table of candles                                                    *)
(*                                                                         *)
(* That a partial candle is rewritten in time rests on two bounds: the     *)
(* bucket in progress is never far from the one of the last collection,    *)
(* and a candle that is partial is never far behind that one.  The first   *)
(* is the clock's, the second is what each writer keeps: what it brings is *)
(* partial only in the bucket in which it was fetched.                     *)

Marks == {"none", "partial", "final"}
Steps == {"due", "wiped", "rows", "fetch", "fetched", "done", "idle", "fallback"}
Answers == UNION {[D -> {"partial", "final"}] : D \in SUBSET Buckets}
Runs == [pc : Steps, day : Int, top : Nat, at : Nat, got : Answers]
Fills == [pc : Steps, day : Int, at : Nat, got : Answers]

CandlesTyped ==
  /\ bucket \in Buckets /\ collected \in Nat
  /\ candles \in [Buckets -> Marks]
  /\ collect \in Runs /\ backfill \in Fills

\* The clock is at most a gap and the bucket in progress ahead.
ClockIsNear == collected <= bucket /\ bucket <= collected + MaxGap + 1

\* What a fetch brings is partial only in the bucket it was made in, and is
\* written in that bucket or in the next.
Fresh(run) ==
  run.pc = "fetched" =>
    /\ run.at <= bucket /\ bucket <= run.at + 1
    /\ \A b \in DOMAIN run.got : run.got[b] = "partial" => b = run.at
\* The collector plans after the last collection, and what it brings is all of
\* its window as of then.
Covers(run, top) ==
  /\ collected <= top /\ top <= run.at
  /\ \A b \in Buckets : From(top) <= b /\ b <= top => b \in DOMAIN run.got
Planned ==
  /\ collect.pc = "fetch" => collected <= collect.top /\ collect.top <= bucket
  /\ collect.pc = "fetched" => \E top \in Nat : Covers(collect, top)

\* A partial candle is at most a gap older than the last collection.
PartialsAreYoung ==
  \A b \in Buckets : candles[b] = "partial" => collected <= b + MaxGap \/ collected <= b + 1

CandleInv ==
  CandlesTyped /\ ClockIsNear /\ Fresh(collect) /\ Fresh(backfill) /\ Planned /\ PartialsAreYoung

\* The bounds give the property.
LEMMA YoungSuffices ==
  ASSUME CandlesTyped, ClockIsNear, PartialsAreYoung
  PROVE  PartialsAreRewritten
<1> SUFFICES ASSUME NEW b \in Buckets, candles[b] = "partial" PROVE bucket <= b + LookBack
  BY DEF PartialsAreRewritten
<1>1. collected <= b + MaxGap \/ collected <= b + 1
  BY DEF PartialsAreYoung
<1>2. b \in Nat /\ bucket \in Nat /\ collected \in Nat /\ bucket <= collected + MaxGap + 1
  BY CandleAssumption DEF CandlesTyped, Buckets, ClockIsNear
<1> QED BY <1>1, <1>2, CandleAssumption

-----------------------------------------------------------------------------
(* What is fetched *)

\* CandlesOf gives every bucket of the window that has begun, and only the one
\* in progress is partial.
LEMMA CandlesOfFresh ==
  ASSUME NEW a, NEW b, bucket \in Buckets
  PROVE  /\ CandlesOf(a, b) \in Answers
         /\ DOMAIN CandlesOf(a, b) = {y \in Buckets : a <= y /\ y <= b /\ y <= bucket}
         /\ \A x \in DOMAIN CandlesOf(a, b) : CandlesOf(a, b)[x] = "partial" => x = bucket
<1> DEFINE D == {y \in Buckets : a <= y /\ y <= b /\ y <= bucket}
<1>1. D \in SUBSET Buckets
  OBVIOUS
<1>2. CandlesOf(a, b) \in [D -> {"partial", "final"}]
  BY DEF CandlesOf
<1>3. CandlesOf(a, b) \in Answers
  BY <1>1, <1>2 DEF Answers
<1>4. \A x \in D : CandlesOf(a, b)[x] = "partial" => x = bucket
  BY DEF CandlesOf
<1> QED BY <1>2, <1>3, <1>4

LEMMA NoAnswer == <<>> \in Answers
<1>1. <<>> \in [{} -> {"partial", "final"}] /\ {} \in SUBSET Buckets
  OBVIOUS
<1> QED BY <1>1 DEF Answers

LEMMA AnswerDomain ==
  ASSUME NEW g \in Answers
  PROVE  DOMAIN g \subseteq Buckets /\ g \in [DOMAIN g -> {"partial", "final"}]
BY DEF Answers

LEMMA DayIsInt == ASSUME NEW b \in Nat PROVE DayOf(b) \in Int
BY CandleAssumption DEF DayOf

\* An upsert of fresh rows keeps the types; afterwards a candle that is partial
\* was so before and is not among the rows, or is partial among them.
LEMMA UpsertMarks ==
  ASSUME CandlesTyped, NEW g \in Answers, candles' = Upserted2(g)
  PROVE  /\ candles' \in [Buckets -> Marks]
         /\ \A b \in Buckets : candles'[b] = "partial" =>
              \/ b \in DOMAIN g /\ g[b] = "partial"
              \/ b \notin DOMAIN g /\ candles[b] = "partial"
BY AnswerDomain DEF Upserted2, CandlesTyped, Marks

-----------------------------------------------------------------------------
(* The steps *)

LEMMA CandleInitInv == CandleInit => CandleInv
<1> SUFFICES ASSUME CandleInit PROVE CandleInv
  OBVIOUS
<1>1. CandlesTyped
  BY NoAnswer, CandleAssumption
  DEF CandleInit, CandlesTyped, Buckets, Marks, Runs, Fills, Steps, Resting, NoBackfill
<1>2. Fresh(collect) /\ Fresh(backfill) /\ Planned
  BY DEF CandleInit, Fresh, Planned, Resting, NoBackfill
<1>3. ClockIsNear /\ PartialsAreYoung
  BY CandleAssumption DEF CandleInit, ClockIsNear, PartialsAreYoung
<1> QED BY <1>1, <1>2, <1>3 DEF CandleInv

\* A step of a run that leaves it with nothing to write keeps everything.
Bare(run) == run.pc \notin {"fetch", "fetched"}
LEMMA BareSteps ==
  ASSUME CandleInv, UNCHANGED <<bucket, candles, collected>>,
         collect' \in Runs, backfill' \in Fills,
         collect' = collect \/ Bare(collect'),
         backfill' = backfill \/ backfill'.pc # "fetched"
  PROVE  CandleInv'
<1>1. CandlesTyped' /\ ClockIsNear' /\ PartialsAreYoung'
  BY DEF CandleInv, CandlesTyped, ClockIsNear, PartialsAreYoung, Buckets
<1>2. Fresh(collect)'
  BY DEF CandleInv, Fresh, Bare
<1>3. Fresh(backfill)'
  BY DEF CandleInv, Fresh
<1>4. Planned'
  <2>1. CASE collect' = collect
    BY <2>1 DEF CandleInv, Planned, Covers, Buckets
  <2>2. CASE Bare(collect')
    BY <2>2 DEF Planned, Bare
  <2> QED BY <2>1, <2>2
<1> QED BY <1>1, <1>2, <1>3, <1>4 DEF CandleInv

LEMMA NextBucketKeeps == ASSUME CandleInv, NextBucket PROVE CandleInv'
<1>1. bucket' = bucket + 1 /\ bucket \in Nat /\ collected \in Nat /\ bucket' \in Buckets
  BY CandleAssumption DEF NextBucket, CandleInv, CandlesTyped, Buckets
<1>2. collect' \in Runs /\ (collect' = collect \/ collect'.pc = "due")
  BY NoAnswer DEF NextBucket, CandleInv, CandlesTyped, Runs, Steps, Resting
<1>3. CandlesTyped'
  BY <1>1, <1>2 DEF NextBucket, CandleInv, CandlesTyped
<1>4. ClockIsNear'
  BY <1>1, CandleAssumption DEF NextBucket, CandleInv, ClockIsNear
<1>5. Fresh(collect)'
  BY <1>1, <1>2 DEF NextBucket, CandleInv, Fresh, CandlesTyped, Runs
<1>6. Fresh(backfill)'
  BY <1>1 DEF NextBucket, CandleInv, Fresh, CandlesTyped, Fills
<1>7. Planned'
  <2>1. CASE collect' = collect
    <3>1. collect.top \in Nat
      BY DEF CandleInv, CandlesTyped, Runs
    <3> QED BY <2>1, <3>1, <1>1 DEF NextBucket, CandleInv, Planned, Covers
  <2>2. CASE collect'.pc = "due"
    BY <2>2 DEF Planned
  <2> QED BY <1>2, <2>1, <2>2
<1>8. PartialsAreYoung'
  BY DEF NextBucket, CandleInv, PartialsAreYoung
<1> QED BY <1>3, <1>4, <1>5, <1>6, <1>7, <1>8 DEF CandleInv

LEMMA CollectBareKeeps ==
  ASSUME CandleInv, CollectStarts \/ CollectBootstraps \/ CollectFails
  PROVE  CandleInv'
<1>1. bucket \in Nat /\ DayOf(bucket) \in Int
  BY DayIsInt, CandleAssumption DEF CandleInv, CandlesTyped, Buckets
<1>2. collect' \in Runs /\ Bare(collect')
  <2>1. CASE CollectStarts
    BY <2>1, <1>1 DEF CollectStarts, CandleInv, CandlesTyped, Runs, Steps, Bare
  <2>2. CASE CollectBootstraps
    BY <2>2 DEF CollectBootstraps, CandleInv, CandlesTyped, Runs, Steps, Bare
  <2>3. CASE CollectFails
    BY <2>3, NoAnswer DEF CollectFails, Runs, Steps, Resting, Bare
  <2> QED BY <2>1, <2>2, <2>3
<1>3. UNCHANGED <<bucket, candles, collected, backfill>>
  BY DEF CollectStarts, CollectBootstraps, CollectFails
<1>4. backfill' \in Fills
  BY <1>3 DEF CandleInv, CandlesTyped
<1> QED BY <1>2, <1>3, <1>4, BareSteps

LEMMA CollectPlansKeeps == ASSUME CandleInv, CollectPlans PROVE CandleInv'
<1>1. bucket \in Nat /\ collected \in Nat
  BY CandleAssumption DEF CandleInv, CandlesTyped, Buckets
<1>2. collect' \in Runs /\ collect'.pc \in {"fetch", "done"}
      /\ (collect'.pc = "fetch" => collect'.top = bucket)
  <2>1. CASE collect' = [pc |-> "fetch", day |-> 0, top |-> bucket, at |-> 0, got |-> <<>>]
    BY <2>1, <1>1, NoAnswer DEF Runs, Steps
  <2>2. CASE collect' = [pc |-> "done", day |-> 0, top |-> 0, at |-> 0, got |-> <<>>]
    BY <2>2, NoAnswer DEF Runs, Steps
  <2> QED BY <2>1, <2>2 DEF CollectPlans, Resting
<1>3. CandlesTyped'
  BY <1>2 DEF CollectPlans, CandleInv, CandlesTyped
<1>4. Fresh(collect)' /\ Fresh(backfill)'
  BY <1>2 DEF CollectPlans, CandleInv, Fresh
<1>5. Planned'
  BY <1>1, <1>2 DEF CollectPlans, CandleInv, Planned, ClockIsNear
<1>6. ClockIsNear' /\ PartialsAreYoung'
  BY DEF CollectPlans, CandleInv, ClockIsNear, PartialsAreYoung
<1> QED BY <1>3, <1>4, <1>5, <1>6 DEF CandleInv

LEMMA CollectFetchesKeeps == ASSUME CandleInv, CollectFetches PROVE CandleInv'
<1>1. PICK g : g = CandlesOf(From(collect.top), collect.top)
  OBVIOUS
<1>2. bucket \in Buckets /\ bucket \in Nat /\ collect.top \in Nat /\ collect.pc = "fetch"
  BY CandleAssumption DEF CollectFetches, CandleInv, CandlesTyped, Buckets, Runs
<1>3. /\ g \in Answers
      /\ DOMAIN g = {y \in Buckets : From(collect.top) <= y /\ y <= collect.top /\ y <= bucket}
      /\ \A x \in DOMAIN g : g[x] = "partial" => x = bucket
  BY <1>1, <1>2, CandlesOfFresh
<1>4. collect' = [pc |-> "fetched", day |-> 0, top |-> 0, at |-> bucket, got |-> g]
  BY <1>1 DEF CollectFetches, Resting
<1>5. UNCHANGED <<bucket, candles, collected, backfill>>
  BY DEF CollectFetches
<1>6. CandlesTyped'
  BY <1>2, <1>3, <1>4, <1>5 DEF CandleInv, CandlesTyped, Runs, Steps
<1>7. Fresh(collect)'
  BY <1>2, <1>3, <1>4, <1>5 DEF Fresh
<1>8. Planned'
  <2>1. collected <= collect.top /\ collect.top <= bucket
    BY <1>2 DEF CandleInv, Planned
  <2>2. \A b \in Buckets : From(collect.top) <= b /\ b <= collect.top => b \in DOMAIN g
    BY <2>1, <1>2, <1>3 DEF Buckets
  <2>3. PICK n \in Nat : n = collect.top
    BY <1>2
  <2>4. Covers(collect, n)'
    BY <2>1, <2>2, <2>3, <1>4, <1>5 DEF Covers, From
  <2> QED BY <2>3, <2>4, <1>4 DEF Planned
<1>9. Fresh(backfill)' /\ ClockIsNear' /\ PartialsAreYoung'
  BY <1>5 DEF CandleInv, Fresh, ClockIsNear, PartialsAreYoung
<1> QED BY <1>6, <1>7, <1>8, <1>9 DEF CandleInv

LEMMA CollectWritesKeeps == ASSUME CandleInv, CollectWrites PROVE CandleInv'
<1>1. PICK g \in Answers : g = collect.got
  BY DEF CandleInv, CandlesTyped, Runs
<1>2. PICK at \in Nat : at = collect.at
  BY DEF CandleInv, CandlesTyped, Runs
<1>3. /\ at <= bucket /\ bucket <= at + 1
      /\ \A b \in DOMAIN g : g[b] = "partial" => b = at
  BY <1>1, <1>2 DEF CollectWrites, CandleInv, Fresh
<1>4. PICK top \in Nat : Covers(collect, top)
  BY DEF CollectWrites, CandleInv, Planned
<1>5. /\ collected <= top /\ top <= at
      /\ \A b \in Buckets : From(top) <= b /\ b <= top => b \in DOMAIN g
  BY <1>1, <1>2, <1>4 DEF Covers
<1>6. candles' = Upserted2(g) /\ collected' = at /\ UNCHANGED <<bucket, backfill>>
  BY <1>1, <1>2 DEF CollectWrites
<1>7. collect' \in Runs /\ collect'.pc = "done"
  BY NoAnswer DEF CollectWrites, Runs, Steps, Resting
<1>8. /\ candles' \in [Buckets -> Marks]
      /\ \A b \in Buckets : candles'[b] = "partial" =>
           \/ b \in DOMAIN g /\ g[b] = "partial"
           \/ b \notin DOMAIN g /\ candles[b] = "partial"
  BY <1>6, UpsertMarks DEF CandleInv
<1>9. bucket \in Nat /\ collected \in Nat
  BY CandleAssumption DEF CandleInv, CandlesTyped, Buckets
<1>10. CandlesTyped'
  BY <1>6, <1>7, <1>8 DEF CandleInv, CandlesTyped
<1>11. ClockIsNear'
  BY <1>3, <1>6, <1>9, CandleAssumption DEF ClockIsNear
<1>12. Fresh(collect)' /\ Planned'
  BY <1>7 DEF Fresh, Planned
<1>13. Fresh(backfill)'
  BY <1>6 DEF CandleInv, Fresh
<1>14. PartialsAreYoung'
  <2> SUFFICES ASSUME NEW b \in Buckets, candles'[b] = "partial"
               PROVE  at <= b + MaxGap \/ at <= b + 1
    BY <1>6 DEF PartialsAreYoung
  <2>1. b \in Nat
    BY DEF Buckets
  <2>2. CASE b \in DOMAIN g /\ g[b] = "partial"
    BY <2>1, <2>2, <1>3
  <2>3. CASE b \notin DOMAIN g /\ candles[b] = "partial"
    <3>1. b < From(top) \/ top < b
      BY <2>1, <2>3, <1>5, CandleAssumption DEF From
    <3>2. collected <= b + MaxGap \/ collected <= b + 1
      BY <2>3 DEF CandleInv, PartialsAreYoung
    <3>3. bucket <= collected + MaxGap + 1
      BY DEF CandleInv, ClockIsNear
    <3>4. CASE b < From(top)
      <4>1. b + LookBack < top
        BY <3>4, <2>1, CandleAssumption DEF From
      <4> QED BY <4>1, <3>2, <3>3, <2>1, <1>3, <1>5, <1>9, CandleAssumption
    <3>5. CASE top < b
      BY <3>5, <3>3, <2>1, <1>3, <1>5, <1>9, CandleAssumption
    <3> QED BY <3>1, <3>4, <3>5
  <2> QED BY <2>2, <2>3, <1>8
<1> QED BY <1>10, <1>11, <1>12, <1>13, <1>14 DEF CandleInv

LEMMA FreezeKeeps ==
  ASSUME CandleInv, FreezeWipes \/ FreezeInserts PROVE CandleInv'
<1>1. UNCHANGED <<bucket, candles, collected, collect, backfill>>
  BY DEF FreezeWipes, FreezeInserts
<1>2. collect' \in Runs /\ backfill' \in Fills
  BY <1>1 DEF CandleInv, CandlesTyped
<1> QED BY <1>1, <1>2, BareSteps

LEMMA BackfillBareKeeps ==
  ASSUME CandleInv, BackfillStarts \/ BackfillSeeds \/ BackfillErrs PROVE CandleInv'
<1>1. bucket \in Nat
  BY CandleAssumption DEF CandleInv, CandlesTyped, Buckets
<1>2. backfill' \in Fills /\ backfill'.pc # "fetched"
  <2>1. CASE BackfillStarts
    <3>1. PICK d \in Days :
            \/ backfill' = [pc |-> "wiped", day |-> d, at |-> bucket, got |-> <<>>]
            \/ backfill' = [pc |-> "fetch", day |-> d, at |-> 0, got |-> <<>>]
      BY <2>1 DEF BackfillStarts, NoBackfill
    <3>2. d \in Int
      BY DEF Days
    <3>3. CASE backfill' = [pc |-> "wiped", day |-> d, at |-> bucket, got |-> <<>>]
      BY <3>2, <3>3, <1>1, NoAnswer DEF Fills, Steps
    <3>4. CASE backfill' = [pc |-> "fetch", day |-> d, at |-> 0, got |-> <<>>]
      BY <3>2, <3>4, NoAnswer DEF Fills, Steps
    <3> QED BY <3>1, <3>3, <3>4
  <2>2. CASE BackfillSeeds
    <3>1. \/ backfill' = [backfill EXCEPT !.pc = "fallback"]
          \/ backfill' = [backfill EXCEPT !.pc = "fetch", !.at = 0]
      BY <2>2 DEF BackfillSeeds
    <3>2. CASE backfill' = [backfill EXCEPT !.pc = "fallback"]
      BY <3>2 DEF CandleInv, CandlesTyped, Fills, Steps
    <3>3. CASE backfill' = [backfill EXCEPT !.pc = "fetch", !.at = 0]
      BY <3>3 DEF CandleInv, CandlesTyped, Fills, Steps
    <3> QED BY <3>1, <3>2, <3>3
  <2>3. CASE BackfillErrs
    BY <2>3, NoAnswer DEF BackfillErrs, Fills, Steps, NoBackfill
  <2> QED BY <2>1, <2>2, <2>3
<1>3. UNCHANGED <<bucket, candles, collected, collect>>
  BY DEF BackfillStarts, BackfillSeeds, BackfillErrs
<1>4. collect' \in Runs
  BY <1>3 DEF CandleInv, CandlesTyped
<1> QED BY <1>2, <1>3, <1>4, BareSteps

LEMMA BackfillFetchesKeeps == ASSUME CandleInv, BackfillFetches PROVE CandleInv'
<1>1. UNCHANGED <<bucket, candles, collected, collect>>
  BY DEF BackfillFetches
<1>2. bucket \in Buckets /\ bucket \in Nat
  BY CandleAssumption DEF CandleInv, CandlesTyped, Buckets
<1>3. backfill' \in Fills /\ Fresh(backfill)'
  <2>1. CASE backfill' = NoBackfill
    BY <2>1, NoAnswer DEF Fills, Steps, Fresh, NoBackfill
  <2>2. CASE \E a, b : backfill' = [backfill EXCEPT !.pc = "fetched", !.at = bucket,
                                                    !.got = CandlesOf(a, b)]
    <3>1. PICK a, b : backfill' = [backfill EXCEPT !.pc = "fetched", !.at = bucket,
                                                   !.got = CandlesOf(a, b)]
      BY <2>2
    <3>2. PICK g : g = CandlesOf(a, b)
      OBVIOUS
    <3>3. g \in Answers /\ \A x \in DOMAIN g : g[x] = "partial" => x = bucket
      BY <1>2, <3>2, CandlesOfFresh
    <3>4. backfill' \in Fills /\ backfill'.at = bucket /\ backfill'.got = g
      BY <3>1, <3>2, <3>3, <1>2 DEF CandleInv, CandlesTyped, Fills, Steps
    <3>5. Fresh(backfill)'
      BY <3>3, <3>4, <1>1, <1>2 DEF Fresh
    <3> QED BY <3>4, <3>5
  <2> QED BY <2>1, <2>2 DEF BackfillFetches
<1>4. CandlesTyped'
  BY <1>1, <1>3 DEF CandleInv, CandlesTyped
<1>5. Fresh(collect)' /\ Planned' /\ ClockIsNear' /\ PartialsAreYoung'
  BY <1>1 DEF CandleInv, Fresh, Planned, Covers, ClockIsNear, PartialsAreYoung
<1> QED BY <1>3, <1>4, <1>5 DEF CandleInv

LEMMA BackfillWritesKeeps == ASSUME CandleInv, BackfillWrites PROVE CandleInv'
<1>1. PICK g \in Answers : g = backfill.got
  BY DEF CandleInv, CandlesTyped, Fills
<1>2. PICK at \in Nat : at = backfill.at
  BY DEF CandleInv, CandlesTyped, Fills
<1>3. /\ at <= bucket /\ bucket <= at + 1
      /\ \A b \in DOMAIN g : g[b] = "partial" => b = at
  BY <1>1, <1>2 DEF BackfillWrites, CandleInv, Fresh
<1>4. candles' = Upserted2(g) /\ UNCHANGED <<bucket, collect, collected>>
  BY <1>1 DEF BackfillWrites
<1>5. backfill' \in Fills /\ backfill'.pc = "idle"
  BY NoAnswer DEF BackfillWrites, Fills, Steps, NoBackfill
<1>6. /\ candles' \in [Buckets -> Marks]
      /\ \A b \in Buckets : candles'[b] = "partial" =>
           \/ b \in DOMAIN g /\ g[b] = "partial"
           \/ b \notin DOMAIN g /\ candles[b] = "partial"
  BY <1>4, UpsertMarks DEF CandleInv
<1>7. bucket \in Nat /\ collected \in Nat /\ collected <= bucket
  BY CandleAssumption DEF CandleInv, CandlesTyped, Buckets, ClockIsNear
<1>8. CandlesTyped'
  BY <1>4, <1>5, <1>6 DEF CandleInv, CandlesTyped
<1>9. Fresh(collect)' /\ Planned' /\ ClockIsNear'
  BY <1>4 DEF CandleInv, Fresh, Planned, Covers, ClockIsNear
<1>10. Fresh(backfill)'
  BY <1>5 DEF Fresh
<1>11. PartialsAreYoung'
  <2> SUFFICES ASSUME NEW b \in Buckets, candles'[b] = "partial"
               PROVE  collected <= b + MaxGap \/ collected <= b + 1
    BY <1>4 DEF PartialsAreYoung
  <2>1. CASE b \in DOMAIN g /\ g[b] = "partial"
    BY <2>1, <1>3, <1>7
  <2>2. CASE candles[b] = "partial"
    BY <2>2 DEF CandleInv, PartialsAreYoung
  <2> QED BY <2>1, <2>2, <1>6
<1> QED BY <1>8, <1>9, <1>10, <1>11 DEF CandleInv

LEMMA ImportKeeps == ASSUME CandleInv, Import PROVE CandleInv'
<1>1. PICK n \in 0 .. bucket - 1 : candles' = Upserted2([x \in 0 .. n |-> "final"])
  BY DEF Import
<1>2. PICK g : g = [x \in 0 .. n |-> "final"]
  OBVIOUS
<1>3. g \in Answers /\ \A b \in DOMAIN g : g[b] = "final"
  <2>1. 0 .. n \in SUBSET Buckets
    BY CandleAssumption DEF CandleInv, CandlesTyped, Buckets
  <2>2. g \in [0 .. n -> {"partial", "final"}]
    BY <1>2
  <2> QED BY <2>1, <2>2, <1>2 DEF Answers
<1>4. UNCHANGED <<bucket, collect, collected, backfill>> /\ candles' = Upserted2(g)
  BY <1>1, <1>2 DEF Import
<1>5. /\ candles' \in [Buckets -> Marks]
      /\ \A b \in Buckets : candles'[b] = "partial" => candles[b] = "partial"
  BY <1>3, <1>4, UpsertMarks DEF CandleInv
<1>6. CandlesTyped'
  BY <1>4, <1>5 DEF CandleInv, CandlesTyped
<1>7. Fresh(collect)' /\ Fresh(backfill)' /\ Planned' /\ ClockIsNear'
  BY <1>4 DEF CandleInv, Fresh, Planned, Covers, ClockIsNear
<1>8. PartialsAreYoung'
  BY <1>4, <1>5 DEF CandleInv, PartialsAreYoung
<1> QED BY <1>6, <1>7, <1>8 DEF CandleInv

LEMMA CandleCrashKeeps == ASSUME CandleInv, CandleCrash PROVE CandleInv'
<1>1. collect' \in Runs /\ Bare(collect') /\ backfill' \in Fills /\ backfill'.pc # "fetched"
  BY NoAnswer DEF CandleCrash, Runs, Fills, Steps, Resting, NoBackfill, Bare
<1>2. UNCHANGED <<bucket, candles, collected>>
  BY DEF CandleCrash
<1> QED BY <1>1, <1>2, BareSteps

LEMMA CandleStep == CandleInv /\ [CandleNext]_candleVars => CandleInv'
<1> SUFFICES ASSUME CandleInv, [CandleNext]_candleVars PROVE CandleInv'
  OBVIOUS
<1>1. CASE NextBucket
  BY <1>1, NextBucketKeeps
<1>2. CASE CollectStarts \/ CollectBootstraps \/ CollectFails
  BY <1>2, CollectBareKeeps
<1>3. CASE CollectPlans
  BY <1>3, CollectPlansKeeps
<1>4. CASE CollectFetches
  BY <1>4, CollectFetchesKeeps
<1>5. CASE CollectWrites
  BY <1>5, CollectWritesKeeps
<1>6. CASE FreezeWipes \/ FreezeInserts
  BY <1>6, FreezeKeeps
<1>7. CASE BackfillStarts \/ BackfillSeeds \/ BackfillErrs
  BY <1>7, BackfillBareKeeps
<1>8. CASE BackfillFetches
  BY <1>8, BackfillFetchesKeeps
<1>9. CASE BackfillWrites
  BY <1>9, BackfillWritesKeeps
<1>10. CASE Import
  BY <1>10, ImportKeeps
<1>11. CASE CandleCrash
  BY <1>11, CandleCrashKeeps
<1>12. CASE UNCHANGED candleVars
  <2>1. UNCHANGED <<bucket, candles, collected, collect, backfill>>
    BY <1>12 DEF candleVars
  <2>2. collect' \in Runs /\ backfill' \in Fills
    BY <2>1 DEF CandleInv, CandlesTyped
  <2> QED BY <2>1, <2>2, BareSteps
<1> QED
  BY <1>1, <1>2, <1>3, <1>4, <1>5, <1>6, <1>7, <1>8, <1>9, <1>10, <1>11, <1>12 DEF CandleNext

\* No candle stays partial once the collector's window has passed it: for any
\* window that covers the longest gap twice, and any backfills, imports, freezes
\* and crashes (collect_recent_snapshots and the other writers of the table).
THEOREM StoredCandlesAreFinal == CandleSpec => []PartialsAreRewritten
<1>1. CandleInit => CandleInv
  BY CandleInitInv
<1>2. CandleInv /\ [CandleNext]_candleVars => CandleInv'
  BY CandleStep
<1>3. CandleInv => PartialsAreRewritten
  BY YoungSuffices DEF CandleInv
<1> QED BY <1>1, <1>2, <1>3, PTL DEF CandleSpec

LEMMA MaxOfTimes ==
  ASSUME NEW N \in Nat, NEW T \in SUBSET (0 .. N), T # {}
  PROVE  Max(T) \in T /\ \A y \in T : Max(T) >= y
<1> DEFINE U == {N - x : x \in T}
<1>1. \A x \in T : x \in Nat /\ N - x \in Nat
  OBVIOUS
<1>2. U \in SUBSET Nat /\ U # {}
  BY <1>1
<1>3. PICK u \in U : \A v \in U : ~ (<<v, u>> \in OpToRel(<, Nat))
  BY <1>2, NatLessThanWellFounded, WFMin
<1>4. PICK x \in T : u = N - x
  OBVIOUS
<1>5. \A y \in T : x >= y
  <2> SUFFICES ASSUME NEW y \in T PROVE ~(N - y < N - x)
    BY <1>1
  <2>1. N - y \in U /\ N - y \in Nat /\ N - x \in Nat
    BY <1>1
  <2> QED BY <2>1, <1>3, <1>4 DEF OpToRel
<1> QED BY <1>4, <1>5 DEF Max

-----------------------------------------------------------------------------
(* The backtest                                                            *)
(*                                                                         *)
(* Two tapes are alike at a bar if they hold the same rows up to it and    *)
(* the same universe of its day.  Each lookup of a step gives the same     *)
(* from either, and so does the step that is made of them.                 *)

Shared(s, z, t) ==
  /\ DOMAIN s \subseteq Nat /\ DOMAIN z \subseteq Nat
  /\ {x \in DOMAIN s : x <= t} = {x \in DOMAIN z : x <= t}
  /\ \A x \in DOMAIN s : x <= t => s[x] = z[x]
Alike(tp, tq, t) ==
  /\ Shared(tp.spot, tq.spot, t)
  /\ \A p \in PairSet : Shared(tp.perp[p], tq.perp[p], t) /\ Shared(tp.rate[p], tq.rate[p], t)
  /\ BarDay(t) \in DOMAIN tp.universe <=> BarDay(t) \in DOMAIN tq.universe
  /\ BarDay(t) \in DOMAIN tp.universe => tp.universe[BarDay(t)] = tq.universe[BarDay(t)]

LEMMA LastShared ==
  ASSUME NEW s, NEW z, NEW t \in Nat, Shared(s, z, t), {x \in DOMAIN s : x <= t} # {}
  PROVE  s[Max({x \in DOMAIN s : x <= t})] = z[Max({x \in DOMAIN z : x <= t})]
<1>1. PICK P : P = {x \in DOMAIN s : x <= t}
  OBVIOUS
<1>2. P = {x \in DOMAIN z : x <= t} /\ P # {} /\ P \in SUBSET (0 .. t)
  BY <1>1 DEF Shared
<1>3. Max(P) \in P
  BY <1>2, MaxOfTimes
<1>4. s[Max(P)] = z[Max(P)]
  BY <1>1, <1>3 DEF Shared
<1> QED BY <1>1, <1>2, <1>4

\* _latest_price gives the same.
LEMMA LatestPriceShared ==
  ASSUME NEW s, NEW z, NEW t \in Nat, NEW age, Shared(s, z, t)
  PROVE  LatestPrice(s, t, age) = LatestPrice(z, t, age)
<1>1. {x \in DOMAIN s : x <= t} = {x \in DOMAIN z : x <= t}
  BY DEF Shared
<1>2. CASE {x \in DOMAIN s : x <= t} = {}
  BY <1>1, <1>2 DEF LatestPrice
<1>3. CASE {x \in DOMAIN s : x <= t} # {}
  <2>1. s[Max({x \in DOMAIN s : x <= t})] = z[Max({x \in DOMAIN z : x <= t})]
    BY <1>3, LastShared
  <2> QED BY <1>1, <2>1, Zenon DEF LatestPrice
<1> QED BY <1>2, <1>3

\* _funding_snapshot gives the same.
LEMMA FundingShared ==
  ASSUME NEW tp, NEW tq, NEW t \in Nat, Alike(tp, tq, t), NEW p \in PairSet
  PROVE  Rate(tp, p, t) = Rate(tq, p, t) /\ Score(tp, p, t) = Score(tq, p, t)
<1>1. PICK s : s = tp.rate[p]
  OBVIOUS
<1>2. PICK z : z = tq.rate[p]
  OBVIOUS
<1>3. Shared(s, z, t)
  BY <1>1, <1>2 DEF Alike
<1>4. {x \in DOMAIN s : x <= t} = {x \in DOMAIN z : x <= t}
  BY <1>3 DEF Shared
<1>5. Rate(tp, p, t) = Rate(tq, p, t)
  <2>1. CASE {x \in DOMAIN s : x <= t} = {}
    BY <1>1, <1>2, <1>4, <2>1 DEF Rate
  <2>2. CASE {x \in DOMAIN s : x <= t} # {}
    <3>1. s[Max({x \in DOMAIN s : x <= t})] = z[Max({x \in DOMAIN z : x <= t})]
      BY <1>3, <2>2, LastShared
    <3> QED BY <1>1, <1>2, <1>4, <3>1, Zenon DEF Rate
  <2> QED BY <2>1, <2>2
<1>6. Between(s, t - RateWindow, t) = Between(z, t - RateWindow, t)
  <2>1. {x \in DOMAIN s : t - RateWindow <= x /\ x <= t} = {x \in DOMAIN z : t - RateWindow <= x /\ x <= t}
    BY <1>4
  <2>2. \A x \in {y \in DOMAIN s : t - RateWindow <= y /\ y <= t} : s[x] = z[x]
    BY <1>3 DEF Shared
  <2> QED BY <2>1, <2>2 DEF Between
<1>7. Score(tp, p, t) = Score(tq, p, t)
  BY <1>1, <1>2, <1>6 DEF Score
<1> QED BY <1>5, <1>7

LEMMA PricesShared ==
  ASSUME NEW tp, NEW tq, NEW t \in Nat, Alike(tp, tq, t), NEW p \in PairSet, NEW age
  PROVE  /\ Priced(tp, p, t, age) <=> Priced(tq, p, t, age)
         /\ Basis(tp, p, t, age) = Basis(tq, p, t, age)
<1>1. LatestPrice(tp.perp[p], t, age) = LatestPrice(tq.perp[p], t, age)
  BY LatestPriceShared DEF Alike
<1>2. LatestPrice(tp.spot, t, age) = LatestPrice(tq.spot, t, age)
  BY LatestPriceShared DEF Alike
<1> QED BY <1>1, <1>2 DEF Priced, Basis

LEMMA HeldArePairs == ASSUME NEW b PROVE Held(b) \subseteq PairSet
BY DEF Held

\* The positions are marked at the same prices.
LEMMA MarkedShared ==
  ASSUME NEW tp, NEW tq, NEW t \in Nat, Alike(tp, tq, t), NEW b
  PROVE  Marked(tp, b, t) = Marked(tq, b, t)
<1>1. PICK S : S = {p \in Held(b) : Priced(tp, p, t, AgeHeld)}
  OBVIOUS
<1>2. S = {p \in Held(b) : Priced(tq, p, t, AgeHeld)}
  BY <1>1, HeldArePairs, PricesShared
<1>3. \A p \in S : /\ Basis(tp, p, t, AgeHeld) = Basis(tq, p, t, AgeHeld)
                   /\ Rate(tp, p, t) = Rate(tq, p, t)
  BY <1>1, HeldArePairs, PricesShared, FundingShared
<1>4. [p \in S |-> b.pos[p].mark - Basis(tp, p, t, AgeHeld) + Rate(tp, p, t)]
        = [p \in S |-> b.pos[p].mark - Basis(tq, p, t, AgeHeld) + Rate(tq, p, t)]
  BY <1>3
<1> DEFINE marks(q) == [p \in PairSet |->
                IF p \in S THEN [held |-> TRUE, mark |-> Basis(q, p, t, AgeHeld), stale |-> 0]
                ELSE IF p \in Held(b) THEN [b.pos[p] EXCEPT !.stale = @ + 1] ELSE Flat]
<1>5. marks(tp) = marks(tq)
  BY <1>3
<1> DEFINE gain(q) == SumFunction([p \in S |-> b.pos[p].mark - Basis(q, p, t, AgeHeld) + Rate(q, p, t)])
<1>6. gain(tp) = gain(tq)
  BY <1>4
<1>7. Marked(tp, b, t) = [b EXCEPT !.equity = @ + gain(tp), !.pos = marks(tp)]
  BY <1>1 DEF Marked
<1>8. Marked(tq, b, t) = [b EXCEPT !.equity = @ + gain(tq), !.pos = marks(tq)]
  BY <1>2 DEF Marked
<1> HIDE DEF marks, gain
<1> QED BY <1>5, <1>6, <1>7, <1>8

\* The same pairs are candidates, and the same of them the best.
LEMMA BestShared ==
  ASSUME NEW tp, NEW tq, NEW t \in Nat, Alike(tp, tq, t), NEW c
  PROVE  Candidates(tp, t) = Candidates(tq, t) /\ Best(tp, c, t) = Best(tq, c, t)
<1>1. Candidates(tp, t) = Candidates(tq, t)
  BY PricesShared DEF Candidates, Alike
<1>2. Candidates(tp, t) \subseteq PairSet
  BY DEF Candidates
<1>3. PICK G : G = Good2(tp, c, t)
  OBVIOUS
<1>4. G = Good2(tq, c, t) /\ G \subseteq PairSet
  BY <1>1, <1>2, <1>3, PricesShared, FundingShared DEF Good2
<1>5. \A p, q \in PairSet : Ahead(tp, q, p, t) <=> Ahead(tq, q, p, t)
  BY FundingShared DEF Ahead
<1>6. \A p \in G : {q \in G : Ahead(tp, q, p, t)} = {q \in G : Ahead(tq, q, p, t)}
  BY <1>4, <1>5
<1>7. Best(tp, c, t) = Best(tq, c, t)
  BY <1>3, <1>4, <1>6 DEF Best
<1> QED BY <1>1, <1>7

LEMMA PlanShared ==
  ASSUME NEW tp, NEW tq, NEW t \in Nat, Alike(tp, tq, t), NEW c, NEW b
  PROVE  PlanOf(tp, c, b, t) = PlanOf(tq, c, b, t)
<1>1. Candidates(tp, t) = Candidates(tq, t) /\ Best(tp, c, t) = Best(tq, c, t)
  BY BestShared
<1>2. \A S : [p \in S \cap Candidates(tp, t) |-> Rate(tp, p, t)]
              = [p \in S \cap Candidates(tq, t) |-> Rate(tq, p, t)]
  <2>1. \A p \in Candidates(tp, t) : Rate(tp, p, t) = Rate(tq, p, t)
    BY FundingShared DEF Candidates
  <2> QED BY <1>1, <2>1
<1>3. PICK T : T = IF b.halted THEN Held(b) ELSE Best(tp, c, t)
  OBVIOUS
<1>4. T = IF b.halted THEN Held(b) ELSE Best(tq, c, t)
  BY <1>1, <1>3
<1> DEFINE income(q, S) == SumFunction([p \in S \cap Candidates(q, t) |-> Rate(q, p, t)])
<1>5. income(tp, T) = income(tq, T) /\ income(tp, Held(b)) = income(tq, Held(b))
  BY <1>2
<1> DEFINE plan(q) == [close |-> Held(b) \ T, open |-> T \ Held(b),
                       signal |-> T # Held(b) /\ income(q, T) - income(q, Held(b)) >= Deadband]
<1>6. PlanOf(tp, c, b, t) = plan(tp)
  BY <1>3 DEF PlanOf
<1>7. PlanOf(tq, c, b, t) = plan(tq)
  BY <1>4 DEF PlanOf
<1> HIDE DEF income
<1> QED BY <1>5, <1>6, <1>7

\* What is opened is opened at the same price: plans name pairs only.
LEMMA ExecutedShared ==
  ASSUME NEW tp, NEW tq, NEW t \in Nat, Alike(tp, tq, t), NEW c, NEW b, NEW plan
  PROVE  Executed(tp, c, b, plan, t) = Executed(tq, c, b, plan, t)
<1> DEFINE d == Closed(b, plan.close)
           opened(q) == [p \in PairSet |-> IF p \in plan.open
              THEN [held |-> TRUE, mark |-> Basis(q, p, t, AgeNew), stale |-> 0] ELSE d.pos[p]]
<1>1. \A p \in PairSet : Basis(tp, p, t, AgeNew) = Basis(tq, p, t, AgeNew)
  BY PricesShared
<1>4. opened(tp) = opened(tq)
  BY <1>1
<1>2. Executed(tp, c, b, plan, t) = IF ~plan.signal \/ b.count < c.rounds THEN b
        ELSE [d EXCEPT !.pos = opened(tp), !.equity = @ - Fee * Cardinality(plan.open),
                       !.turns = @ + Cardinality(plan.open)]
  BY DEF Executed
<1>3. Executed(tq, c, b, plan, t) = IF ~plan.signal \/ b.count < c.rounds THEN b
        ELSE [d EXCEPT !.pos = opened(tq), !.equity = @ - Fee * Cardinality(plan.open),
                       !.turns = @ + Cardinality(plan.open)]
  BY DEF Executed
<1> HIDE DEF d, opened
<1> QED BY <1>2, <1>3, <1>4

LEMMA StepShared ==
  ASSUME NEW tp, NEW tq, NEW t \in Nat, Alike(tp, tq, t), NEW c, NEW b
  PROVE  Step(tp, c, b, t) = Step(tq, c, b, t)
<1>1. PICK m : m = Marked(tp, b, t)
  OBVIOUS
<1>2. m = Marked(tq, b, t)
  BY <1>1, MarkedShared
<1>3. PICK n : n = Closed(m, Outdated(m))
  OBVIOUS
<1>4. PICK plan : plan = PlanOf(tp, c, n, t)
  OBVIOUS
<1>5. plan = PlanOf(tq, c, n, t)
  BY <1>4, PlanShared
<1>6. Executed(tp, c, Confirmed(n, plan), plan, t) = Executed(tq, c, Confirmed(n, plan), plan, t)
  BY ExecutedShared
<1> QED BY <1>1, <1>2, <1>3, <1>4, <1>5, <1>6 DEF Step

-----------------------------------------------------------------------------
(* What a run has loaded is like the tape that ends at the bar.            *)

LEMMA FirstDay == BarDay(0) = 0 /\ \A t \in Nat : BarDay(t) \in Nat
<1>1. PICK w \in Nat \ {0} : w = DayBars
  BY BacktestAssumption
<1>2. 0 \div w = 0 /\ \A t \in Nat : t \div w \in Nat
  OBVIOUS
<1> QED BY <1>1, <1>2 DEF BarDay

\* Rows after the bar make no difference up to the bar.
LEMMA CutShared ==
  ASSUME NEW s, DOMAIN s \subseteq Nat, NEW a \in Int, NEW e \in Int, NEW f \in Int,
         NEW t \in Int, e <= 0, t <= f
  PROVE  Shared(Between(s, a, f), Between(Between(s, e, t), a, f), t)
<1>1. DOMAIN Between(s, a, f) = {y \in DOMAIN s : a <= y /\ y <= f}
  BY DEF Between
<1>2. DOMAIN Between(Between(s, e, t), a, f)
        = {y \in DOMAIN s : e <= y /\ y <= t /\ a <= y /\ y <= f}
  BY DEF Between
<1>3. \A x \in DOMAIN Between(Between(s, e, t), a, f) : Between(Between(s, e, t), a, f)[x] = s[x]
  BY DEF Between
<1>4. \A x \in DOMAIN Between(s, a, f) : Between(s, a, f)[x] = s[x]
  BY DEF Between
<1>5. \A x \in DOMAIN s : x \in Nat
  OBVIOUS
<1>6. \A x \in DOMAIN Between(s, a, f) : x <= t => x \in DOMAIN Between(Between(s, e, t), a, f)
  BY <1>1, <1>2, <1>5
<1> QED BY <1>1, <1>2, <1>3, <1>4, <1>5, <1>6 DEF Shared

LEMMA CutAlike ==
  ASSUME NEW tp \in Tapes, NEW a \in Nat, NEW f \in Int, NEW t \in Nat, a <= t, t <= f
  PROVE  Alike(Load(tp, a, f), Load(Load(tp, 0, t), a, f), t)
<1>1. PICK L : L = Load(tp, 0, t)
  OBVIOUS
<1>2. PICK U : U = Load(tp, a, f)
  OBVIOUS
<1>3. PICK V : V = Load(L, a, f)
  OBVIOUS
<1>4. /\ L.spot = Between(tp.spot, 0, t) /\ U.spot = Between(tp.spot, a, f)
      /\ V.spot = Between(L.spot, a, f)
  BY <1>1, <1>2, <1>3 DEF Load
<1>5. Shared(U.spot, V.spot, t)
  <2>1. DOMAIN tp.spot \subseteq Nat /\ U.spot = Between(tp.spot, a, f)
        /\ V.spot = Between(Between(tp.spot, 0, t), a, f)
    BY <1>4, BacktestAssumption
  <2>2. a \in Int /\ 0 \in Int /\ 0 <= 0 /\ t \in Int
    OBVIOUS
  <2> QED BY <2>1, <2>2, CutShared
<1>6. ASSUME NEW p \in PairSet
      PROVE  Shared(U.perp[p], V.perp[p], t) /\ Shared(U.rate[p], V.rate[p], t)
  <2>1. /\ U.perp[p] = Between(tp.perp[p], a, f)
        /\ V.perp[p] = Between(Between(tp.perp[p], 0, t), a, f)
    BY <1>1, <1>2, <1>3 DEF Load
  <2>2. /\ U.rate[p] = Between(tp.rate[p], a - RateLead, f)
        /\ V.rate[p] = Between(Between(tp.rate[p], 0 - RateLead, t), a - RateLead, f)
    BY <1>1, <1>2, <1>3 DEF Load
  <2>3. DOMAIN tp.perp[p] \subseteq Nat /\ DOMAIN tp.rate[p] \subseteq Nat
    BY BacktestAssumption DEF PairSet
  <2>4. RateLead \in Nat
    BY BacktestAssumption
  <2>5. /\ a \in Int /\ 0 \in Int /\ 0 <= 0 /\ t \in Int
        /\ a - RateLead \in Int /\ 0 - RateLead \in Int /\ 0 - RateLead <= 0
    BY <2>4
  <2>6. Shared(U.perp[p], V.perp[p], t)
    BY <2>1, <2>3, <2>5, CutShared
  <2>7. Shared(U.rate[p], V.rate[p], t)
    BY <2>2, <2>3, <2>5, CutShared
  <2> QED BY <2>6, <2>7
<1>7. /\ BarDay(t) \in DOMAIN U.universe <=> BarDay(t) \in DOMAIN V.universe
      /\ BarDay(t) \in DOMAIN U.universe => U.universe[BarDay(t)] = V.universe[BarDay(t)]
  <2>1. PICK d : d = BarDay(t)
    OBVIOUS
  <2>2. d \in Nat /\ BarDay(0) = 0
    BY <2>1, FirstDay
  <2>3. /\ U.universe = Between(tp.universe, BarDay(a), BarDay(f))
        /\ V.universe = Between(Between(tp.universe, 0, d), BarDay(a), BarDay(f))
    BY <1>1, <1>2, <1>3, <2>1, <2>2 DEF Load
  <2> QED BY <2>1, <2>2, <2>3 DEF Between
<1> QED BY <1>2, <1>3, <1>1, <1>5, <1>6, <1>7 DEF Alike

-----------------------------------------------------------------------------
(* The search: bars that scored the combinations of a window lie before    *)
(* those that test them.                                                   *)

Border == FirstBar(test.window + TrainDays)
Learned ==
  /\ tape \in Tapes
  /\ test.phase \in {"single", "train", "test", "over"} /\ test.window \in Nat
  /\ test.first \in Nat /\ test.last \in Int /\ bar \in Int /\ test.first <= bar
  /\ test.phase = "train" => test.last = Border - 1
  /\ test.phase = "test" => test.first = Border
  /\ test.phase \in {"train", "test"} => \A x \in trained : x \in Int /\ x < Border

LEMMA FirstBarTypes == FirstBar(0) = 0 /\ \A d \in Nat : FirstBar(d) \in Nat
<1>1. PICK w \in Nat \ {0} : w = DayBars
  BY BacktestAssumption
<1>2. w * 0 = 0 /\ \A d \in Nat : w * d \in Nat
  OBVIOUS
<1> QED BY <1>1, <1>2 DEF FirstBar

LEMMA DayCounts == TrainDays \in Nat /\ TestDays \in Nat /\ StepDays \in Nat /\ LastDay \in Nat
BY BacktestAssumption

\* A run that starts: it trains with nothing learned, or tests what was learned
\* on the bars before it.
LEMMA TrainStarts ==
  ASSUME tape' \in Tapes, NEW w \in Nat, NEW c, test' = RunOf("train", w, c), bar' = test'.first,
         \A x \in trained' : x \in Int /\ x < FirstBar(w + TrainDays)
  PROVE  Learned'
<1>1. w + TrainDays \in Nat
  BY DayCounts
<1>2. PICK e \in Nat : e = FirstBar(w + TrainDays)
  BY <1>1, FirstBarTypes
<1>3. test' = [phase |-> "train", window |-> w, combo |-> c, first |-> FirstBar(w), last |-> e - 1]
  BY <1>2 DEF RunOf
<1>4. FirstBar(w) \in Nat
  BY FirstBarTypes
<1>5. Border' = e
  BY <1>2, <1>3 DEF Border, FirstBar
<1> QED BY <1>2, <1>3, <1>4, <1>5 DEF Learned

LEMMA TestStarts ==
  ASSUME tape' \in Tapes, NEW w \in Nat, NEW c, test' = RunOf("test", w, c), bar' = test'.first,
         \A x \in trained' : x \in Int /\ x < FirstBar(w + TrainDays)
  PROVE  Learned'
<1>1. w + TrainDays \in Nat /\ w + TrainDays + TestDays \in Nat
  BY DayCounts
<1>2. PICK e \in Nat : e = FirstBar(w + TrainDays)
  BY <1>1, FirstBarTypes
<1>3. PICK z \in Nat : z = FirstBar(w + TrainDays + TestDays)
  BY <1>1, FirstBarTypes
<1>4. test' = [phase |-> "test", window |-> w, combo |-> c, first |-> e, last |-> z - 1]
  BY <1>2, <1>3 DEF RunOf
<1>5. Border' = e
  BY <1>2, <1>4 DEF Border, FirstBar
<1> QED BY <1>2, <1>3, <1>4, <1>5 DEF Learned

LEMMA NothingStarts ==
  ASSUME tape' \in Tapes, test' = Over, bar' = 0
  PROVE  Learned'
BY DEF Over, Learned

LEMMA LearnedInit == BacktestInit => Learned
<1> SUFFICES ASSUME BacktestInit PROVE Learned
  OBVIOUS
<1>1. tape \in Tapes /\ bar = 0 /\ trained = {}
  BY DEF BacktestInit
<1>2. CASE test = [Over EXCEPT !.phase = "single", !.last = FirstBar(LastDay + 1) - 1]
  <2>1. PICK e \in Nat : e = FirstBar(LastDay + 1)
    BY DayCounts, FirstBarTypes
  <2>2. test = [phase |-> "single", window |-> 0, combo |-> 1, first |-> 0, last |-> e - 1]
    BY <1>2, <2>1 DEF Over
  <2> QED BY <1>1, <2>1, <2>2 DEF Learned
<1>3. CASE test = Over
  BY <1>1, <1>3 DEF Learned, Over
<1>4. CASE test = RunOf("train", 0, 1)
  <2>1. PICK e \in Nat : e = FirstBar(0 + TrainDays)
    BY DayCounts, FirstBarTypes
  <2>2. test = [phase |-> "train", window |-> 0, combo |-> 1, first |-> 0, last |-> e - 1]
    BY <1>4, <2>1, FirstBarTypes DEF RunOf
  <2>3. Border = e
    BY <2>1, <2>2 DEF Border
  <2> QED BY <1>1, <2>1, <2>2, <2>3 DEF Learned
<1> QED BY <1>2, <1>3, <1>4 DEF BacktestInit

LEMMA NextBarLearns == ASSUME Learned, NextBar PROVE Learned'
<1>1. UNCHANGED <<tape, test>> /\ bar' = bar + 1 /\ bar <= test.last
      /\ trained' = IF test.phase = "train" THEN trained \union {bar} ELSE trained
  BY DEF NextBar
<1>2. Border' = Border
  BY <1>1 DEF Border
<1>3. bar' \in Int /\ test.first <= bar'
  BY <1>1 DEF Learned
<1>4. ASSUME test.phase \in {"train", "test"}, NEW x \in trained' PROVE x \in Int /\ x < Border
  <2>1. CASE x \in trained
    BY <2>1, <1>4 DEF Learned
  <2>2. CASE x = bar /\ test.phase = "train"
    <3>1. Border \in Nat
      BY DayCounts, FirstBarTypes DEF Learned, Border
    <3> QED BY <2>2, <3>1, <1>1 DEF Learned
  <2> QED BY <1>1, <1>4, <2>1, <2>2
<1> QED BY <1>1, <1>2, <1>3, <1>4 DEF Learned

LEMMA EndsLearn == ASSUME Learned, SingleEnds \/ Trained \/ Tested PROVE Learned'
<1>1. tape' \in Tapes
  BY DEF Learned, SingleEnds, Trained, Tested
<1>2. PICK w : w = test.window
  OBVIOUS
<1>3. w \in Nat /\ w + StepDays \in Nat
  BY <1>2, DayCounts DEF Learned
<1>4. CASE SingleEnds
  BY <1>1, <1>4, NothingStarts DEF SingleEnds
<1>5. CASE Trained
  <2>1. /\ trained' = trained
        /\ \A x \in trained' : x \in Int /\ x < FirstBar(w + TrainDays)
    BY <1>2, <1>5 DEF Trained, Learned, Border
  <2>2. \/ \E c : Start(RunOf("train", w, c))
        \/ \E c : Start(RunOf("test", w, c))
    BY <1>2, <1>5 DEF Trained
  <2>3. CASE \E c : Start(RunOf("train", w, c))
    BY <1>1, <1>3, <2>1, <2>3, TrainStarts DEF Start
  <2>4. CASE \E c : Start(RunOf("test", w, c))
    BY <1>1, <1>3, <2>1, <2>4, TestStarts DEF Start
  <2> QED BY <2>2, <2>3, <2>4
<1>6. CASE Tested
  <2>1. \/ \E c : Start(RunOf("test", w, c)) /\ trained' = trained
        \/ trained' = {} /\ (Start(RunOf("train", w + StepDays, 1)) \/ Start(Over))
    BY <1>2, <1>6 DEF Tested
  <2>2. CASE \E c : Start(RunOf("test", w, c)) /\ trained' = trained
    <3>1. \A x \in trained' : x \in Int /\ x < FirstBar(w + TrainDays)
      BY <1>2, <1>6, <2>2 DEF Tested, Finished, Learned, Border
    <3> QED BY <1>1, <1>3, <3>1, <2>2, TestStarts DEF Start
  <2>3. CASE trained' = {} /\ Start(RunOf("train", w + StepDays, 1))
    BY <1>1, <1>3, <2>3, TrainStarts DEF Start
  <2>4. CASE Start(Over)
    BY <1>1, <2>4, NothingStarts DEF Start, Over
  <2> QED BY <2>1, <2>2, <2>3, <2>4
<1> QED BY <1>4, <1>5, <1>6

LEMMA LearnedStep == Learned /\ [BacktestNext]_backtestVars => Learned'
<1> SUFFICES ASSUME Learned, [BacktestNext]_backtestVars PROVE Learned'
  OBVIOUS
<1>1. CASE NextBar
  BY <1>1, NextBarLearns
<1>2. CASE SingleEnds \/ Trained \/ Tested
  BY <1>2, EndsLearn
<1>3. CASE UNCHANGED backtestVars
  BY <1>3 DEF backtestVars, Learned, Border
<1> QED BY <1>1, <1>2, <1>3 DEF BacktestNext

LEMMA LearnedSuffices == ASSUME Learned PROVE NoLookAhead
<1> SUFFICES ASSUME test.phase # "over", bar <= test.last
             PROVE  /\ Step(Loaded, Params, book, bar)
                         = Step(Load(Load(tape, 0, bar), test.first, test.last), Params, book, bar)
                    /\ test.phase = "test" => bar \notin trained
  BY DEF NoLookAhead
<1>1. tape \in Tapes /\ test.first \in Nat /\ test.last \in Int /\ bar \in Nat /\ test.first <= bar
  BY DEF Learned
<1>2. Alike(Load(tape, test.first, test.last), Load(Load(tape, 0, bar), test.first, test.last), bar)
  BY <1>1, CutAlike
<1>3. Step(Loaded, Params, book, bar)
        = Step(Load(Load(tape, 0, bar), test.first, test.last), Params, book, bar)
  BY <1>1, <1>2, StepShared DEF Loaded
<1>4. test.phase = "test" => bar \notin trained
  BY <1>1 DEF Learned
<1> QED BY <1>3, <1>4

\* No bar of a backtest uses a row of a later bar, whatever the tables hold, and no
\* combination is tested on bars that helped to choose it, whatever the windows,
\* the grid and the number of combinations tried (run_event_backtest,
\* run_walk_forward_search).
THEOREM BacktestSeesNoFuture == BacktestSpec => []NoLookAhead
<1>1. BacktestInit => Learned
  BY LearnedInit
<1>2. Learned /\ [BacktestNext]_backtestVars => Learned'
  BY LearnedStep
<1>3. Learned => NoLookAhead
  BY LearnedSuffices
<1> QED BY <1>1, <1>2, <1>3, PTL DEF BacktestSpec
=============================================================================
