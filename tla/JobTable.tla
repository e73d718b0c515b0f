------------------------------- MODULE JobTable -------------------------------
(***************************************************************************)
(* The data jobs of the spot-basis backtest (backfill, import, export,     *)
(* backtest, search): a row of backtest_data_jobs each, which a request    *)
(* creates and a thread updates, every update a transaction of its own;     *)
(* and the registry of threads, which limits their number.                 *)
(*                                                                         *)
(* What a job does is left out (CandleStore has what it writes): it ends    *)
(* well or badly.  A row of status failed is "stale" here if its message   *)
(* is stale_timeout or stale_pending.                                      *)
(***************************************************************************)
EXTENDS Integers, FiniteSets

CONSTANTS
  Jobs,
  JobCap,      \* _MAX_ACTIVE_JOB_THREADS
  StaleAfter,  \* ticks after which a row is stale
  LastTick,    \* bound: ticks of the run
  JobFaults    \* bound: crashes, threads that do not start, updates that fail

ASSUME JobTableAssumption ==
  JobCap \in Nat \ {0} /\ StaleAfter \in Nat /\ LastTick \in Nat /\ JobFaults \in Nat

VARIABLES
  jobTick,   \* ticks so far
  row,    \* per job, [status, at]
  slots,  \* _ACTIVE_JOB_THREADS
  thread, \* per job, where its request or its thread is
  jobFaults

jobVars == <<jobTick, row, slots, thread, jobFaults>>

JobInit ==
  /\ jobTick = 0 /\ row = [j \in Jobs |-> [status |-> "none", at |-> 0]]
  /\ slots = {} /\ thread = [j \in Jobs |-> "none"] /\ jobFaults = 0

NextTick == /\ jobTick < LastTick /\ jobTick' = jobTick + 1
            /\ UNCHANGED <<row, slots, thread, jobFaults>>

\* create_job: the sweep and the new row are one commit.
Stale(k) == row[k].status \in {"pending", "running"} /\ jobTick - row[k].at > StaleAfter
Create(j) ==
  /\ thread[j] = "none" /\ thread' = [thread EXCEPT ![j] = "created"]
  /\ row' = [k \in Jobs |-> IF k = j THEN [status |-> "pending", at |-> jobTick]
                            ELSE IF Stale(k) THEN [row[k] EXCEPT !.status = "stale"] ELSE row[k]]
  /\ UNCHANGED <<jobTick, slots, jobFaults>>

\* The registry is locked: threads that are not alive are taken out (one that is
\* registered but not started is not alive), and a slot is taken if there is one.
Alive2(j) == thread[j] \in {"entered", "working"}
Pruned == {k \in slots : Alive2(k)}
Launch(j) ==
  /\ thread[j] = "created"
  /\ LET full == Cardinality(Pruned) >= JobCap IN
     /\ thread' = [thread EXCEPT ![j] = IF full THEN "refused" ELSE "registered"]
     /\ slots' = IF full THEN Pruned ELSE Pruned \union {j}
  /\ UNCHANGED <<jobTick, row, jobFaults>>
\* Mutant: the refused job starts all the same.
StartsAnyway == "registered"
AfterRefusal == "over"
Refused(j) ==
  /\ thread[j] = "refused" /\ thread' = [thread EXCEPT ![j] = AfterRefusal]
  /\ row' = [row EXCEPT ![j].status = "failed"]
  /\ UNCHANGED <<jobTick, slots, jobFaults>>
StartThread(j) ==
  /\ thread[j] = "registered" /\ thread' = [thread EXCEPT ![j] = "entered"]
  /\ UNCHANGED <<jobTick, row, slots, jobFaults>>

\* What a job of each kind makes of its result.
BackfillOutcome(errors) == IF errors THEN "failed" ELSE "succeeded"
ImportOutcome(rows, errors) == IF rows \/ ~errors THEN "succeeded" ELSE "failed"
ExportOutcome(raised) == IF raised THEN "failed" ELSE "succeeded"
BacktestOutcome(raised) == IF raised THEN "failed" ELSE "succeeded"
SearchOutcome(raised) == IF raised THEN "failed" ELSE "succeeded"
Outcomes ==
  UNION {{BackfillOutcome(x), ExportOutcome(x), BacktestOutcome(x), SearchOutcome(x)}
         \union {ImportOutcome(y, x) : y \in BOOLEAN} : x \in BOOLEAN}

\* The first thing a thread does is to call its job running; the last is the
\* result, whoever has swept the row in the meantime, and to give its slot back.
Enter(j) ==
  /\ thread[j] = "entered" /\ thread' = [thread EXCEPT ![j] = "working"]
  /\ row' = [row EXCEPT ![j] = [status |-> "running", at |-> jobTick]]
  /\ UNCHANGED <<jobTick, slots, jobFaults>>
Leave(j) ==
  /\ thread[j] = "working"
  /\ thread' = [thread EXCEPT ![j] = "over"] /\ slots' = slots \ {j}
  /\ \E s \in Outcomes : row' = [row EXCEPT ![j].status = s]
  /\ UNCHANGED <<jobTick, jobFaults>>

-----------------------------------------------------------------------------
(* Faults *)

Faulty == jobFaults < JobFaults /\ jobFaults' = jobFaults + 1 /\ UNCHANGED jobTick

ThreadFails(j) ==
  /\ Faulty /\ thread[j] = "registered" /\ thread' = [thread EXCEPT ![j] = "over"]
  /\ row' = [row EXCEPT ![j].status = "failed"] /\ slots' = slots \ {j}
\* The database is locked: the first update is outside of the try, and the thread
\* is gone without having given its slot back; the last one leaves the row running.
EnterFails(j) ==
  /\ Faulty /\ thread[j] = "entered" /\ thread' = [thread EXCEPT ![j] = "over"]
  /\ UNCHANGED <<row, slots>>
LeaveFails(j) ==
  /\ Faulty /\ thread[j] = "working" /\ thread' = [thread EXCEPT ![j] = "over"]
  /\ slots' = slots \ {j} /\ UNCHANGED row
JobCrash ==
  /\ Faulty /\ slots' = {} /\ UNCHANGED row
  /\ thread' = [j \in Jobs |-> IF thread[j] = "none" THEN "none" ELSE "over"]

JobNext ==
  \/ NextTick \/ JobCrash
  \/ \E j \in Jobs : \/ Create(j) \/ Launch(j) \/ Refused(j) \/ StartThread(j) \/ Enter(j)
                     \/ Leave(j) \/ ThreadFails(j) \/ EnterFails(j) \/ LeaveFails(j)
JobSpec == JobInit /\ [][JobNext]_jobVars

-----------------------------------------------------------------------------
(* Properties *)

\* The rows keep what the status of a job promises to a client that polls it: a
\* result is not taken back, a refused job does not run, and a row is revised only
\* if it was swept, by the worker that had been slow.
Board == INSTANCE JobBoard WITH board <- [j \in Jobs |-> row[j].status]
BoardIsKept == Board!BoardSpec
=============================================================================
