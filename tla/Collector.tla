------------------------------ MODULE Collector ------------------------------
(***************************************************************************)
(* The collectors of the market-data service: CollectorManager boots one   *)
(* worker per exchange and market, a few at a time and with retries; each  *)
(* worker's statistics loop looks once a second whether a stream of its    *)
(* engine failed for good, and then restarts the engine, within a budget;  *)
(* the runtime derives the state of the whole boot from what it sees of    *)
(* the workers.                                                            *)
(***************************************************************************)
EXTENDS Naturals, FiniteSets

CONSTANTS
  Workers,        \* expected_workers
  Parallel,       \* max_parallel_boot
  BootRetries,    \* boot_retry_budget
  RestartBudget,  \* restarts of one worker within its window
  MaxFatal        \* bound: fatal errors of streams, failures of a start

ASSUME CollectorAssumption ==
  /\ Parallel \in Nat \ {0} /\ BootRetries \in Nat \ {0}
  /\ RestartBudget \in Nat \ {0} /\ MaxFatal \in Nat

VARIABLES
  boot,      \* boot_state of a worker
  status,    \* its status
  attempts,  \* its tries to boot
  streams,   \* its engine's watch tasks: "none", "live", or one is "dead"
  loop,      \* its statistics loop
  restarts,  \* restarts within the window
  hadData,   \* first_data_at_ms is set
  manager,   \* CollectorManager.start: "running" or "done"
  bootState, \* collector_boot_state
  late,      \* boot_timeout_sec has passed
  fatals, halted

collectorVars == <<boot, status, attempts, streams, loop, restarts, hadData, manager,
                   bootState, late, fatals, halted>>

CollectorInit ==
  /\ boot = [w \in Workers |-> "pending"] /\ status = [w \in Workers |-> "starting"]
  /\ attempts = [w \in Workers |-> 0] /\ streams = [w \in Workers |-> "none"]
  /\ loop = [w \in Workers |-> "none"] /\ restarts = [w \in Workers |-> 0]
  /\ hadData = [w \in Workers |-> FALSE]
  /\ manager = "running" /\ bootState = "starting" /\ late = FALSE
  /\ fatals = 0 /\ halted = FALSE

-----------------------------------------------------------------------------
(* boot_progress and refresh_collector_boot_state, over given workers' states *)

Started(b, s) == {w \in Workers : b[w] # "pending" \/ s[w] \in {"running", "error"}}
Failed(b, s) == {w \in Workers : b[w] = "failed" \/ s[w] = "error"}
WithData(d) == {w \in Workers : d[w]}

\* Mutant: no verdict while some workers are still waiting for data.
DerivedPatiently(b, s, d) ==
  CASE Started(b, s) = Workers /\ WithData(d) = Workers -> "ready"
    [] Started(b, s) # Workers \/ WithData(d) # Workers ->
         IF Failed(b, s) = Workers THEN "error"
         ELSE IF late /\ WithData(d) = {} THEN "error" ELSE "warming"
Derived(b, s, d) ==
  CASE Started(b, s) = Workers /\ WithData(d) = Workers -> "ready"
    [] Started(b, s) # Workers \/ WithData(d) # Workers ->
         IF Failed(b, s) = Workers THEN "error"
         ELSE IF late THEN IF WithData(d) # {} THEN "degraded" ELSE "error"
         ELSE IF Started(b, s) # {} \/ WithData(d) # {} THEN "warming" ELSE "starting"
Refreshed(b, s, d) ==
  IF bootState \in {"error", "cancelled"} THEN bootState ELSE Derived(b, s, d)

-----------------------------------------------------------------------------
(* Booting *)

Booting == {w \in Workers : boot[w] \in {"connecting", "subscribing", "running"} /\ loop[w] = "none"}

\* The semaphore lets the worker in; _start_engine creates its client.
Connect(w) ==
  /\ ~halted /\ boot[w] = "pending" /\ Cardinality(Booting) < Parallel
  /\ boot' = [boot EXCEPT ![w] = "connecting"]
  /\ UNCHANGED <<status, attempts, streams, loop, restarts, hadData, manager, bootState,
                 late, fatals, halted>>

\* engine.restart spawns the watch tasks in chunks; quotes may come in before
\* it returns.
Subscribe(w) ==
  /\ ~halted /\ boot[w] = "connecting" /\ loop[w] = "none"
  /\ boot' = [boot EXCEPT ![w] = "subscribing"]
  /\ streams' = [streams EXCEPT ![w] = "live"]
  /\ UNCHANGED <<status, attempts, loop, restarts, hadData, manager, bootState, late,
                 fatals, halted>>

Booted(w) ==
  /\ ~halted /\ boot[w] \in {"subscribing", "running"} /\ loop[w] = "none"
  /\ loop' = [loop EXCEPT ![w] = "running"]
  /\ status' = [status EXCEPT ![w] = "running"]
  /\ UNCHANGED <<boot, attempts, streams, restarts, hadData, manager, bootState, late,
                 fatals, halted>>

\* The start raises: again after a pause, or never again after a fatal error,
\* the last try or the deadline.
BootFails(w) ==
  /\ ~halted /\ boot[w] = "connecting" /\ loop[w] = "none" /\ fatals < MaxFatal
  /\ fatals' = fatals + 1
  /\ attempts' = [attempts EXCEPT ![w] = @ + 1]
  /\ \/ /\ attempts[w] + 1 < BootRetries
        /\ UNCHANGED <<boot, status, bootState>>
     \/ /\ boot' = [boot EXCEPT ![w] = "failed"]
        /\ status' = [status EXCEPT ![w] = "error"]
        /\ bootState' = Refreshed(boot', status', hadData)
  /\ UNCHANGED <<streams, loop, restarts, hadData, manager, late, halted>>

\* gather returns: all workers are up or have failed.
ManagerDone ==
  /\ ~halted /\ manager = "running"
  /\ \A w \in Workers : loop[w] # "none" \/ boot[w] = "failed"
  /\ manager' = "done"
  /\ bootState' = IF \A w \in Workers : boot[w] = "failed" THEN "error"
                  ELSE Refreshed(boot, status, hadData)
  /\ UNCHANGED <<boot, status, attempts, streams, loop, restarts, hadData, late, fatals, halted>>

-----------------------------------------------------------------------------
(* Running *)

Data(w) ==
  /\ ~halted /\ streams[w] \in {"live", "dead"} /\ ~hadData[w]
  /\ hadData' = [hadData EXCEPT ![w] = TRUE]
  /\ boot' = [boot EXCEPT ![w] = "running"]
  /\ UNCHANGED <<status, attempts, streams, loop, restarts, manager, bootState, late,
                 fatals, halted>>

\* A watch task meets a fatal error and ends (last_fatal_code).
StreamDies(w) ==
  /\ ~halted /\ streams[w] = "live" /\ fatals < MaxFatal
  /\ streams' = [streams EXCEPT ![w] = "dead"]
  /\ fatals' = fatals + 1
  /\ UNCHANGED <<boot, status, attempts, loop, restarts, hadData, manager, bootState,
                 late, halted>>

\* One turn of _stats_loop without a fatal error: report.
Report(w) ==
  /\ ~halted /\ loop[w] = "running" /\ streams[w] = "live"
  /\ bootState' = Refreshed(boot, status, hadData)
  /\ UNCHANGED <<boot, status, attempts, streams, loop, restarts, hadData, manager, late,
                 fatals, halted>>

\* With one: the status goes to error and is reported; then a restart, if the
\* budget allows one, or the end of the loop.
EndStatus(w) == [status EXCEPT ![w] = "stopped"]
Notice(w) ==
  LET err == [status EXCEPT ![w] = "error"]
  IN /\ ~halted /\ loop[w] = "running" /\ streams[w] = "dead"
     /\ bootState' = Refreshed(boot, err, hadData)
     /\ \/ /\ restarts[w] < RestartBudget
           /\ loop' = [loop EXCEPT ![w] = "restarting"]
           /\ restarts' = [restarts EXCEPT ![w] = @ + 1]
           /\ status' = err
        \/ /\ restarts[w] >= RestartBudget
           /\ loop' = [loop EXCEPT ![w] = "ended"]
           /\ status' = EndStatus(w)
           /\ UNCHANGED restarts
     /\ UNCHANGED <<boot, attempts, streams, hadData, manager, late, fatals, halted>>

\* _restart_engine: a new client and a new engine.  boot_state stays where it
\* is left here, because the first quote was long ago.
Restart(w) ==
  /\ ~halted /\ loop[w] = "restarting"
  /\ streams' = [streams EXCEPT ![w] = "live"]
  /\ boot' = [boot EXCEPT ![w] = "subscribing"]
  /\ status' = [status EXCEPT ![w] = "running"]
  /\ loop' = [loop EXCEPT ![w] = "running"]
  /\ UNCHANGED <<attempts, restarts, hadData, manager, bootState, late, fatals, halted>>

\* If it raises, nothing catches it: the loop's task ends.
\* Mutant: the status is set before the engine is up.
EarlyStatus(w) == [status EXCEPT ![w] = "running"]
StatusWhileDown(w) == status
RestartFails(w) ==
  /\ ~halted /\ loop[w] = "restarting" /\ fatals < MaxFatal
  /\ fatals' = fatals + 1
  /\ loop' = [loop EXCEPT ![w] = "died"]
  /\ streams' = [streams EXCEPT ![w] = "none"]
  /\ boot' = [boot EXCEPT ![w] = "connecting"]
  /\ status' = StatusWhileDown(w)
  /\ UNCHANGED <<attempts, restarts, hadData, manager, bootState, late, halted>>

\* restart_times forgets a restart older than the window.
WindowPasses(w) ==
  /\ restarts[w] > 0 /\ ~halted
  /\ restarts' = [restarts EXCEPT ![w] = @ - 1]
  /\ UNCHANGED <<boot, status, attempts, streams, loop, hadData, manager, bootState, late,
                 fatals, halted>>

\* boot_watch_loop, every five seconds until the boot has come to an end.
Watch ==
  /\ ~halted /\ bootState \notin {"ready", "error", "degraded", "cancelled"}
  /\ bootState' = Refreshed(boot, status, hadData)
  /\ UNCHANGED <<boot, status, attempts, streams, loop, restarts, hadData, manager, late,
                 fatals, halted>>
BootTimePasses ==
  /\ ~late /\ late' = TRUE
  /\ UNCHANGED <<boot, status, attempts, streams, loop, restarts, hadData, manager,
                 bootState, fatals, halted>>

\* ServiceRuntime.stop
Halt ==
  /\ ~halted /\ halted' = TRUE
  /\ bootState' = IF manager = "running" THEN "cancelled" ELSE bootState
  /\ loop' = [w \in Workers |-> "ended"]
  /\ UNCHANGED <<boot, status, attempts, streams, restarts, hadData, manager, late, fatals>>

CollectorNext ==
  \/ \E w \in Workers : \/ Connect(w) \/ Subscribe(w) \/ Booted(w) \/ BootFails(w)
                        \/ Data(w) \/ StreamDies(w) \/ Report(w) \/ Notice(w)
                        \/ Restart(w) \/ RestartFails(w) \/ WindowPasses(w)
  \/ ManagerDone \/ Watch \/ BootTimePasses \/ Halt

\* asyncio runs every task whose sleep is over.
CollectorFairness ==
  /\ WF_collectorVars(BootTimePasses)
  /\ WF_collectorVars(Watch \/ ManagerDone)
  /\ \A w \in Workers : /\ WF_collectorVars(Connect(w) \/ Subscribe(w) \/ BootFails(w) \/ Booted(w))
                        /\ WF_collectorVars(Notice(w))
                        /\ WF_collectorVars(Report(w))
                        /\ WF_collectorVars(Restart(w) \/ RestartFails(w))
CollectorSpec == CollectorInit /\ [][CollectorNext]_collectorVars /\ CollectorFairness

-----------------------------------------------------------------------------
(* Properties *)

\* A worker that reports "running" is being watched: the loop that notices a dead
\* stream is alive and its engine is up, also when a restart fails half-way.
RunningIsWatched ==
  \A w \in Workers : status[w] = "running" =>
    halted \/ (loop[w] = "running" /\ streams[w] # "none")

\* The boot of the whole comes to a verdict, whatever the workers do.
BootIsDecided ==
  bootState \in {"starting", "warming"}
    ~> bootState \in {"ready", "degraded", "error", "cancelled"} \/ halted
=============================================================================
