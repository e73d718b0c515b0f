------------------------------ MODULE Supervisor ------------------------------
(***************************************************************************)
(* The supervisor of the load-balanced collectors: one process per exchange*)
(* and market, a queue of their metrics, restarts within a budget, and the *)
(* orderly end.                                                            *)
(*                                                                         *)
(* Of a metric counts what the supervisor does on it, Metric(status, code) *)
(* with the error the worker saw last.  The supervisor reads all there are *)
(* and keeps each worker's last one, so that is what the queue holds here. *)
(* All metrics of a process that ended are in the queue before is_alive    *)
(* turns false; one that is killed may lose the last ones.                 *)
(***************************************************************************)
EXTENDS Naturals

CONSTANTS
  Procs,        \* worker ids
  ProcBudget,   \* restart_budget
  MaxCrashes    \* bound: processes killed from outside, failures of an engine

ASSUME SupervisorAssumption ==
  ProcBudget \in Nat /\ MaxCrashes \in Nat

VARIABLES
  phase,     \* a process: "up", "draining", "failing" or "dead"
  lastCode,  \* the error it saw last, which its later metrics repeat
  pipe,      \* its last metric in the queue
  heard,     \* latest: its last metric the supervisor has read
  spawns,    \* restarts (a run is taken to be shorter than restart_window_sec)
  backoff,   \* restart_next_at lies ahead
  exhausted, \* exhausted_workers
  sup,       \* the supervisor: "drain", "check", "pass", "grace", "terminate", "ended"
  stopEvent, \* stop_event
  stopAsked, \* stop_requested
  barred,    \* history: workers that reported an error that forbids a restart
  crashes

supVars == <<phase, lastCode, pipe, heard, spawns, backoff, exhausted, sup,
             stopEvent, stopAsked, barred, crashes>>

\* is_terminal_status and is_restartable_error of a metric.
Metric(status, code) ==
  CASE status \in {"done", "timeout", "closed", "error"} -> "over"
    [] status \in {"", "running", "draining"} ->
         IF code \in {"AUTH_FAIL", "SYMBOL_FAIL"} THEN "forbidden" ELSE "restartable"
Silent == "none"

SupInit ==
  /\ phase = [w \in Procs |-> "up"] /\ lastCode = [w \in Procs |-> "NONE"]
  /\ pipe = [w \in Procs |-> Silent]
  /\ heard = [w \in Procs |-> Metric("", "UNKNOWN")] /\ spawns = [w \in Procs |-> 0]
  /\ backoff = [w \in Procs |-> FALSE] /\ exhausted = {}
  /\ sup = "drain"
  /\ stopEvent = FALSE /\ stopAsked = FALSE /\ barred = {} /\ crashes = 0

-----------------------------------------------------------------------------
(* A worker process *)

Reported(w, c) ==
  /\ lastCode' = [lastCode EXCEPT ![w] = c]
  /\ barred' = IF c = "AUTH_FAIL" THEN barred \union {w} ELSE barred

\* A report of a worker that is starting or running.
Progress(w) ==
  /\ phase[w] = "up"
  /\ \E c \in {lastCode[w], "AUTH_FAIL"} :
       Reported(w, c) /\ pipe' = [pipe EXCEPT ![w] = Metric("running", c)]
  /\ UNCHANGED <<phase, heard, spawns, backoff, exhausted, sup, stopEvent, stopAsked, crashes>>

\* Its time is over ("done"), no data came ("timeout") or a stream failed for
\* good ("error"): the verdict, at once followed by the first of its last words.
Draining(w) ==
  /\ pipe' = [pipe EXCEPT ![w] = Metric("draining", lastCode'[w])]
  /\ phase' = [phase EXCEPT ![w] = "draining"]
Verdict(w) ==
  /\ phase[w] = "up"
  /\ \E c \in {lastCode[w], "AUTH_FAIL"} : Reported(w, c)
  /\ Draining(w)
  /\ UNCHANGED <<heard, spawns, backoff, exhausted, sup, stopEvent, stopAsked, crashes>>

\* The loop sees stop_event.
Heed(w) ==
  /\ phase[w] = "up" /\ stopEvent
  /\ UNCHANGED <<lastCode, barred>> /\ Draining(w)
  /\ UNCHANGED <<heard, spawns, backoff, exhausted, sup, stopEvent, stopAsked, crashes>>

\* The start of an engine raises.
StartFails(w) ==
  /\ phase[w] = "up" /\ crashes < MaxCrashes
  /\ crashes' = crashes + 1
  /\ pipe' = [pipe EXCEPT ![w] = Metric("draining", lastCode[w])]
  /\ phase' = [phase EXCEPT ![w] = "failing"]
  /\ UNCHANGED <<lastCode, heard, spawns, backoff, exhausted, sup, stopEvent, stopAsked, barred>>

\* The engines are closed: "closed", the error of a run that raised, the end.
LastWords(w) ==
  /\ phase[w] \in {"draining", "failing"}
  /\ pipe' = [pipe EXCEPT ![w] = IF phase[w] = "failing" THEN Metric("error", "LOOP")
                                 ELSE Metric("closed", "NONE")]
  /\ phase' = [phase EXCEPT ![w] = "dead"]
  /\ UNCHANGED <<lastCode, heard, spawns, backoff, exhausted, sup, stopEvent, stopAsked,
                 barred, crashes>>

\* Killed: what it had not yet written is lost.  That the queue stays readable, also
\* after a kill in the middle of a put, is assumed.
Killed(w) ==
  /\ phase[w] # "dead" /\ crashes < MaxCrashes
  /\ crashes' = crashes + 1
  /\ phase' = [phase EXCEPT ![w] = "dead"]
  /\ \E m \in {pipe[w], Silent} : pipe' = [pipe EXCEPT ![w] = m]
  /\ UNCHANGED <<lastCode, heard, spawns, backoff, exhausted, sup, stopEvent, stopAsked, barred>>

-----------------------------------------------------------------------------
(* The supervisor's loop *)

Terminal(m) == m = "over"
Restartable(m) == m # "forbidden"

\* All metrics of the queue, then the workers one by one.
Drain ==
  /\ sup = "drain" /\ ~stopAsked
  /\ heard' = [w \in Procs |-> IF pipe[w] = Silent THEN heard[w] ELSE pipe[w]]
  /\ pipe' = [w \in Procs |-> Silent]
  /\ sup' = "check"
  /\ UNCHANGED <<lastCode, phase, spawns, backoff, exhausted, stopEvent, stopAsked, barred,
                 crashes>>

\* Mutant: the last restart of the budget is not used.
GivenUpEarly(w) == ~Restartable(heard[w]) \/ spawns[w] + 1 >= ProcBudget
GivenUp(w) == ~Restartable(heard[w]) \/ spawns[w] >= ProcBudget
Spared(w) == phase[w] # "dead" \/ stopAsked \/ w \in exhausted \/ Terminal(heard[w])

Restarted == {w \in Procs : ~Spared(w) /\ ~GivenUp(w) /\ ~backoff[w]}
Check ==
  /\ sup = "check"
  /\ exhausted' = exhausted \union {w \in Procs : ~Spared(w) /\ GivenUp(w)}
  /\ phase' = [w \in Procs |-> IF w \in Restarted THEN "up" ELSE phase[w]]
  /\ lastCode' = [w \in Procs |-> IF w \in Restarted THEN "NONE" ELSE lastCode[w]]
  /\ spawns' = [w \in Procs |-> IF w \in Restarted THEN spawns[w] + 1 ELSE spawns[w]]
  /\ backoff' = [w \in Procs |-> w \in Restarted \/ backoff[w]]
  /\ sup' = "pass"
  /\ UNCHANGED <<pipe, heard, stopEvent, stopAsked, barred, crashes>>

\* Mutant: only workers that ended count, not those given up.
AllTerminal == \A w \in Procs : Terminal(heard[w])
AllOver == \A w \in Procs : w \in exhausted \/ Terminal(heard[w])
Pass ==
  /\ sup = "pass"
  /\ sup' = IF (\A w \in Procs : phase[w] = "dead") /\ AllOver THEN "grace" ELSE "drain"
  /\ stopEvent' = (stopEvent \/ sup' = "grace")
  /\ UNCHANGED <<lastCode, phase, pipe, heard, spawns, backoff, exhausted, stopAsked, barred,
                 crashes>>

\* SIGINT or SIGTERM, at any time; the loop sees it when it begins again.
Signal ==
  /\ ~stopAsked /\ sup \in {"drain", "check", "pass"}
  /\ stopAsked' = TRUE /\ stopEvent' = TRUE
  /\ UNCHANGED <<lastCode, phase, pipe, heard, spawns, backoff, exhausted, sup, crashes, barred>>
Break ==
  /\ sup = "drain" /\ stopAsked
  /\ sup' = "grace"
  /\ UNCHANGED <<lastCode, phase, pipe, heard, spawns, backoff, exhausted, stopEvent,
                 stopAsked, barred, crashes>>

\* shutdown_workers: they have four seconds, then are terminated, then killed.
Shutdown ==
  \/ /\ sup \in {"grace", "terminate"} /\ \A w \in Procs : phase[w] = "dead"
     /\ sup' = "ended"
     /\ UNCHANGED phase
  \/ /\ sup = "grace"
     /\ sup' = "terminate"
     /\ \E S \in SUBSET Procs : phase' = [w \in Procs |-> IF w \in S THEN "dead" ELSE phase[w]]
  \/ /\ sup = "terminate"
     /\ sup' = "ended"
     /\ phase' = [w \in Procs |-> "dead"]
ShutDown ==
  /\ Shutdown
  /\ UNCHANGED <<lastCode, pipe, heard, spawns, backoff, exhausted, stopEvent, stopAsked,
                 barred, crashes>>

BackoffEnds(w) ==
  /\ backoff[w] /\ backoff' = [backoff EXCEPT ![w] = FALSE]
  /\ UNCHANGED <<lastCode, phase, pipe, heard, spawns, exhausted, sup, stopEvent, stopAsked,
                 barred, crashes>>

SupStep == Drain \/ Pass \/ Break \/ ShutDown \/ Check
Ends(w) == Verdict(w) \/ Heed(w) \/ LastWords(w)
SupNext ==
  \/ SupStep \/ Signal
  \/ \E w \in Procs : \/ Progress(w) \/ Ends(w) \/ StartFails(w) \/ Killed(w)
                      \/ BackoffEnds(w)

\* A worker runs for a given time and not longer; the rest is the scheduler.
SupFairness ==
  /\ WF_supVars(SupStep)
  /\ \A w \in Procs : WF_supVars(Ends(w)) /\ WF_supVars(BackoffEnds(w))
SupSpec == SupInit /\ [][SupNext]_supVars /\ SupFairness

-----------------------------------------------------------------------------
(* Properties *)

\* The types; no worker is started again more often than its budget.
SupTypeOK ==
  /\ phase \in [Procs -> {"up", "draining", "failing", "dead"}]
  /\ spawns \in [Procs -> 0 .. ProcBudget] /\ backoff \in [Procs -> BOOLEAN]
  /\ exhausted \subseteq Procs
  /\ sup \in {"drain", "check", "pass", "grace", "terminate", "ended"}
  /\ barred \subseteq Procs

\* The supervisor comes to its end although workers are killed, fail to start or
\* are given up, and although one that had just finished is started again because
\* its last metrics were still in the queue.
SupervisorEnds == <>(sup = "ended")

\* The supervisor does not end by itself while a worker it could start again is
\* down: each has reported its end, has used its restarts, or has reported an error
\* that forbids another one, if perhaps before it was started again, as an old
\* process's last metric may be read after the new one was started.
EndsWhenOver ==
  sup \in {"grace", "terminate", "ended"} /\ ~stopAsked =>
    \A w \in Procs : Terminal(heard[w]) \/ w \in barred \/ spawns[w] = ProcBudget
=============================================================================
