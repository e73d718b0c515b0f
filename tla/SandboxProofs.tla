---------------------------- MODULE SandboxProofs ----------------------------
(***************************************************************************)
(* The market-data service, for any numbers of workers, keys, retries and  *)
(* instants: what its collector, its supervisor, its store and its         *)
(* compaction promise.  The four share no variable: each part below is     *)
(* about one module.                                                       *)
(***************************************************************************)
EXTENDS Collector, Supervisor, QuoteStore, Rollup, FiniteSetTheorems, SequenceTheorems,
        WellFoundedInduction, TLAPS

-----------------------------------------------------------------------------
(* The collector: a worker that reports "running" is being watched.        *)

-----------------------------------------------------------------------------
(* RunningIsWatched is not inductive: Booted must know that the engine is  *)
(* up, from the boot_state it finds.                                       *)

WorkersTyped ==
  /\ boot \in [Workers -> {"pending", "connecting", "subscribing", "running", "failed"}]
  /\ status \in [Workers -> {"starting", "running", "error", "stopped"}]
  /\ streams \in [Workers -> {"none", "live", "dead"}]
  /\ loop \in [Workers -> {"none", "running", "restarting", "ended", "died"}]
SubscribedIsUp ==
  \A w \in Workers : boot[w] \in {"subscribing", "running"} => streams[w] # "none"
WatchInv == WorkersTyped /\ SubscribedIsUp /\ RunningIsWatched

LEMMA CollectorInitInv == CollectorInit => WatchInv
BY DEF CollectorInit, WatchInv, WorkersTyped, SubscribedIsUp, RunningIsWatched

\* A step of one worker: what of it changes must agree.
LEMMA WorkerStep ==
  ASSUME WatchInv, NEW w \in Workers,
         NEW b \in {"pending", "connecting", "subscribing", "running", "failed"},
         NEW s \in {"starting", "running", "error", "stopped"},
         NEW e \in {"none", "live", "dead"},
         NEW l \in {"none", "running", "restarting", "ended", "died"},
         boot' = [boot EXCEPT ![w] = b], status' = [status EXCEPT ![w] = s],
         streams' = [streams EXCEPT ![w] = e], loop' = [loop EXCEPT ![w] = l],
         UNCHANGED halted,
         b \in {"subscribing", "running"} => e # "none",
         s = "running" => halted \/ (l = "running" /\ e # "none")
  PROVE  WatchInv'
<1>1. WorkersTyped'
  BY DEF WatchInv, WorkersTyped
<1>2. SubscribedIsUp'
  BY DEF WatchInv, WorkersTyped, SubscribedIsUp
<1>3. RunningIsWatched'
  BY DEF WatchInv, WorkersTyped, RunningIsWatched
<1> QED BY <1>1, <1>2, <1>3 DEF WatchInv

\* What is not assigned stays.
LEMMA Unassigned ==
  ASSUME WorkersTyped, NEW w \in Workers
  PROVE  /\ boot = [boot EXCEPT ![w] = boot[w]] /\ status = [status EXCEPT ![w] = status[w]]
         /\ streams = [streams EXCEPT ![w] = streams[w]] /\ loop = [loop EXCEPT ![w] = loop[w]]
BY DEF WorkersTyped

LEMMA WorkerSteps ==
  ASSUME WatchInv, NEW w \in Workers,
         \/ Connect(w) \/ Subscribe(w) \/ Booted(w) \/ BootFails(w) \/ Data(w) \/ StreamDies(w)
         \/ Notice(w) \/ Restart(w) \/ RestartFails(w)
  PROVE  WatchInv'
<1> USE DEF WatchInv
<1>t. /\ boot[w] \in {"pending", "connecting", "subscribing", "running", "failed"}
      /\ status[w] \in {"starting", "running", "error", "stopped"}
      /\ streams[w] \in {"none", "live", "dead"}
      /\ loop[w] \in {"none", "running", "restarting", "ended", "died"}
  BY DEF WorkersTyped
<1>i. /\ boot[w] \in {"subscribing", "running"} => streams[w] # "none"
      /\ status[w] = "running" => halted \/ (loop[w] = "running" /\ streams[w] # "none")
  BY DEF SubscribedIsUp, RunningIsWatched
<1>k. /\ boot = [boot EXCEPT ![w] = boot[w]] /\ status = [status EXCEPT ![w] = status[w]]
      /\ streams = [streams EXCEPT ![w] = streams[w]] /\ loop = [loop EXCEPT ![w] = loop[w]]
  BY Unassigned
<1> HIDE DEF WatchInv
<1>1. CASE Connect(w)
  <2>1. boot' = [boot EXCEPT ![w] = "connecting"] /\ UNCHANGED <<status, streams, loop, halted>>
    BY <1>1 DEF Connect
  <2> QED BY <1>t, <1>i, <1>k, <2>1, WorkerStep
<1>2. CASE Subscribe(w)
  <2>1. /\ boot' = [boot EXCEPT ![w] = "subscribing"] /\ streams' = [streams EXCEPT ![w] = "live"]
        /\ UNCHANGED <<status, loop, halted>>
    BY <1>2 DEF Subscribe
  <2> QED BY <1>t, <1>i, <1>k, <2>1, WorkerStep
<1>3. CASE Booted(w)
  <2>1. /\ status' = [status EXCEPT ![w] = "running"] /\ loop' = [loop EXCEPT ![w] = "running"]
        /\ boot[w] \in {"subscribing", "running"} /\ UNCHANGED <<boot, streams, halted>>
    BY <1>3 DEF Booted
  <2> QED BY <1>t, <1>i, <1>k, <2>1, WorkerStep
<1>4. CASE BootFails(w)
  <2>1. /\ ~halted /\ boot[w] = "connecting" /\ loop[w] = "none"
        /\ UNCHANGED <<streams, loop, halted>>
    BY <1>4 DEF BootFails
  <2>2. \/ UNCHANGED <<boot, status>>
        \/ boot' = [boot EXCEPT ![w] = "failed"] /\ status' = [status EXCEPT ![w] = "error"]
    BY <1>4 DEF BootFails
  <2>3. CASE UNCHANGED <<boot, status>>
    BY <1>t, <1>i, <1>k, <2>1, <2>3, WorkerStep
  <2>4. CASE boot' = [boot EXCEPT ![w] = "failed"] /\ status' = [status EXCEPT ![w] = "error"]
    BY <1>t, <1>i, <1>k, <2>1, <2>4, WorkerStep
  <2> QED BY <2>2, <2>3, <2>4
<1>5. CASE Data(w)
  <2>1. /\ boot' = [boot EXCEPT ![w] = "running"] /\ streams[w] \in {"live", "dead"}
        /\ UNCHANGED <<status, streams, loop, halted>>
    BY <1>5 DEF Data
  <2> QED BY <1>t, <1>i, <1>k, <2>1, WorkerStep
<1>6. CASE StreamDies(w)
  <2>1. /\ streams' = [streams EXCEPT ![w] = "dead"] /\ streams[w] = "live"
        /\ UNCHANGED <<boot, status, loop, halted>>
    BY <1>6 DEF StreamDies
  <2> QED BY <1>t, <1>i, <1>k, <2>1, WorkerStep
<1>7. CASE Notice(w)
  <2>1. /\ UNCHANGED <<boot, streams, halted>>
        /\ \/ loop' = [loop EXCEPT ![w] = "restarting"] /\ status' = [status EXCEPT ![w] = "error"]
           \/ loop' = [loop EXCEPT ![w] = "ended"] /\ status' = [status EXCEPT ![w] = "stopped"]
    BY <1>7 DEF Notice, EndStatus
  <2>2. CASE loop' = [loop EXCEPT ![w] = "restarting"] /\ status' = [status EXCEPT ![w] = "error"]
    BY <1>t, <1>i, <1>k, <2>1, <2>2, WorkerStep
  <2>3. CASE loop' = [loop EXCEPT ![w] = "ended"] /\ status' = [status EXCEPT ![w] = "stopped"]
    BY <1>t, <1>i, <1>k, <2>1, <2>3, WorkerStep
  <2> QED BY <2>1, <2>2, <2>3
<1>8. CASE Restart(w)
  <2>1. /\ boot' = [boot EXCEPT ![w] = "subscribing"] /\ status' = [status EXCEPT ![w] = "running"]
        /\ streams' = [streams EXCEPT ![w] = "live"] /\ loop' = [loop EXCEPT ![w] = "running"]
        /\ UNCHANGED halted
    BY <1>8 DEF Restart
  <2> QED BY <2>1, WorkerStep
<1>9. CASE RestartFails(w)
  <2>1. /\ boot' = [boot EXCEPT ![w] = "connecting"] /\ UNCHANGED <<status, halted>>
        /\ streams' = [streams EXCEPT ![w] = "none"] /\ loop' = [loop EXCEPT ![w] = "died"]
        /\ loop[w] = "restarting" /\ ~halted
    BY <1>9 DEF RestartFails, StatusWhileDown
  <2> QED BY <1>t, <1>i, <1>k, <2>1, WorkerStep
<1> QED BY <1>1, <1>2, <1>3, <1>4, <1>5, <1>6, <1>7, <1>8, <1>9

\* The steps that leave the workers alone, and the end.
LEMMA RuntimeSteps ==
  ASSUME WatchInv,
         \/ \E w \in Workers : Report(w) \/ WindowPasses(w)
         \/ ManagerDone \/ Watch \/ BootTimePasses \/ Halt \/ UNCHANGED collectorVars
  PROVE  WatchInv'
<1>1. CASE Halt
  <2>1. halted' /\ UNCHANGED <<boot, status, streams>> /\ loop' = [w \in Workers |-> "ended"]
    BY <1>1 DEF Halt
  <2> QED BY <2>1 DEF WatchInv, WorkersTyped, SubscribedIsUp, RunningIsWatched
<1>2. CASE ~Halt
  <2>1. UNCHANGED <<boot, status, streams, loop, halted>>
    BY <1>2 DEF Report, WindowPasses, ManagerDone, Watch, BootTimePasses, collectorVars
  <2> QED BY <2>1 DEF WatchInv, WorkersTyped, SubscribedIsUp, RunningIsWatched
<1> QED BY <1>1, <1>2

\* A worker that reports "running" has a live statistics loop and an engine, also between
\* the steps of a boot or a restart and after one that fails (_stats_loop, _restart_engine).
THEOREM CollectorIsWatched == CollectorSpec => []RunningIsWatched
<1>1. CollectorInit => WatchInv
  BY CollectorInitInv
<1>2. WatchInv /\ [CollectorNext]_collectorVars => WatchInv'
  BY WorkerSteps, RuntimeSteps DEF CollectorNext
<1>3. WatchInv => RunningIsWatched
  BY DEF WatchInv
<1> QED BY <1>1, <1>2, <1>3, PTL DEF CollectorSpec

-----------------------------------------------------------------------------
(* The supervisor does not end while a worker it could restart is down.    *)

-----------------------------------------------------------------------------
(* Types *)

Metrics == {"over", "forbidden", "restartable"}
Codes == {"NONE", "AUTH_FAIL"}
ProcsTyped ==
  /\ phase \in [Procs -> {"up", "draining", "failing", "dead"}]
  /\ lastCode \in [Procs -> Codes]
  /\ pipe \in [Procs -> Metrics \union {Silent}] /\ heard \in [Procs -> Metrics]
LoopTyped ==
  /\ spawns \in [Procs -> 0 .. ProcBudget] /\ backoff \in [Procs -> BOOLEAN]
  /\ exhausted \subseteq Procs /\ barred \subseteq Procs
  /\ sup \in {"drain", "check", "pass", "grace", "terminate", "ended"}
  /\ stopAsked \in BOOLEAN

-----------------------------------------------------------------------------
(* EndsWhenOver is not inductive: a worker is given up for what was heard  *)
(* of it at that time, which a later metric may replace.  What stays is    *)
(* that it once reported the error; and so it must be known of every       *)
(* metric that forbids a restart, from the process through the queue to    *)
(* the supervisor.                                                         *)

ErrorsAreBarred ==
  \A w \in Procs :
    lastCode[w] = "AUTH_FAIL" \/ pipe[w] = "forbidden" \/ heard[w] = "forbidden" => w \in barred
GivenUpRightly == \A w \in exhausted : w \in barred \/ spawns[w] = ProcBudget
SupInv == ProcsTyped /\ LoopTyped /\ ErrorsAreBarred /\ GivenUpRightly /\ EndsWhenOver

LEMMA MetricsOfCodes ==
  ASSUME NEW c \in Codes
  PROVE  \A s \in {"running", "draining"} : /\ Metric(s, c) \in {"forbidden", "restartable"}
                                            /\ Metric(s, c) = "forbidden" => c = "AUTH_FAIL"
BY DEF Metric, Codes

LEMMA EndMetrics ==
  /\ \A c : Metric("closed", c) = "over" /\ Metric("error", c) = "over"
  /\ Metric("", "UNKNOWN") = "restartable" /\ Silent \notin Metrics
BY DEF Metric, Silent, Metrics

LEMMA SupInitInv == SupInit => SupInv
<1> SUFFICES ASSUME SupInit PROVE SupInv
  OBVIOUS
<1>1. heard = [w \in Procs |-> "restartable"]
  BY EndMetrics DEF SupInit
<1>2. ProcsTyped
  BY <1>1 DEF SupInit, ProcsTyped, Metrics, Codes
<1>3. LoopTyped
  <2>1. spawns = [w \in Procs |-> 0] /\ backoff = [w \in Procs |-> FALSE]
    BY DEF SupInit
  <2>2. spawns \in [Procs -> 0 .. ProcBudget]
    BY <2>1, SupervisorAssumption
  <2>3. backoff \in [Procs -> BOOLEAN]
    BY <2>1
  <2> QED BY <2>2, <2>3 DEF SupInit, LoopTyped
<1>4. ErrorsAreBarred
  BY <1>1 DEF SupInit, ErrorsAreBarred, Silent
<1>5. GivenUpRightly /\ EndsWhenOver
  BY DEF SupInit, GivenUpRightly, EndsWhenOver
<1> QED BY <1>2, <1>3, <1>4, <1>5 DEF SupInv

\* What a step of the processes may do to the invariant: the supervisor's books stay.
Books == <<heard, spawns, backoff, exhausted, sup, stopAsked>>
LEMMA ProcessStep ==
  ASSUME SupInv, NEW w \in Procs, NEW c \in Codes, NEW m \in Metrics \union {Silent},
         NEW p \in {"up", "draining", "failing", "dead"},
         phase' = [phase EXCEPT ![w] = p], lastCode' = [lastCode EXCEPT ![w] = c],
         pipe' = [pipe EXCEPT ![w] = m], barred \subseteq barred', barred' \subseteq Procs,
         c = "AUTH_FAIL" \/ m = "forbidden" => w \in barred', UNCHANGED Books
  PROVE  SupInv'
<1> USE DEF SupInv, Books
<1>1. ProcsTyped' /\ LoopTyped'
  BY DEF ProcsTyped, LoopTyped
<1>2. ErrorsAreBarred'
  BY DEF ErrorsAreBarred, ProcsTyped
<1>3. GivenUpRightly' /\ EndsWhenOver'
  BY DEF GivenUpRightly, EndsWhenOver
<1> QED BY <1>1, <1>2, <1>3

LEMMA ReportStep ==
  ASSUME SupInv, NEW w \in Procs, Progress(w) \/ Verdict(w)
  PROVE  SupInv'
<1>1. PICK c \in {lastCode[w], "AUTH_FAIL"} : Reported(w, c)
  BY DEF Progress, Verdict
<1>2. c \in Codes /\ lastCode' = [lastCode EXCEPT ![w] = c] /\ lastCode'[w] = c
  BY <1>1 DEF Reported, SupInv, ProcsTyped, Codes
<1>3. /\ barred \subseteq barred' /\ barred' \subseteq Procs
      /\ c = "AUTH_FAIL" => w \in barred'
  BY <1>1 DEF Reported, SupInv, LoopTyped
<1>4. CASE Progress(w)
  <2>1. PICK d \in {lastCode[w], "AUTH_FAIL"} :
          Reported(w, d) /\ pipe' = [pipe EXCEPT ![w] = Metric("running", d)]
    BY <1>4 DEF Progress
  <2>2. d = c
    BY <1>2, <2>1 DEF Reported, SupInv, ProcsTyped
  <2>3. pipe' = [pipe EXCEPT ![w] = Metric("running", c)]
    BY <2>1, <2>2
  <2>4. phase[w] = "up" /\ UNCHANGED phase /\ UNCHANGED Books
    BY <1>4 DEF Progress, Books
  <2>5. phase' = [phase EXCEPT ![w] = "up"]
    BY <2>4 DEF SupInv, ProcsTyped
  <2>6. Metric("running", c) \in Metrics /\ (Metric("running", c) = "forbidden" => w \in barred')
    BY <1>2, <1>3, MetricsOfCodes DEF Metrics
  <2> QED BY <1>2, <1>3, <2>3, <2>4, <2>5, <2>6, ProcessStep
<1>5. CASE Verdict(w)
  <2>1. /\ pipe' = [pipe EXCEPT ![w] = Metric("draining", c)]
        /\ phase' = [phase EXCEPT ![w] = "draining"] /\ UNCHANGED Books
    BY <1>2, <1>5 DEF Verdict, Draining, Books
  <2>2. Metric("draining", c) \in Metrics /\ (Metric("draining", c) = "forbidden" => w \in barred')
    BY <1>2, <1>3, MetricsOfCodes DEF Metrics
  <2> QED BY <1>2, <1>3, <2>1, <2>2, ProcessStep
<1> QED BY <1>4, <1>5

\* The last words repeat the last error, or end the process.
LEMMA EndStep ==
  ASSUME SupInv, NEW w \in Procs, Heed(w) \/ StartFails(w) \/ LastWords(w) \/ Killed(w)
  PROVE  SupInv'
<1> DEFINE c == lastCode[w]
<1>1. c \in Codes /\ lastCode' = [lastCode EXCEPT ![w] = c] /\ UNCHANGED barred /\ UNCHANGED Books
  BY DEF Heed, StartFails, LastWords, Killed, Draining, Books, SupInv, ProcsTyped
<1>2. barred \subseteq barred' /\ barred' \subseteq Procs /\ (c = "AUTH_FAIL" => w \in barred')
  BY <1>1 DEF SupInv, LoopTyped, ErrorsAreBarred
<1> HIDE DEF c
<1>3. PICK p \in {"up", "draining", "failing", "dead"} : phase' = [phase EXCEPT ![w] = p]
  BY DEF Heed, StartFails, LastWords, Killed, Draining
<1>4. \E m \in Metrics \union {Silent} :
        pipe' = [pipe EXCEPT ![w] = m] /\ (m = "forbidden" => w \in barred')
  <2>1. CASE Heed(w) \/ StartFails(w)
    <3>1. pipe' = [pipe EXCEPT ![w] = Metric("draining", c)]
      BY <1>1, <2>1 DEF Heed, StartFails, Draining, c
    <3>2. Metric("draining", c) \in Metrics /\ (Metric("draining", c) = "forbidden" => w \in barred')
      BY <1>1, <1>2, MetricsOfCodes DEF Metrics
    <3> QED BY <3>1, <3>2
  <2>2. CASE LastWords(w)
    BY <2>2, EndMetrics DEF LastWords, Metrics
  <2>3. CASE Killed(w)
    <3>1. pipe[w] \in Metrics \union {Silent} /\ (pipe[w] = "forbidden" => w \in barred)
      BY DEF SupInv, ProcsTyped, ErrorsAreBarred
    <3>2. Silent # "forbidden"
      BY DEF Silent
    <3> QED BY <1>1, <2>3, <3>1, <3>2 DEF Killed
  <2> QED BY <2>1, <2>2, <2>3
<1>5. PICK m \in Metrics \union {Silent} :
        pipe' = [pipe EXCEPT ![w] = m] /\ (m = "forbidden" => w \in barred')
  BY <1>4
<1> QED BY <1>1, <1>2, <1>3, <1>5, ProcessStep

LEMMA DrainStep == ASSUME SupInv, Drain PROVE SupInv'
<1>1. /\ sup = "drain" /\ sup' = "check"
      /\ UNCHANGED <<lastCode, phase, spawns, backoff, exhausted, stopAsked, barred>>
  BY DEF Drain
<1>2. /\ heard' = [w \in Procs |-> IF pipe[w] = Silent THEN heard[w] ELSE pipe[w]]
      /\ pipe' = [w \in Procs |-> Silent]
  BY DEF Drain
<1>3. ProcsTyped'
  BY <1>1, <1>2 DEF SupInv, ProcsTyped
<1>4. LoopTyped' /\ GivenUpRightly' /\ EndsWhenOver'
  BY <1>1 DEF SupInv, LoopTyped, GivenUpRightly, EndsWhenOver
<1>5. ErrorsAreBarred'
  BY <1>1, <1>2 DEF SupInv, ErrorsAreBarred, Silent
<1> QED BY <1>3, <1>4, <1>5 DEF SupInv

LEMMA CheckStep == ASSUME SupInv, Check PROVE SupInv'
<1> USE DEF SupInv
<1>1. /\ sup' = "pass" /\ UNCHANGED <<pipe, heard, stopAsked, barred>>
      /\ exhausted' = exhausted \union {w \in Procs : ~Spared(w) /\ GivenUp(w)}
      /\ phase' = [w \in Procs |-> IF w \in Restarted THEN "up" ELSE phase[w]]
      /\ lastCode' = [w \in Procs |-> IF w \in Restarted THEN "NONE" ELSE lastCode[w]]
      /\ spawns' = [w \in Procs |-> IF w \in Restarted THEN spawns[w] + 1 ELSE spawns[w]]
      /\ backoff' = [w \in Procs |-> w \in Restarted \/ backoff[w]]
  BY DEF Check
<1>2. ProcsTyped'
  BY <1>1 DEF ProcsTyped, Codes
<1>3. \A w \in Restarted : spawns[w] < ProcBudget /\ w \notin exhausted
  BY SupervisorAssumption DEF Restarted, GivenUp, Spared, LoopTyped
<1>4. spawns' \in [Procs -> 0 .. ProcBudget]
  BY <1>1, <1>3, SupervisorAssumption DEF LoopTyped
<1>5. LoopTyped'
  BY <1>1, <1>4 DEF LoopTyped
<1>6. ErrorsAreBarred'
  BY <1>1 DEF ErrorsAreBarred
<1>7. ASSUME NEW w \in exhausted' PROVE w \in barred' \/ spawns'[w] = ProcBudget
  <2>1. CASE w \in exhausted
    BY <1>1, <1>3, <2>1 DEF GivenUpRightly, LoopTyped
  <2>2. CASE w \notin exhausted
    <3>1. w \in Procs /\ GivenUp(w) /\ w \notin Restarted
      BY <1>1, <1>7, <2>2 DEF Restarted
    <3>2. heard[w] = "forbidden" \/ spawns[w] = ProcBudget
      BY <3>1, SupervisorAssumption DEF GivenUp, Restartable, LoopTyped
    <3> QED BY <1>1, <3>1, <3>2 DEF ErrorsAreBarred
  <2> QED BY <2>1, <2>2
<1>8. GivenUpRightly' /\ EndsWhenOver'
  BY <1>1, <1>7 DEF GivenUpRightly, EndsWhenOver
<1> QED BY <1>2, <1>5, <1>6, <1>8

LEMMA PassStep == ASSUME SupInv, Pass PROVE SupInv'
<1> USE DEF SupInv
<1>1. /\ UNCHANGED <<lastCode, phase, pipe, heard, spawns, backoff, exhausted, stopAsked, barred>>
      /\ sup' \in {"grace", "drain"} /\ (sup' = "grace" => AllOver)
  BY DEF Pass
<1>2. ProcsTyped' /\ LoopTyped' /\ ErrorsAreBarred' /\ GivenUpRightly'
  BY <1>1 DEF ProcsTyped, LoopTyped, ErrorsAreBarred, GivenUpRightly
<1>3. EndsWhenOver'
  BY <1>1 DEF EndsWhenOver, AllOver, GivenUpRightly
<1> QED BY <1>2, <1>3

\* The end, a signal and the passing of a backoff.
LEMMA OtherStep ==
  ASSUME SupInv, \/ Signal \/ Break \/ ShutDown \/ (\E w \in Procs : BackoffEnds(w))
                 \/ UNCHANGED supVars
  PROVE  SupInv'
<1> USE DEF SupInv
<1>1. UNCHANGED <<lastCode, pipe, heard, spawns, exhausted, barred>>
  BY DEF Signal, Break, ShutDown, BackoffEnds, supVars
<1>2. phase' \in [Procs -> {"up", "draining", "failing", "dead"}]
  BY DEF Signal, Break, ShutDown, Shutdown, BackoffEnds, supVars, ProcsTyped
<1>3. backoff' \in [Procs -> BOOLEAN] /\ stopAsked' \in BOOLEAN
      /\ sup' \in {"drain", "check", "pass", "grace", "terminate", "ended"}
  BY DEF Signal, Break, ShutDown, Shutdown, BackoffEnds, supVars, LoopTyped
<1>4. ProcsTyped' /\ LoopTyped' /\ ErrorsAreBarred' /\ GivenUpRightly'
  BY <1>1, <1>2, <1>3 DEF ProcsTyped, LoopTyped, ErrorsAreBarred, GivenUpRightly
<1>5. sup' \in {"grace", "terminate", "ended"} /\ ~stopAsked' =>
        sup \in {"grace", "terminate", "ended"} /\ ~stopAsked
  BY DEF Signal, Break, ShutDown, Shutdown, BackoffEnds, supVars, LoopTyped
<1>6. EndsWhenOver'
  BY <1>1, <1>5 DEF EndsWhenOver
<1> QED BY <1>4, <1>6

LEMMA SupStepInv == ASSUME SupInv, [SupNext]_supVars PROVE SupInv'
BY ReportStep, EndStep, DrainStep, CheckStep, PassStep, OtherStep DEF SupNext, SupStep, Ends

LEMMA SupInvariant == SupSpec => []SupInv
<1>1. SupInit => SupInv
  BY SupInitInv
<1>2. SupInv /\ [SupNext]_supVars => SupInv'
  BY SupStepInv
<1> QED BY <1>1, <1>2, PTL DEF SupSpec

\* The supervisor's books keep their types; above all, no worker is started again more
\* often than ProcBudget allows (run_supervisor: spawns).
THEOREM SupervisorTypeCorrect == SupSpec => []SupTypeOK
<1>1. SupInv => SupTypeOK
  BY DEF SupInv, ProcsTyped, LoopTyped, SupTypeOK
<1> QED BY <1>1, SupInvariant, PTL

\* The supervisor ends by itself only when each worker has reported its end, has used its
\* restarts, or once reported an error that forbids another (run_supervisor).
THEOREM SupervisorEndsRightly == SupSpec => []EndsWhenOver
<1>1. SupInv => EndsWhenOver
  BY DEF SupInv
<1> QED BY <1>1, SupInvariant, PTL

-----------------------------------------------------------------------------
(* The store: a quote is written once, and the latest stays the latest.    *)

-----------------------------------------------------------------------------
(* Quotes: the largest of some times, and the quotes of a dict             *)

LEMMA MaxOfTimes ==
  ASSUME NEW N \in Nat, NEW T \in SUBSET (0 .. N), T # {}
  PROVE  Max(T) \in T /\ \A y \in T : Max(T) >= y
<1> DEFINE U == {N - x : x \in T}
<1>1. \A x \in T : x \in Nat /\ N - x \in Nat
  OBVIOUS
<1>2. U \in SUBSET Nat /\ U # {}
  BY <1>1
<1>3. PICK u \in U : \A v \in U : ~ (<<v, u>> \in OpToRel(<, Nat))
  BY <1>2, NatLessThanWellFounded, WFMin
<1>4. PICK x \in T : u = N - x
  OBVIOUS
<1>5. \A y \in T : x >= y
  <2> SUFFICES ASSUME NEW y \in T PROVE ~(N - y < N - x)
    BY <1>1
  <2>1. N - y \in U /\ N - y \in Nat /\ N - x \in Nat
    BY <1>1
  <2> QED
    BY <1>3, <1>4, <2>1 DEF OpToRel
<1> QED
  BY <1>5 DEF Max

LEMMA SetToSeqLists ==
  ASSUME NEW S, IsFiniteSet(S)
  PROVE  /\ SetToSeq(S) \in Seq(S)
         /\ Len(SetToSeq(S)) = Cardinality(S)
         /\ \A i, j \in DOMAIN SetToSeq(S) : SetToSeq(S)[i] = SetToSeq(S)[j] => i = j
<1> DEFINE n == Cardinality(S)
<1>1. n \in Nat /\ ExistsBijection(1 .. n, S)
  BY FS_CardinalityType
<1>2. \E f \in [1 .. n -> S] : IsInjective(f)
  BY <1>1 DEF ExistsBijection, Bijection, Injection, IsInjective
<1>3. SetToSeq(S) \in [1 .. n -> S] /\ IsInjective(SetToSeq(S))
  BY <1>2 DEF SetToSeq
<1>4. SetToSeq(S) \in Seq(S) /\ Len(SetToSeq(S)) = n
  BY <1>1, <1>3, SeqDef
<1> QED
  BY <1>3, <1>4 DEF IsInjective

Maps == [Keys -> 0 .. MaxTs]

LEMMA OfSize ==
  ASSUME NEW map \in Maps, NEW ks \in SUBSET Keys, \A k \in Keys : map[k] # 0 => k \in ks
  PROVE  Of(map) \subseteq Quotes /\ IsFiniteSet(Of(map)) /\ Cardinality(Of(map)) <= Cardinality(ks)
<1> DEFINE J == {j \in Keys : map[j] # 0}
           f == [k \in J |-> [key |-> k, ts |-> map[k]]]
<1>1. J \subseteq ks /\ IsFiniteSet(ks) /\ IsFiniteSet(J) /\ Cardinality(J) <= Cardinality(ks)
  BY QuoteStoreAssumption, FS_Subset
<1>2. Of(map) = {f[k] : k \in J}
  <2>1. Of(map) = {[key |-> k, ts |-> map[k]] : k \in J}
    BY DEF Of
  <2>2. \A k \in J : f[k] = [key |-> k, ts |-> map[k]]
    OBVIOUS
  <2> QED
    BY <2>1, <2>2
<1>3. IsFiniteSet(Of(map)) /\ Cardinality(Of(map)) <= Cardinality(J)
  <2>1. f \in Surjection(J, Of(map))
    BY <1>2 DEF Surjection
  <2> QED
    BY <1>1, <2>1, FS_Surjection
<1>4. Of(map) \subseteq Quotes
  BY QuoteStoreAssumption DEF Of, Quotes, Maps
<1> QED
  BY <1>1, <1>3, <1>4, FS_CardinalityType

(* The sequence a dict's values make. *)
LEMMA ValuesLists ==
  ASSUME NEW map \in Maps, NEW ks \in SUBSET Keys, \A k \in Keys : map[k] # 0 => k \in ks
  PROVE  /\ Values(map) \in Seq(Quotes)
         /\ Len(Values(map)) <= Cardinality(ks)
         /\ \A i, j \in DOMAIN Values(map) : Values(map)[i] = Values(map)[j] => i = j
         /\ \A i \in DOMAIN Values(map) : map[Values(map)[i].key] = Values(map)[i].ts
<1>1. /\ Values(map) \in Seq(Of(map)) /\ Len(Values(map)) = Cardinality(Of(map))
      /\ \A i, j \in DOMAIN Values(map) : Values(map)[i] = Values(map)[j] => i = j
  BY OfSize, SetToSeqLists DEF Values
<1>2. \A q \in Of(map) : map[q.key] = q.ts
  BY DEF Of
<1>3. \A i \in DOMAIN Values(map) : Values(map)[i] \in Of(map)
  BY <1>1, ElementOfSeq, LenProperties
<1> QED
  BY <1>1, <1>2, <1>3, OfSize, SeqMonotonic

(* What a dict is overlaid with. *)
LEMMA OverlaidKeys ==
  ASSUME NEW map \in Maps, NEW qs \in Seq(Quotes)
  PROVE  /\ Overlaid(map, qs) \in Maps
         /\ \A k \in Keys :
              \/ Overlaid(map, qs)[k] = map[k]
              \/ \E i \in DOMAIN qs : qs[i] = [key |-> k, ts |-> Overlaid(map, qs)[k]]
<1> SUFFICES ASSUME NEW k \in Keys
             PROVE  /\ Overlaid(map, qs)[k] \in 0 .. MaxTs
                    /\ \/ Overlaid(map, qs)[k] = map[k]
                       \/ \E i \in DOMAIN qs : qs[i] = [key |-> k, ts |-> Overlaid(map, qs)[k]]
  BY DEF Overlaid, Maps
<1>1. Overlaid(map, qs)[k] = IF QuotesOf(qs, k) = {} THEN map[k] ELSE qs[Max(QuotesOf(qs, k))].ts
  BY DEF Overlaid
<1>2. CASE QuotesOf(qs, k) = {}
  BY <1>1, <1>2 DEF Maps
<1>3. CASE QuotesOf(qs, k) # {}
  <2> DEFINE i == Max(QuotesOf(qs, k))
  <2>1. Len(qs) \in Nat /\ DOMAIN qs = 1 .. Len(qs)
    BY LenProperties
  <2>2. QuotesOf(qs, k) \in SUBSET (0 .. Len(qs))
    BY <2>1 DEF QuotesOf
  <2>3. i \in QuotesOf(qs, k)
    BY <1>3, <2>1, <2>2, MaxOfTimes
  <2>4. i \in DOMAIN qs /\ qs[i].key = k /\ qs[i] \in Quotes
    BY <2>1, <2>3, ElementOfSeq DEF QuotesOf
  <2>5. qs[i] = [key |-> k, ts |-> qs[i].ts] /\ qs[i].ts \in 0 .. MaxTs
    BY <2>4 DEF Quotes
  <2> QED
    BY <1>1, <1>3, <2>4, <2>5
<1> QED
  BY <1>2, <1>3

(* The upsert of write_quotes puts nothing older over what is there. *)
LEMMA UpsertedGrows ==
  ASSUME NEW map \in Maps, NEW qs \in Seq(Quotes)
  PROVE  Upserted(map, qs) \in Maps /\ \A k \in Keys : Upserted(map, qs)[k] >= map[k]
<1> SUFFICES ASSUME NEW k \in Keys
             PROVE  Upserted(map, qs)[k] \in 0 .. MaxTs /\ Upserted(map, qs)[k] >= map[k]
  BY DEF Upserted, Maps
<1> DEFINE T == {map[k]} \union {qs[i].ts : i \in QuotesOf(qs, k)}
<1>1. \A i \in QuotesOf(qs, k) : qs[i].ts \in 0 .. MaxTs
  <2> SUFFICES ASSUME NEW i \in QuotesOf(qs, k) PROVE qs[i].ts \in 0 .. MaxTs
    OBVIOUS
  <2>1. qs[i] \in Quotes
    BY ElementOfSeq, LenProperties DEF QuotesOf
  <2> QED
    BY <2>1, QuoteStoreAssumption DEF Quotes
<1>2. T \in SUBSET (0 .. MaxTs) /\ T # {} /\ map[k] \in T
  BY <1>1 DEF Maps
<1>3. Max(T) \in T /\ Max(T) >= map[k]
  BY <1>2, MaxOfTimes, QuoteStoreAssumption
<1> QED
  BY <1>2, <1>3 DEF Upserted

-----------------------------------------------------------------------------
(* Types                                                                   *)

Tasks == [kind : {"quotes", "stats", "compact", "end"}, payload : Seq(Quotes)]
Jobs1 == [kind : {"idle", "quotes", "flush", "stats", "compact", "end"},
          payload : Seq(Quotes), done : Nat, tries : Nat]
ReceivingTyped ==
  /\ made \in Maps /\ coalesced \in Maps
  /\ quoteQ \in Seq(Quotes) /\ batch \in Seq(Quotes) /\ Len(batch) <= BatchLimit
BrokerTyped ==
  /\ tasks \in [Priorities -> Seq(Tasks)] /\ held \in Maps
  /\ running \in Jobs1 /\ running.done <= Len(running.payload)
TablesTyped1 ==
  /\ raw \in [Keys -> [1 .. MaxTs -> Nat]] /\ latest \in Maps
StoreTyped == ReceivingTyped /\ BrokerTyped /\ TablesTyped1 /\ stopping \in BOOLEAN

LEMMA StoreInitTyped == StoreInit => StoreTyped
<1> SUFFICES ASSUME StoreInit PROVE StoreTyped
  OBVIOUS
<1>1. NoQuote \in Maps /\ <<>> \in Seq(Quotes) /\ <<>> \in Seq(Tasks) /\ Len(<<>>) = 0
  BY QuoteStoreAssumption, EmptySeq DEF NoQuote, Maps
<1>2. ReceivingTyped
  BY <1>1, QuoteStoreAssumption DEF StoreInit, ReceivingTyped
<1>3. BrokerTyped
  BY <1>1 DEF StoreInit, BrokerTyped, Idle, Jobs1
<1>4. TablesTyped1
  BY <1>1 DEF StoreInit, TablesTyped1
<1> QED
  BY <1>2, <1>3, <1>4 DEF StoreInit, StoreTyped

LEMMA PutTyped ==
  ASSUME BrokerTyped, NEW p \in Priorities, NEW t \in Tasks
  PROVE  Put(p, t) \in [Priorities -> Seq(Tasks)]
BY AppendProperties DEF Put, BrokerTyped

LEMMA SubmitTyped ==
  ASSUME BrokerTyped, NEW qs \in Seq(Quotes), Submit(qs), running' = running
  PROVE  BrokerTyped'
<1>1. Task("quotes", qs) \in Tasks /\ 1 \in Priorities
  BY DEF Task, Tasks, Priorities
<1>2. Put(1, Task("quotes", qs)) \in [Priorities -> Seq(Tasks)]
  BY <1>1, PutTyped
<1>3. Overlaid(held, qs) \in Maps
  BY OverlaidKeys DEF BrokerTyped
<1> QED
  BY <1>2, <1>3 DEF Submit, BrokerTyped

LEMMA OnQuoteTyped == ASSUME StoreTyped, NEW k \in Keys, OnQuote(k) PROVE StoreTyped'
<1> DEFINE q == [key |-> k, ts |-> made[k] + 1]
<1>1. q \in Quotes
  BY QuoteStoreAssumption DEF OnQuote, StoreTyped, ReceivingTyped, Maps, Quotes
<1>2. made' \in Maps
  BY QuoteStoreAssumption DEF OnQuote, StoreTyped, ReceivingTyped, Maps
<1>3. coalesced' \in Maps
  <2>1. coalesced' \in {coalesced, [coalesced EXCEPT ![k] = made[k] + 1]}
    BY DEF OnQuote, Coalesce
  <2>2. made[k] + 1 \in 0 .. MaxTs
    BY <1>1, QuoteStoreAssumption DEF Quotes
  <2> QED
    BY <2>1, <2>2 DEF StoreTyped, ReceivingTyped, Maps
<1>4. quoteQ' \in Seq(Quotes)
  BY <1>1, AppendProperties DEF OnQuote, StoreTyped, ReceivingTyped
<1> QED
  BY <1>2, <1>3, <1>4 DEF OnQuote, StoreTyped, ReceivingTyped, BrokerTyped, TablesTyped1

LEMMA CollectTyped == ASSUME StoreTyped, Collect PROVE StoreTyped'
<1>1. Head(quoteQ) \in Quotes /\ Tail(quoteQ) \in Seq(Quotes)
  BY HeadTailProperties DEF Collect, StoreTyped, ReceivingTyped
<1>2. batch' \in Seq(Quotes) /\ Len(batch') <= BatchLimit
  BY <1>1, AppendProperties, LenProperties, QuoteStoreAssumption
  DEF Collect, StoreTyped, ReceivingTyped
<1> QED
  BY <1>1, <1>2 DEF Collect, StoreTyped, ReceivingTyped, BrokerTyped, TablesTyped1

(* What the writer loop fills a batch with. *)
Filler(ks) == [k \in Keys |-> IF k \in ks THEN coalesced[k] ELSE 0]
LEMMA FillTyped ==
  ASSUME StoreTyped, NEW ks \in SUBSET Keys
  PROVE  /\ Filler(ks) \in Maps
         /\ \A k \in Keys : Filler(ks)[k] # 0 => k \in ks
         /\ Fill(ks) = batch \o Values(Filler(ks)) /\ Fill(ks) \in Seq(Quotes)
<1>1. Filler(ks) \in Maps /\ \A k \in Keys : Filler(ks)[k] # 0 => k \in ks
  BY QuoteStoreAssumption DEF Filler, StoreTyped, ReceivingTyped, Maps
<1>2. Values(Filler(ks)) \in Seq(Quotes)
  BY <1>1, ValuesLists
<1> QED
  BY <1>1, <1>2, ConcatProperties DEF Fill, Filler, StoreTyped, ReceivingTyped

LEMMA FlushBatchTyped == ASSUME StoreTyped, FlushBatch PROVE StoreTyped'
<1>1. PICK ks \in SUBSET Keys :
        /\ Submit(Fill(ks))
        /\ coalesced' = [k \in Keys |-> IF k \in ks THEN 0 ELSE coalesced[k]]
  BY DEF FlushBatch
<1>2. BrokerTyped'
  BY <1>1, FillTyped, SubmitTyped DEF FlushBatch, StoreTyped
<1>3. coalesced' \in Maps
  BY <1>1, QuoteStoreAssumption DEF StoreTyped, ReceivingTyped, Maps
<1>4. batch' \in Seq(Quotes) /\ Len(batch') <= BatchLimit
  BY EmptySeq, QuoteStoreAssumption DEF FlushBatch
<1> QED
  BY <1>2, <1>3, <1>4 DEF FlushBatch, StoreTyped, ReceivingTyped, TablesTyped1

LEMMA SubmitTaskTyped ==
  ASSUME StoreTyped, SubmitStats \/ SubmitCompaction
  PROVE  StoreTyped'
<1>1. /\ Task("stats", <<>>) \in Tasks /\ Task("compact", <<>>) \in Tasks
      /\ 2 \in Priorities /\ 3 \in Priorities
  BY EmptySeq DEF Task, Tasks, Priorities
<1>2. /\ Put(2, Task("stats", <<>>)) \in [Priorities -> Seq(Tasks)]
      /\ Put(3, Task("compact", <<>>)) \in [Priorities -> Seq(Tasks)]
  BY <1>1, PutTyped DEF StoreTyped
<1>3. tasks' \in [Priorities -> Seq(Tasks)]
  BY <1>2 DEF SubmitStats, SubmitCompaction, StoreTyped, BrokerTyped
<1> QED
  BY <1>3
  DEF SubmitStats, SubmitCompaction, StoreTyped, ReceivingTyped, BrokerTyped, TablesTyped1

LEMMA TakeTyped == ASSUME StoreTyped, Take PROVE StoreTyped'
<1>1. PICK p \in Priorities :
        /\ tasks[p] # <<>>
        /\ running' = [kind |-> Head(tasks[p]).kind, payload |-> Head(tasks[p]).payload,
                       done |-> 0, tries |-> 0]
        /\ tasks' = [tasks EXCEPT ![p] = Tail(@)]
  BY DEF Take
<1>2. Head(tasks[p]) \in Tasks /\ Tail(tasks[p]) \in Seq(Tasks)
  BY <1>1, HeadTailProperties DEF StoreTyped, BrokerTyped
<1>3. tasks' \in [Priorities -> Seq(Tasks)]
  BY <1>1, <1>2 DEF StoreTyped, BrokerTyped
<1>4. running' \in Jobs1 /\ running'.done = 0
  BY <1>1, <1>2 DEF Tasks, Jobs1
<1>5. running'.done <= Len(running'.payload)
  BY <1>4, LenProperties DEF Jobs1
<1> QED
  BY <1>3, <1>4, <1>5 DEF Take, StoreTyped, ReceivingTyped, BrokerTyped, TablesTyped1

LEMMA TakeHeldTyped == ASSUME StoreTyped, TakeHeld PROVE StoreTyped'
<1>1. Values(held) \in Seq(Quotes) /\ NoQuote \in Maps
  <2>1. NoQuote \in Maps
    BY QuoteStoreAssumption DEF NoQuote, Maps
  <2>2. held \in Maps
    BY DEF StoreTyped, BrokerTyped
  <2> QED
    BY <2>1, <2>2, ValuesLists
<1>2. running' \in Jobs1 /\ running'.done = 0
  BY <1>1 DEF TakeHeld, Jobs1
<1>3. running'.done <= Len(running'.payload)
  BY <1>2, LenProperties DEF Jobs1
<1> QED
  BY <1>1, <1>2, <1>3 DEF TakeHeld, StoreTyped, ReceivingTyped, BrokerTyped, TablesTyped1

LEMMA ChunkTyped ==
  ASSUME StoreTyped
  PROVE  /\ ChunkEnd \in Nat /\ ChunkEnd <= Len(running.payload) /\ ChunkEnd >= running.done
         /\ ChunkEnd <= running.done + ChunkSize
         /\ Chunk \in Seq(Quotes) /\ Len(Chunk) = ChunkEnd - running.done
         /\ \A i \in 1 .. (ChunkEnd - running.done) : Chunk[i] = running.payload[running.done + i]
<1>1. /\ running.payload \in Seq(Quotes) /\ running.done \in Nat
      /\ running.done <= Len(running.payload) /\ Len(running.payload) \in Nat
  BY LenProperties DEF StoreTyped, BrokerTyped, Jobs1
<1>2. /\ ChunkEnd \in Nat /\ ChunkEnd <= Len(running.payload) /\ ChunkEnd >= running.done
      /\ ChunkEnd <= running.done + ChunkSize
  BY <1>1, QuoteStoreAssumption DEF ChunkEnd, Smaller
<1> HIDE DEF ChunkEnd
<1> QED
  BY <1>1, <1>2, SubSeqProperties DEF Chunk

LEMMA CopiesCounted ==
  ASSUME NEW qs \in Seq(Quotes), NEW k, NEW t
  PROVE  IsFiniteSet(Copies(qs, k, t)) /\ Cardinality(Copies(qs, k, t)) \in Nat
<1>1. IsFiniteSet(1 .. Len(qs))
  BY LenProperties, FS_Interval
<1>2. Copies(qs, k, t) \subseteq 1 .. Len(qs)
  BY LenProperties DEF Copies, QuotesOf
<1> QED
  BY <1>1, <1>2, FS_Subset, FS_CardinalityType

LEMMA InsertedTyped ==
  ASSUME NEW table \in [Keys -> [1 .. MaxTs -> Nat]], NEW qs \in Seq(Quotes)
  PROVE  Inserted(table, qs) \in [Keys -> [1 .. MaxTs -> Nat]]
<1> SUFFICES ASSUME NEW k \in Keys, NEW t \in 1 .. MaxTs
             PROVE  table[k][t] + Cardinality(Copies(qs, k, t)) \in Nat
  BY DEF Inserted
<1>1. table[k][t] \in Nat
  OBVIOUS
<1> QED
  BY <1>1, CopiesCounted

LEMMA WriteChunkTyped == ASSUME StoreTyped, WriteChunk PROVE StoreTyped'
<1>1. latest' \in Maps
  BY ChunkTyped, UpsertedGrows DEF WriteChunk, StoreTyped, TablesTyped1
<1>2. raw' \in [Keys -> [1 .. MaxTs -> Nat]]
  BY ChunkTyped, InsertedTyped DEF WriteChunk, StoreTyped, TablesTyped1
<1>3. running' \in Jobs1 /\ running'.done <= Len(running'.payload)
  BY ChunkTyped DEF WriteChunk, StoreTyped, BrokerTyped, Jobs1
<1> QED
  BY <1>1, <1>2, <1>3 DEF WriteChunk, StoreTyped, ReceivingTyped, BrokerTyped, TablesTyped1

LEMMA IdleTyped == Idle \in Jobs1 /\ Idle.done <= Len(Idle.payload)
BY EmptySeq DEF Idle, Jobs1

LEMMA TaskEndTyped == ASSUME StoreTyped, Finish \/ GiveUp \/ Stopped PROVE StoreTyped'
BY IdleTyped
DEF Finish, GiveUp, Stopped, StoreTyped, ReceivingTyped, BrokerTyped, TablesTyped1

LEMMA LockedTyped == ASSUME StoreTyped, Locked PROVE StoreTyped'
<1>1. running' \in Jobs1 /\ running'.done <= Len(running'.payload)
  <2>1. /\ running \in Jobs1 /\ running.tries + 1 \in Nat
        /\ Len(running.payload) \in Nat
    <3>1. running \in Jobs1
      BY DEF StoreTyped, BrokerTyped
    <3>2. running.tries \in Nat /\ running.payload \in Seq(Quotes)
      BY <3>1 DEF Jobs1
    <3> QED
      BY <3>1, <3>2, LenProperties
  <2>2. running' = [running EXCEPT !.done = 0, !.tries = running.tries + 1]
    BY DEF Locked, FromTheStart
  <2>3. /\ running'.kind = running.kind /\ running'.payload = running.payload
        /\ running'.done = 0 /\ running'.tries = running.tries + 1
        /\ DOMAIN running' = DOMAIN running
    BY <2>1, <2>2 DEF Jobs1
  <2>4. running' \in Jobs1
    BY <2>1, <2>2, <2>3 DEF Jobs1
  <2> QED
    BY <2>1, <2>3, <2>4
<1> QED
  BY <1>1 DEF Locked, StoreTyped, ReceivingTyped, BrokerTyped, TablesTyped1

LEMMA StopTyped == ASSUME StoreTyped, Stop PROVE StoreTyped'
<1> DEFINE n == Smaller(FlushLimit, Len(quoteQ))
<1>1. Len(quoteQ) \in Nat /\ n \in Nat /\ n <= Len(quoteQ)
  BY LenProperties, QuoteStoreAssumption DEF Smaller, FlushLimit, StoreTyped, ReceivingTyped
<1> HIDE DEF n
<1>2. SubSeq(quoteQ, 1, n) \in Seq(Quotes) /\ SubSeq(quoteQ, n + 1, Len(quoteQ)) \in Seq(Quotes)
  BY <1>1, SubSeqProperties DEF StoreTyped, ReceivingTyped
<1>3. Rest \in Seq(Quotes)
  BY <1>2, ValuesLists, ConcatProperties DEF Rest, n, StoreTyped, ReceivingTyped
<1>4. ReceivingTyped'
  BY <1>2, EmptySeq, QuoteStoreAssumption
  DEF Stop, n, StoreTyped, ReceivingTyped, NoQuote, Maps
<1>5. Task("end", <<>>) \in Tasks /\ Task("quotes", Rest) \in Tasks /\ 3 \in Priorities
  BY <1>3, EmptySeq DEF Task, Tasks, Priorities
<1>6. Put(3, Task("end", <<>>)) \in [Priorities -> Seq(Tasks)]
  BY <1>5, PutTyped DEF StoreTyped
<1>7. [Put(3, Task("end", <<>>)) EXCEPT
         ![1] = IF Rest = <<>> THEN @ ELSE Append(@, Task("quotes", Rest))]
         \in [Priorities -> Seq(Tasks)]
  BY <1>5, <1>6, AppendProperties DEF Priorities
<1>8. Overlaid(held, Rest) \in Maps
  BY <1>3, OverlaidKeys DEF StoreTyped, BrokerTyped
<1>9. BrokerTyped'
  BY <1>6, <1>7, <1>8 DEF Stop, StoreTyped, BrokerTyped
<1> QED
  BY <1>4, <1>9 DEF Stop, StoreTyped, TablesTyped1

LEMMA StoreNextTyped == StoreTyped /\ [StoreNext]_storeVars => StoreTyped'
<1> SUFFICES ASSUME StoreTyped, [StoreNext]_storeVars PROVE StoreTyped'
  OBVIOUS
<1>1. CASE UNCHANGED storeVars
  BY <1>1 DEF storeVars, StoreTyped, ReceivingTyped, BrokerTyped, TablesTyped1
<1>2. CASE StoreNext
  BY <1>2, OnQuoteTyped, CollectTyped, FlushBatchTyped, SubmitTaskTyped, TakeTyped,
     TakeHeldTyped, WriteChunkTyped, TaskEndTyped, LockedTyped, StopTyped
  DEF StoreNext, Writer, Broker
<1> QED
  BY <1>1, <1>2

LEMMA StoreTypeCorrect == StoreSpec => []StoreTyped
BY StoreInitTyped, StoreNextTyped, PTL DEF StoreSpec

(* latest_quote never goes back, for all orders in which quotes reach it. *)
THEOREM LatestStaysLatest == StoreSpec => LatestNeverGoesBack
<1>1. ASSUME StoreTyped, [StoreNext]_storeVars
      PROVE  [\A k \in Keys : latest'[k] >= latest[k]]_latest
  <2>1. CASE WriteChunk
    BY <1>1, <2>1, ChunkTyped, UpsertedGrows DEF WriteChunk, StoreTyped, TablesTyped1
  <2>2. CASE ~WriteChunk
    BY <1>1, <2>2
    DEF StoreNext, Writer, Broker, OnQuote, Collect, FlushBatch, SubmitStats,
        SubmitCompaction, Take, TakeHeld, Finish, Locked, GiveUp, Stop, Stopped, storeVars
  <2> QED
    BY <2>1, <2>2
<1> QED
  BY StoreTypeCorrect, <1>1, PTL DEF StoreSpec, LatestNeverGoesBack

-----------------------------------------------------------------------------
(* No quote is written twice                                               *)

(* The places a quote can be in.  A task the broker runs has it from the    *)
(* part that is not committed on.                                           *)
In(s, q) == \E i \in DOMAIN s : s[i] = q
InQueue(q) == In(quoteQ, q)
InBatch(q) == In(batch, q)
InTasks(q) == \E n \in DOMAIN tasks[1] : In(tasks[1][n].payload, q)
InRun(q) == \E i \in DOMAIN running.payload : i > running.done /\ running.payload[i] = q
InDict(map, q) == map[q.key] = q.ts
InTable(q) == raw[q.key][q.ts] > 0

Places == {"queue", "coalesced", "batch", "tasks", "held", "run", "raw"}
Holds(c, q) ==
  \/ c = "queue" /\ InQueue(q)
  \/ c = "coalesced" /\ InDict(coalesced, q)
  \/ c = "batch" /\ InBatch(q)
  \/ c = "tasks" /\ InTasks(q)
  \/ c = "held" /\ InDict(held, q)
  \/ c = "run" /\ InRun(q)
  \/ c = "raw" /\ InTable(q)

(* A quote is in one place, and was received. *)
OnePlace == \A q \in Quotes : \A c, d \in Places : Holds(c, q) /\ Holds(d, q) => c = d
Received == \A q \in Quotes : \A c \in Places : Holds(c, q) => q.ts <= made[q.key]

(* It is there once. *)
Distinct(s) == \A i, j \in DOMAIN s : s[i] = s[j] => i = j
TasksDistinct ==
  \A m, n \in DOMAIN tasks[1] :
    \A i \in DOMAIN tasks[1][m].payload, j \in DOMAIN tasks[1][n].payload :
      tasks[1][m].payload[i] = tasks[1][n].payload[j] => m = n /\ i = j
OnceEach ==
  /\ Distinct(quoteQ) /\ Distinct(batch) /\ TasksDistinct /\ Distinct(running.payload)
  /\ \A k \in Keys, t \in 1 .. MaxTs : raw[k][t] <= 1

(* A task of quotes is one transaction. *)
OneChunk ==
  /\ \A n \in DOMAIN tasks[1] :
       tasks[1][n].kind = "quotes" /\ Len(tasks[1][n].payload) <= ChunkSize
  /\ \A p \in {2, 3} : \A n \in DOMAIN tasks[p] :
       tasks[p][n].kind # "quotes" /\ tasks[p][n].payload = <<>>
  /\ Len(running.payload) <= ChunkSize
  /\ running.done \in {0, Len(running.payload)}
  /\ ~Writes => running.payload = <<>>

StoredOnce == OnePlace /\ Received /\ OnceEach /\ OneChunk
StoreOnceInv == ~stopping => StoredOnce

(* Sequences whose elements differ. *)
LEMMA TailHolds ==
  ASSUME NEW S, NEW s \in Seq(S), s # <<>>, Distinct(s)
  PROVE  /\ Head(s) \in S /\ Tail(s) \in Seq(S) /\ Distinct(Tail(s))
         /\ In(s, Head(s)) /\ ~In(Tail(s), Head(s))
         /\ \A q : In(Tail(s), q) => In(s, q)
<1>1. /\ Len(s) \in Nat \ {0} /\ DOMAIN s = 1 .. Len(s) /\ Head(s) = s[1] /\ s[1] \in S
      /\ Tail(s) \in Seq(S) /\ Len(Tail(s)) = Len(s) - 1
      /\ \A i \in 1 .. Len(Tail(s)) : Tail(s)[i] = s[i + 1]
  BY HeadTailProperties, EmptySeq, LenProperties, ElementOfSeq
<1>2. DOMAIN Tail(s) = 1 .. Len(Tail(s))
  BY <1>1, LenProperties
<1>3. \A i \in DOMAIN Tail(s) : i + 1 \in DOMAIN s /\ Tail(s)[i] = s[i + 1] /\ i \in Nat /\ i + 1 # 1
  BY <1>1, <1>2
<1>4. 1 \in DOMAIN s
  BY <1>1
<1> QED
  BY <1>1, <1>3, <1>4 DEF In, Distinct

LEMMA AppendHolds ==
  ASSUME NEW S, NEW s \in Seq(S), NEW e \in S
  PROVE  /\ Append(s, e) \in Seq(S)
         /\ \A q : In(Append(s, e), q) => In(s, q) \/ q = e
         /\ Distinct(s) /\ ~In(s, e) => Distinct(Append(s, e))
<1>1. /\ Len(s) \in Nat /\ DOMAIN s = 1 .. Len(s)
      /\ Append(s, e) \in Seq(S) /\ Len(Append(s, e)) = Len(s) + 1
      /\ \A i \in 1 .. Len(s) : Append(s, e)[i] = s[i]
      /\ Append(s, e)[Len(s) + 1] = e
  BY AppendProperties, LenProperties
<1>2. DOMAIN Append(s, e) = 1 .. Len(s) + 1
  BY <1>1, LenProperties
<1>3. \A i \in DOMAIN Append(s, e) :
        \/ i \in DOMAIN s /\ Append(s, e)[i] = s[i]
        \/ i = Len(s) + 1 /\ Append(s, e)[i] = e
  BY <1>1, <1>2
<1> QED
  BY <1>1, <1>3 DEF In, Distinct

LEMMA ConcatHolds ==
  ASSUME NEW S, NEW s \in Seq(S), NEW t \in Seq(S)
  PROVE  /\ s \o t \in Seq(S) /\ Len(s \o t) = Len(s) + Len(t)
         /\ \A q : In(s \o t, q) => In(s, q) \/ In(t, q)
         /\ Distinct(s) /\ Distinct(t) /\ (\A q \in S : ~(In(s, q) /\ In(t, q)))
              => Distinct(s \o t)
<1>1. /\ Len(s) \in Nat /\ DOMAIN s = 1 .. Len(s) /\ Len(t) \in Nat /\ DOMAIN t = 1 .. Len(t)
      /\ s \o t \in Seq(S) /\ Len(s \o t) = Len(s) + Len(t)
      /\ \A i \in 1 .. Len(s \o t) : (s \o t)[i] = IF i <= Len(s) THEN s[i] ELSE t[i - Len(s)]
  BY ConcatProperties, LenProperties
<1>2. DOMAIN (s \o t) = 1 .. Len(s) + Len(t)
  BY <1>1, LenProperties
<1>3. \A i \in DOMAIN (s \o t) :
        \/ i \in DOMAIN s /\ (s \o t)[i] = s[i]
        \/ i - Len(s) \in DOMAIN t /\ i \in Nat /\ (s \o t)[i] = t[i - Len(s)]
  BY <1>1, <1>2
<1>4. \A q : In(s \o t, q) => In(s, q) \/ In(t, q)
  BY <1>3 DEF In
<1>5. ASSUME Distinct(s), Distinct(t), \A q \in S : ~(In(s, q) /\ In(t, q))
      PROVE  Distinct(s \o t)
  <2> SUFFICES ASSUME NEW i \in DOMAIN (s \o t), NEW j \in DOMAIN (s \o t),
                      (s \o t)[i] = (s \o t)[j]
               PROVE  i = j
    BY DEF Distinct
  <2>1. i \in Nat /\ j \in Nat /\ (s \o t)[i] \in S
    BY <1>1, <1>2, ElementOfSeq
  <2>2. ASSUME NEW a \in DOMAIN (s \o t), NEW b \in DOMAIN (s \o t), (s \o t)[a] = (s \o t)[b],
               a \in DOMAIN s, (s \o t)[a] = s[a],
               b - Len(s) \in DOMAIN t, (s \o t)[b] = t[b - Len(s)], (s \o t)[a] \in S
        PROVE  FALSE
    BY <1>5, <2>2 DEF In
  <2>3. CASE i \in DOMAIN s /\ (s \o t)[i] = s[i] /\ j \in DOMAIN s /\ (s \o t)[j] = s[j]
    BY <1>5, <2>3 DEF Distinct
  <2>4. CASE /\ i - Len(s) \in DOMAIN t /\ (s \o t)[i] = t[i - Len(s)]
             /\ j - Len(s) \in DOMAIN t /\ (s \o t)[j] = t[j - Len(s)]
    <3>1. i - Len(s) = j - Len(s)
      BY <1>5, <2>4 DEF Distinct
    <3> QED
      BY <1>1, <2>1, <3>1
  <2> QED
    BY <1>3, <2>1, <2>2, <2>3, <2>4
<1> QED
  BY <1>1, <1>4, <1>5

(* A step moves quotes from some places to place t. *)
LEMMA QuotesMove ==
  ASSUME OnePlace, Received, NEW t \in Places, made' = made,
         \A q \in Quotes : \A c \in Places :
           Holds(c, q)' =>
             \/ Holds(c, q)
             \/ c = t /\ \E d \in Places : Holds(d, q) /\ ~Holds(d, q)'
  PROVE  OnePlace' /\ Received'
<1>1. OnePlace'
  <2> SUFFICES ASSUME NEW q \in Quotes, NEW c \in Places, NEW d \in Places,
                      Holds(c, q)', Holds(d, q)', c # d
               PROVE  FALSE
    BY DEF OnePlace
  <2> QED
    BY DEF OnePlace
<1> QED
  BY <1>1 DEF Received

(* Nothing moves. *)
LEMMA QuotesStay ==
  ASSUME OnePlace, Received, made' = made,
         \A q \in Quotes : \A c \in Places : Holds(c, q)' => Holds(c, q)
  PROVE  OnePlace' /\ Received'
<1>1. "raw" \in Places
  BY DEF Places
<1> QED
  BY <1>1, QuotesMove

LEMMA OnQuoteOnce ==
  ASSUME StoreTyped, StoredOnce, NEW k \in Keys, OnQuote(k)
  PROVE  StoredOnce'
<1> DEFINE n == [key |-> k, ts |-> made[k] + 1]
<1>1. /\ n \in Quotes /\ n.key = k /\ n.ts = made[k] + 1 /\ made \in Maps /\ made[k] \in Nat
      /\ made' = [made EXCEPT ![k] = @ + 1]
  <2>1. made \in Maps /\ made[k] \in 0 .. MaxTs /\ made[k] < MaxTs
    BY DEF OnQuote, StoreTyped, ReceivingTyped, Maps
  <2>2. made[k] + 1 \in 1 .. MaxTs /\ made[k] \in Nat
    BY <2>1, QuoteStoreAssumption
  <2> QED
    BY <2>1, <2>2 DEF OnQuote, Quotes
<1>2. \A c \in Places : ~Holds(c, n)
  BY <1>1 DEF StoredOnce, Received
<1>3. PICK t \in Places :
        \A q \in Quotes : \A c \in Places :
          Holds(c, q)' => Holds(c, q) \/ (c = t /\ q = n)
  <2>1. CASE Len(quoteQ) < QueueMax /\ quoteQ' = Append(quoteQ, n) /\ UNCHANGED coalesced
    <3>1. \A q : InQueue(q)' => InQueue(q) \/ q = n
      BY <1>1, <2>1, AppendHolds DEF InQueue, StoreTyped, ReceivingTyped
    <3>2. \A q \in Quotes : \A c \in Places \ {"queue"} : Holds(c, q)' => Holds(c, q)
      BY <2>1 DEF OnQuote, Holds, InBatch, InTasks, InRun, InDict, InTable
    <3> QED
      BY <3>1, <3>2 DEF Holds, Places
  <2>2. CASE coalesced' = Coalesce(coalesced, n) /\ UNCHANGED quoteQ
    <3>1. \A q \in Quotes : InDict(coalesced, q)' => InDict(coalesced, q) \/ q = n
      BY <1>1, <2>2 DEF InDict, Coalesce, Quotes, StoreTyped, ReceivingTyped, Maps
    <3>2. \A q \in Quotes : \A c \in Places \ {"coalesced"} : Holds(c, q)' => Holds(c, q)
      BY <2>2 DEF OnQuote, Holds, InQueue, InBatch, InTasks, InRun, InDict, InTable
    <3> QED
      BY <3>1, <3>2 DEF Holds, Places
  <2> QED
    BY <2>1, <2>2 DEF OnQuote
<1>4. OnePlace' /\ Received'
  <2>1. OnePlace'
    BY <1>2, <1>3 DEF OnePlace, StoredOnce
  <2>2. \A q \in Quotes : q.ts <= made[q.key] => q.ts <= made'[q.key]
    BY <1>1 DEF Quotes, Maps
  <2>3. n.ts <= made'[n.key]
    BY <1>1 DEF Maps
  <2> QED
    BY <1>3, <2>1, <2>2, <2>3 DEF Received, StoredOnce
<1>5. Distinct(quoteQ)'
  <2>1. ~InQueue(n)
    BY <1>2 DEF Holds, Places
  <2>2. quoteQ \in Seq(Quotes) /\ Distinct(quoteQ)
    BY DEF StoreTyped, ReceivingTyped, StoredOnce, OnceEach
  <2>3. CASE quoteQ' = Append(quoteQ, n)
    <3>1. Distinct(Append(quoteQ, n))
      BY <1>1, <2>1, <2>2, AppendHolds DEF InQueue
    <3> QED
      BY <2>3, <3>1 DEF Distinct
  <2> QED
    BY <2>2, <2>3 DEF OnQuote, Distinct
<1>6. OnceEach'
  BY <1>5 DEF OnQuote, StoredOnce, OnceEach, TasksDistinct, Distinct
<1>7. OneChunk'
  BY DEF OnQuote, StoredOnce, OneChunk, Writes
<1> QED
  BY <1>4, <1>6, <1>7 DEF StoredOnce

LEMMA CollectOnce == ASSUME StoreTyped, StoredOnce, Collect PROVE StoredOnce'
<1> PICK h : h = Head(quoteQ)
  OBVIOUS
<1>1. /\ quoteQ \in Seq(Quotes) /\ quoteQ # <<>> /\ Distinct(quoteQ)
      /\ batch \in Seq(Quotes) /\ Distinct(batch)
      /\ quoteQ' = Tail(quoteQ) /\ batch' = Append(batch, h)
  BY DEF Collect, StoreTyped, ReceivingTyped, StoredOnce, OnceEach
<1>2. /\ h \in Quotes /\ InQueue(h) /\ ~InQueue(h)' /\ Distinct(quoteQ')
      /\ \A q : InQueue(q)' => InQueue(q)
  BY <1>1, TailHolds DEF InQueue
<1>3. ~InBatch(h)
  BY <1>2 DEF StoredOnce, OnePlace, Holds, Places
<1>4. Distinct(batch') /\ \A q : InBatch(q)' => InBatch(q) \/ q = h
  BY <1>1, <1>2, <1>3, AppendHolds DEF InBatch
<1>5. OnePlace' /\ Received'
  <2>1. "batch" \in Places /\ "queue" \in Places
    BY DEF Places
  <2>2. ASSUME NEW q \in Quotes, NEW c \in Places, Holds(c, q)'
        PROVE  Holds(c, q) \/ (c = "batch" /\ Holds("queue", q) /\ ~Holds("queue", q)')
    BY <1>2, <1>4, <2>2 DEF Collect, Holds, InTasks, InRun, InDict, InTable
  <2> QED
    BY <2>1, <2>2, QuotesMove DEF Collect, StoredOnce
<1> QED
  BY <1>2, <1>4, <1>5 DEF Collect, StoredOnce, OnceEach, OneChunk, TasksDistinct, Distinct, Writes


(* The quotes a batch is handed over with were in it or had found the queue  *)
(* full.                                                                     *)
LEMMA FillHolds ==
  ASSUME StoreTyped, StoredOnce, NEW ks \in SUBSET Keys
  PROVE  /\ \A q : In(Fill(ks), q) =>
              InBatch(q) \/ (q \in Quotes /\ q.key \in ks /\ InDict(coalesced, q))
         /\ Distinct(Fill(ks))
         /\ Len(Fill(ks)) <= Len(batch) + Cardinality(ks)
<1>1. /\ Filler(ks) \in Maps /\ \A k \in Keys : Filler(ks)[k] # 0 => k \in ks
      /\ Fill(ks) = batch \o Values(Filler(ks))
  BY FillTyped
<1>2. /\ Values(Filler(ks)) \in Seq(Quotes) /\ Len(Values(Filler(ks))) <= Cardinality(ks)
      /\ Distinct(Values(Filler(ks)))
      /\ \A i \in DOMAIN Values(Filler(ks)) :
           Filler(ks)[Values(Filler(ks))[i].key] = Values(Filler(ks))[i].ts
  BY <1>1, ValuesLists DEF Distinct
<1>3. ASSUME NEW q, In(Values(Filler(ks)), q)
      PROVE  q \in Quotes /\ q.key \in ks /\ InDict(coalesced, q)
  <2>1. q \in Quotes /\ Filler(ks)[q.key] = q.ts
    BY <1>2, <1>3, ElementOfSeq, LenProperties DEF In
  <2>2. q.key \in Keys /\ q.ts # 0
    BY <2>1, QuoteStoreAssumption DEF Quotes
  <2> QED
    BY <2>1, <2>2 DEF Filler, InDict
<1>4. batch \in Seq(Quotes) /\ Distinct(batch)
  BY DEF StoreTyped, ReceivingTyped, StoredOnce, OnceEach
<1>5. \A q \in Quotes : ~(In(batch, q) /\ In(Values(Filler(ks)), q))
  BY <1>3 DEF StoredOnce, OnePlace, Holds, Places, InBatch
<1>6. Cardinality(ks) \in Nat
  BY QuoteStoreAssumption, FS_Subset, FS_CardinalityType
<1> QED
  BY <1>1, <1>2, <1>3, <1>4, <1>5, <1>6, ConcatHolds, LenProperties DEF InBatch

(* Where the quotes of submit_quotes go. *)
LEMMA SubmitHolds ==
  ASSUME StoreTyped, StoredOnce, NEW qs \in Seq(Quotes), Submit(qs), running' = running,
         Distinct(qs), Len(qs) <= ChunkSize, \A q \in Quotes : In(qs, q) => ~InTasks(q)
  PROVE  /\ \/ /\ \A q : InTasks(q)' => InTasks(q) \/ In(qs, q)
               /\ held' = held
            \/ /\ \A q \in Quotes : InDict(held, q)' => InDict(held, q) \/ In(qs, q)
               /\ tasks' = tasks
         /\ TasksDistinct' /\ OneChunk'
<1>1. CASE held' = Overlaid(held, qs) /\ tasks' = tasks
  <2>1. ASSUME NEW q \in Quotes, InDict(held, q)' PROVE InDict(held, q) \/ In(qs, q)
    <3>1. q.key \in Keys /\ q = [key |-> q.key, ts |-> q.ts]
      BY DEF Quotes
    <3>2. held \in Maps
      BY DEF StoreTyped, BrokerTyped
    <3>3. held'[q.key] = q.ts
      BY <2>1 DEF InDict
    <3> QED
      BY <1>1, <3>1, <3>2, <3>3, OverlaidKeys DEF InDict, In
  <2>2. TasksDistinct' /\ OneChunk'
    BY <1>1 DEF StoredOnce, OnceEach, TasksDistinct, OneChunk, Writes
  <2> QED
    BY <1>1, <2>1, <2>2
<1>2. CASE tasks' = Put(1, Task("quotes", qs)) /\ held' = held
  <2> DEFINE T == tasks[1]
             n == Len(tasks[1]) + 1
  <2>1. /\ T \in Seq(Tasks) /\ DOMAIN T = 1 .. Len(T) /\ Len(T) \in Nat
        /\ Task("quotes", qs) \in Tasks
        /\ Task("quotes", qs).payload = qs /\ Task("quotes", qs).kind = "quotes"
    BY LenProperties DEF StoreTyped, BrokerTyped, Priorities, Task, Tasks
  <2>2. /\ tasks'[1] = Append(T, Task("quotes", qs))
        /\ tasks'[2] = tasks[2] /\ tasks'[3] = tasks[3]
    BY <1>2 DEF Put, StoreTyped, BrokerTyped, Priorities
  <2>3. /\ DOMAIN tasks'[1] = 1 .. n
        /\ \A i \in 1 .. Len(T) : tasks'[1][i] = T[i]
        /\ tasks'[1][n] = Task("quotes", qs)
    BY <2>1, <2>2, AppendProperties, LenProperties
  <2>4. \A i \in DOMAIN tasks'[1] :
          \/ i \in DOMAIN T /\ tasks'[1][i] = T[i]
          \/ i = n /\ tasks'[1][i] = Task("quotes", qs)
    BY <2>1, <2>3
  <2>5. ASSUME NEW q, InTasks(q)' PROVE InTasks(q) \/ In(qs, q)
    BY <2>1, <2>4, <2>5 DEF InTasks
  <2>6. TasksDistinct'
    <3> SUFFICES ASSUME NEW a \in DOMAIN tasks'[1], NEW b \in DOMAIN tasks'[1],
                        NEW i \in DOMAIN tasks'[1][a].payload,
                        NEW j \in DOMAIN tasks'[1][b].payload,
                        tasks'[1][a].payload[i] = tasks'[1][b].payload[j]
                 PROVE  a = b /\ i = j
      BY DEF TasksDistinct
    <3>1. ASSUME NEW c \in DOMAIN T, NEW u \in DOMAIN T[c].payload, NEW v \in DOMAIN qs,
                 T[c].payload[u] = qs[v]
          PROVE  FALSE
      <4>1. qs[v] \in Quotes /\ In(qs, qs[v]) /\ InTasks(qs[v])
        BY <3>1, ElementOfSeq, LenProperties DEF In, InTasks
      <4> QED
        BY <4>1
    <3>2. CASE a \in DOMAIN T /\ tasks'[1][a] = T[a] /\ b \in DOMAIN T /\ tasks'[1][b] = T[b]
      BY <3>2 DEF StoredOnce, OnceEach, TasksDistinct
    <3>3. CASE a = n /\ b = n /\ tasks'[1][a] = Task("quotes", qs)
      BY <2>1, <3>3 DEF Distinct
    <3> QED
      BY <2>1, <2>4, <3>1, <3>2, <3>3
  <2>7. OneChunk'
    BY <2>1, <2>2, <2>4 DEF StoredOnce, OneChunk, Writes
  <2> QED
    BY <1>2, <2>5, <2>6, <2>7
<1> QED
  BY <1>1, <1>2 DEF Submit

LEMMA FlushBatchOnce == ASSUME StoreTyped, StoredOnce, FlushBatch PROVE StoredOnce'
<1>1. PICK ks \in SUBSET Keys :
        /\ Cardinality(ks) <= Room /\ Submit(Fill(ks))
        /\ coalesced' = [k \in Keys |-> IF k \in ks THEN 0 ELSE coalesced[k]]
  BY DEF FlushBatch
<1>2. /\ Fill(ks) \in Seq(Quotes) /\ Distinct(Fill(ks))
      /\ \A q : In(Fill(ks), q) =>
           InBatch(q) \/ (q \in Quotes /\ q.key \in ks /\ InDict(coalesced, q))
  BY FillTyped, FillHolds
<1>3. Len(Fill(ks)) <= ChunkSize
  <2>1. Len(Fill(ks)) <= Len(batch) + Cardinality(ks)
    BY FillHolds
  <2>2. /\ Len(batch) \in Nat /\ Len(Fill(ks)) \in Nat /\ Cardinality(ks) \in Nat
    BY <1>2, LenProperties, QuoteStoreAssumption, FS_Subset, FS_CardinalityType
    DEF StoreTyped, ReceivingTyped
  <2> QED
    BY <1>1, <2>1, <2>2, QuoteStoreAssumption DEF Room
<1>4. \A q \in Quotes : In(Fill(ks), q) => ~InTasks(q)
  BY <1>2 DEF StoredOnce, OnePlace, Holds, Places
<1>5. /\ \/ /\ \A q : InTasks(q)' => InTasks(q) \/ In(Fill(ks), q)
            /\ held' = held
         \/ /\ \A q \in Quotes : InDict(held, q)' => InDict(held, q) \/ In(Fill(ks), q)
            /\ tasks' = tasks
      /\ TasksDistinct' /\ OneChunk'
  BY <1>1, <1>2, <1>3, <1>4, SubmitHolds DEF FlushBatch
<1>6. /\ \A q : ~InBatch(q)'
      /\ \A q \in Quotes : /\ InDict(coalesced, q)' => InDict(coalesced, q)
                           /\ q.key \in ks => ~InDict(coalesced, q)'
  <2>1. batch' = <<>>
    BY DEF FlushBatch
  <2>2. \A q \in Quotes : q.key \in Keys /\ q.ts # 0
    BY QuoteStoreAssumption DEF Quotes
  <2> QED
    BY <1>1, <2>1, <2>2 DEF InBatch, In, InDict
<1>7. PICK t \in {"tasks", "held"} :
        \A q \in Quotes : \A c \in {"tasks", "held"} :
          Holds(c, q)' => Holds(c, q) \/ (c = t /\ In(Fill(ks), q))
  BY <1>5 DEF Holds, InTasks, InDict
<1>8. OnePlace' /\ Received'
  <2>1. t \in Places /\ "batch" \in Places /\ "coalesced" \in Places
    BY DEF Places
  <2>2. ASSUME NEW q \in Quotes, NEW c \in Places, Holds(c, q)'
        PROVE  Holds(c, q) \/ (c = t /\ \E d \in Places : Holds(d, q) /\ ~Holds(d, q)')
    <3>1. In(Fill(ks), q) => \E d \in Places : Holds(d, q) /\ ~Holds(d, q)'
      BY <1>2, <1>6, <2>1 DEF Holds
    <3>2. CASE c \in {"tasks", "held"}
      BY <1>7, <2>2, <3>1, <3>2
    <3>3. CASE c \notin {"tasks", "held"}
      <4>1. UNCHANGED <<quoteQ, running, raw>>
        BY DEF FlushBatch
      <4>2. InQueue(q)' => InQueue(q)
        BY <4>1 DEF InQueue
      <4>3. InRun(q)' => InRun(q)
        BY <4>1 DEF InRun
      <4>4. InTable(q)' => InTable(q)
        BY <4>1 DEF InTable
      <4>5. InDict(coalesced, q)' => InDict(coalesced, q)
        BY <1>6 DEF InDict
      <4>6. ~InBatch(q)'
        BY <1>6
      <4> QED
        BY <2>2, <3>3, <4>2, <4>3, <4>4, <4>5, <4>6, Zenon DEF Holds
    <3> QED
      BY <3>2, <3>3
  <2> QED
    BY <2>1, <2>2, QuotesMove DEF FlushBatch, StoredOnce
<1> QED
  BY <1>5, <1>8 DEF FlushBatch, StoredOnce, OnceEach, Distinct

LEMMA SubmitTaskOnce ==
  ASSUME StoreTyped, StoredOnce, SubmitStats \/ SubmitCompaction
  PROVE  StoredOnce'
<1>1. /\ tasks'[1] = tasks[1]
      /\ \A p \in {2, 3} : \A n \in DOMAIN tasks'[p] :
           \/ n \in DOMAIN tasks[p] /\ tasks'[p][n] = tasks[p][n]
           \/ tasks'[p][n].kind # "quotes" /\ tasks'[p][n].payload = <<>>
  <2>1. ASSUME NEW p \in {2, 3}, NEW kind \in {"stats", "compact"},
               tasks' = Put(p, Task(kind, <<>>))
        PROVE  <1>1
    <3>1. Task(kind, <<>>) \in Tasks
      BY EmptySeq DEF Task, Tasks
    <3>2. /\ tasks[p] \in Seq(Tasks) /\ tasks'[p] = Append(tasks[p], Task(kind, <<>>))
          /\ \A o \in {1, 2, 3} \ {p} : tasks'[o] = tasks[o]
      BY <2>1 DEF Put, StoreTyped, BrokerTyped, Priorities
    <3>3. \A n \in DOMAIN tasks'[p] :
            \/ n \in DOMAIN tasks[p] /\ tasks'[p][n] = tasks[p][n]
            \/ tasks'[p][n] = Task(kind, <<>>)
      BY <3>1, <3>2, AppendProperties, LenProperties
    <3>4. Task(kind, <<>>).kind # "quotes" /\ Task(kind, <<>>).payload = <<>>
      BY DEF Task
    <3> HIDE DEF Task
    <3>5. ASSUME NEW o \in {2, 3}, NEW n \in DOMAIN tasks'[o]
          PROVE  \/ n \in DOMAIN tasks[o] /\ tasks'[o][n] = tasks[o][n]
                 \/ tasks'[o][n].kind # "quotes" /\ tasks'[o][n].payload = <<>>
      <4>1. CASE o = p
        BY <3>3, <3>4, <4>1
      <4>2. CASE o # p
        BY <3>2, <4>2
      <4> QED
        BY <4>1, <4>2
    <3> QED
      BY <3>2, <3>5
  <2> QED
    BY <2>1 DEF SubmitStats, SubmitCompaction
<1>2. OneChunk'
  BY <1>1 DEF SubmitStats, SubmitCompaction, StoredOnce, OneChunk, Writes
<1>3. OnePlace' /\ Received'
  <2>1. ASSUME NEW q \in Quotes, NEW c \in Places, Holds(c, q)' PROVE Holds(c, q)
    BY <1>1, <2>1
    DEF SubmitStats, SubmitCompaction, Holds, InQueue, InBatch, InTasks, InRun, InDict, InTable
  <2> QED
    BY <2>1, QuotesStay DEF SubmitStats, SubmitCompaction, StoredOnce
<1>4. OnceEach'
  BY <1>1 DEF SubmitStats, SubmitCompaction, StoredOnce, OnceEach, TasksDistinct, Distinct
<1> QED
  BY <1>2, <1>3, <1>4 DEF StoredOnce

(* The broker starts on a payload that was in place s and is gone from there. *)
LEMMA StartOnce ==
  ASSUME StoreTyped, StoredOnce, NEW s \in {"tasks", "held"},
         running'.payload \in Seq(Quotes), Distinct(running'.payload),
         Len(running'.payload) <= ChunkSize, running'.done = 0,
         running'.kind \notin {"quotes", "flush"} => running'.payload = <<>>,
         \A q \in Quotes : In(running'.payload, q) => Holds(s, q) /\ ~Holds(s, q)',
         \A q \in Quotes : \A c \in {"tasks", "held"} : Holds(c, q)' => Holds(c, q),
         UNCHANGED <<made, quoteQ, coalesced, batch, raw>>
  PROVE  /\ OnePlace' /\ Received'
         /\ TasksDistinct' => OnceEach'
         /\ (\A n \in DOMAIN tasks'[1] :
               tasks'[1][n].kind = "quotes" /\ Len(tasks'[1][n].payload) <= ChunkSize)
            /\ (\A p \in {2, 3} : \A n \in DOMAIN tasks'[p] :
                  tasks'[p][n].kind # "quotes" /\ tasks'[p][n].payload = <<>>)
              => OneChunk'
<1>1. "run" \in Places /\ s \in Places
  BY DEF Places
<1>2. ASSUME NEW q \in Quotes, NEW c \in Places, Holds(c, q)'
      PROVE  Holds(c, q) \/ (c = "run" /\ Holds(s, q) /\ ~Holds(s, q)')
  <2>1. CASE c = "run"
    BY <1>2, <2>1 DEF Holds, InRun, In
  <2>2. CASE c \in {"tasks", "held"}
    BY <1>2, <2>2
  <2>3. CASE c \in {"queue", "coalesced", "batch", "raw"}
    BY <1>2, <2>3 DEF Holds, InQueue, InBatch, InDict, InTable
  <2> QED
    BY <2>1, <2>2, <2>3 DEF Places
<1>3. OnePlace' /\ Received'
  BY <1>1, <1>2, QuotesMove DEF StoredOnce
<1> QED
  BY <1>3 DEF StoredOnce, OnceEach, OneChunk, Writes, Distinct

LEMMA TakeOnce == ASSUME StoreTyped, StoredOnce, Take PROVE StoredOnce'
<1>1. PICK p \in Priorities :
        /\ tasks[p] # <<>>
        /\ running' = [kind |-> Head(tasks[p]).kind, payload |-> Head(tasks[p]).payload,
                       done |-> 0, tries |-> 0]
        /\ tasks' = [tasks EXCEPT ![p] = Tail(@)]
  BY DEF Take
<1>2. /\ Head(tasks[p]) = tasks[p][1] /\ tasks[p][1] \in Tasks /\ 1 \in DOMAIN tasks[p]
      /\ tasks'[p] = Tail(tasks[p]) /\ \A o \in Priorities \ {p} : tasks'[o] = tasks[o]
      /\ \A n \in DOMAIN tasks'[p] : /\ n \in Nat /\ n + 1 \in DOMAIN tasks[p] /\ n + 1 # 1
                                    /\ tasks'[p][n] = tasks[p][n + 1]
  <2>1. tasks[p] \in Seq(Tasks) /\ tasks'[p] = Tail(tasks[p])
        /\ \A o \in Priorities \ {p} : tasks'[o] = tasks[o]
    BY <1>1 DEF StoreTyped, BrokerTyped
  <2>2. /\ Len(tasks[p]) \in Nat \ {0} /\ DOMAIN tasks[p] = 1 .. Len(tasks[p])
        /\ Tail(tasks[p]) \in Seq(Tasks) /\ Len(Tail(tasks[p])) = Len(tasks[p]) - 1
        /\ DOMAIN Tail(tasks[p]) = 1 .. Len(tasks[p]) - 1
        /\ \A i \in 1 .. Len(tasks[p]) - 1 : Tail(tasks[p])[i] = tasks[p][i + 1]
        /\ Head(tasks[p]) = tasks[p][1] /\ tasks[p][1] \in Tasks
    BY <1>1, <2>1, HeadTailProperties, EmptySeq, LenProperties, ElementOfSeq
  <2> QED
    BY <2>1, <2>2
<1>3. /\ running'.payload = tasks[p][1].payload /\ running'.kind = tasks[p][1].kind
      /\ running'.done = 0 /\ running'.payload \in Seq(Quotes)
  BY <1>1, <1>2 DEF Tasks
<1>4. p # 1 => running'.payload = <<>> /\ tasks'[1] = tasks[1]
  BY <1>2, <1>3 DEF StoredOnce, OneChunk, Priorities
<1>5. /\ p = 1 => running'.kind = "quotes"
      /\ Len(running'.payload) <= ChunkSize
  BY <1>2, <1>3, <1>4, EmptySeq, QuoteStoreAssumption DEF StoredOnce, OneChunk
<1>6. Distinct(running'.payload)
  BY <1>2, <1>3, <1>4 DEF StoredOnce, OnceEach, TasksDistinct, Distinct
<1>7. TasksDistinct'
  <2>1. CASE p = 1
    <3> SUFFICES ASSUME NEW a \in DOMAIN tasks'[1], NEW b \in DOMAIN tasks'[1],
                        NEW i \in DOMAIN tasks'[1][a].payload,
                        NEW j \in DOMAIN tasks'[1][b].payload,
                        tasks'[1][a].payload[i] = tasks'[1][b].payload[j]
                 PROVE  a = b /\ i = j
      BY DEF TasksDistinct
    <3>1. /\ a \in Nat /\ a + 1 \in DOMAIN tasks[1] /\ tasks'[1][a] = tasks[1][a + 1]
          /\ b \in Nat /\ b + 1 \in DOMAIN tasks[1] /\ tasks'[1][b] = tasks[1][b + 1]
      BY <1>2, <2>1
    <3>2. a + 1 = b + 1 /\ i = j
      BY <3>1 DEF StoredOnce, OnceEach, TasksDistinct
    <3> QED
      BY <3>1, <3>2
  <2> QED
    BY <1>4, <2>1 DEF StoredOnce, OnceEach, TasksDistinct
<1>8. ASSUME NEW q \in Quotes
      PROVE  /\ InTasks(q)' => InTasks(q)
             /\ In(running'.payload, q) => InTasks(q) /\ ~InTasks(q)'
  <2>1. ASSUME InTasks(q)' PROVE InTasks(q)
    <3>1. PICK n \in DOMAIN tasks'[1] : In(tasks'[1][n].payload, q)
      BY <2>1 DEF InTasks, In
    <3>2. PICK m \in DOMAIN tasks[1] : tasks'[1][n] = tasks[1][m]
      <4>1. CASE p = 1
        BY <1>2, <4>1
      <4> QED
        BY <1>4, <4>1
    <3> QED
      BY <3>1, <3>2 DEF InTasks
  <2>2. In(running'.payload, q) => p = 1 /\ InTasks(q)
    BY <1>2, <1>3, <1>4 DEF In, InTasks
  <2>3. ASSUME p = 1, In(running'.payload, q), InTasks(q)' PROVE FALSE
    <3>1. PICK n \in DOMAIN tasks'[1] : In(tasks'[1][n].payload, q)
      BY <2>3 DEF InTasks, In
    <3>2. /\ n + 1 \in DOMAIN tasks[1] /\ n + 1 # 1 /\ In(tasks[1][n + 1].payload, q)
          /\ In(tasks[1][1].payload, q) /\ 1 \in DOMAIN tasks[1]
      BY <1>2, <1>3, <2>3, <3>1
    <3> QED
      BY <3>2 DEF In, StoredOnce, OnceEach, TasksDistinct
  <2> QED
    BY <2>1, <2>2, <2>3
<1>9. /\ (\A n \in DOMAIN tasks'[1] :
            tasks'[1][n].kind = "quotes" /\ Len(tasks'[1][n].payload) <= ChunkSize)
      /\ (\A o \in {2, 3} : \A n \in DOMAIN tasks'[o] :
            tasks'[o][n].kind # "quotes" /\ tasks'[o][n].payload = <<>>)
  <2>1. ASSUME NEW o \in Priorities, NEW n \in DOMAIN tasks'[o]
        PROVE  \E m \in DOMAIN tasks[o] : tasks'[o][n] = tasks[o][m]
    <3>1. CASE o = p
      BY <1>2, <3>1
    <3>2. CASE o # p
      BY <1>2, <3>2
    <3> QED
      BY <3>1, <3>2
  <2>2. 1 \in Priorities /\ 2 \in Priorities /\ 3 \in Priorities
    BY DEF Priorities
  <2> QED
    BY <2>1, <2>2 DEF StoredOnce, OneChunk
<1>10. held' = held /\ UNCHANGED <<made, quoteQ, coalesced, batch, raw>>
  BY DEF Take
<1>11. \A q \in Quotes : /\ In(running'.payload, q) => Holds("tasks", q) /\ ~Holds("tasks", q)'
                       /\ \A c \in {"tasks", "held"} : Holds(c, q)' => Holds(c, q)
  BY <1>8, <1>10 DEF Holds, InDict
<1> QED
  BY <1>3, <1>4, <1>5, <1>6, <1>7, <1>9, <1>10, <1>11, StartOnce DEF StoredOnce

LEMMA TakeHeldOnce ==
  ASSUME StoreTyped, StoredOnce, TakeHeld, Cardinality(Keys) <= ChunkSize
  PROVE  StoredOnce'
<1>1. held \in Maps /\ running'.payload = Values(held) /\ running'.done = 0
      /\ running'.kind = "flush"
  BY DEF TakeHeld, StoreTyped, BrokerTyped
<1>2. /\ Values(held) \in Seq(Quotes) /\ Len(Values(held)) <= Cardinality(Keys)
      /\ Distinct(Values(held))
      /\ \A i \in DOMAIN Values(held) : held[Values(held)[i].key] = Values(held)[i].ts
  BY <1>1, ValuesLists DEF Distinct
<1>3. \A q \in Quotes : In(Values(held), q) => InDict(held, q)
  BY <1>2 DEF In, InDict
<1>4. \A q \in Quotes : ~InDict(held, q)'
  <2>1. held' = NoQuote
    BY DEF TakeHeld
  <2>2. \A q \in Quotes : q.key \in Keys /\ q.ts # 0
    BY QuoteStoreAssumption DEF Quotes
  <2> QED
    BY <2>1, <2>2 DEF InDict, NoQuote
<1>5. tasks' = tasks /\ UNCHANGED <<made, quoteQ, coalesced, batch, raw>>
  BY DEF TakeHeld
<1>6. \A q \in Quotes : /\ In(running'.payload, q) => Holds("held", q) /\ ~Holds("held", q)'
                      /\ \A c \in {"tasks", "held"} : Holds(c, q)' => Holds(c, q)
  BY <1>1, <1>3, <1>4, <1>5 DEF Holds, InTasks
<1>7. Len(running'.payload) <= ChunkSize
  BY <1>1, <1>2, LenProperties, QuoteStoreAssumption, FS_CardinalityType
<1> QED
  BY <1>1, <1>2, <1>5, <1>6, <1>7, StartOnce DEF StoredOnce, OnceEach, OneChunk, TasksDistinct


LEMMA WriteChunkOnce == ASSUME StoreTyped, StoredOnce, WriteChunk PROVE StoredOnce'
<1> DEFINE P == running.payload
<1>1. /\ P \in Seq(Quotes) /\ DOMAIN P = 1 .. Len(P) /\ Len(P) \in Nat
      /\ running.done = 0 /\ Len(P) <= ChunkSize /\ Distinct(P)
  BY LenProperties DEF WriteChunk, StoreTyped, BrokerTyped, Jobs1, StoredOnce, OnceEach, OneChunk
<1>2. ChunkEnd = Len(P)
  BY <1>1, QuoteStoreAssumption DEF ChunkEnd, Smaller
<1>3. /\ Chunk \in Seq(Quotes) /\ DOMAIN Chunk = DOMAIN P
      /\ \A i \in DOMAIN P : Chunk[i] = P[i]
  BY <1>1, <1>2, ChunkTyped, LenProperties
<1>4. /\ running' = [running EXCEPT !.done = Len(P)] /\ raw' = Inserted(raw, Chunk)
      /\ UNCHANGED <<made, quoteQ, coalesced, batch, tasks, held>>
  BY <1>2 DEF WriteChunk
<1>5. /\ running'.payload = P /\ running'.done = Len(P) /\ running'.kind = running.kind
  BY <1>4 DEF StoreTyped, BrokerTyped, Jobs1
<1>6. ASSUME NEW q \in Quotes
      PROVE  /\ ~InRun(q)'
             /\ InTable(q)' => InTable(q) \/ InRun(q)
             /\ raw'[q.key][q.ts] <= 1
  <2> DEFINE I == Copies(Chunk, q.key, q.ts)
  <2>1. /\ q.key \in Keys /\ q.ts \in 1 .. MaxTs /\ q = [key |-> q.key, ts |-> q.ts]
        /\ raw[q.key][q.ts] \in Nat /\ raw[q.key][q.ts] <= 1
    BY DEF Quotes, StoreTyped, TablesTyped1, StoredOnce, OnceEach
  <2>2. raw'[q.key][q.ts] = raw[q.key][q.ts] + Cardinality(I)
    BY <1>4, <2>1 DEF Inserted
  <2>3. IsFiniteSet(I) /\ Cardinality(I) \in Nat
    BY <1>3, CopiesCounted
  <2>4. \A i \in I : i \in DOMAIN P /\ P[i] = q /\ i > 0
    <3> SUFFICES ASSUME NEW i \in I PROVE i \in DOMAIN P /\ P[i] = q /\ i > 0
      OBVIOUS
    <3>1. i \in DOMAIN P /\ P[i].key = q.key /\ P[i].ts = q.ts
      BY <1>3 DEF Copies, QuotesOf
    <3>2. P[i] \in Quotes
      BY <1>1, <3>1, ElementOfSeq
    <3> QED
      BY <1>1, <2>1, <3>1, <3>2 DEF Quotes
  <2>5. ~InRun(q)'
    BY <1>1, <1>5 DEF InRun
  <2>6. CASE I = {}
    BY <2>1, <2>2, <2>5, <2>6, FS_EmptySet DEF InTable
  <2>7. CASE I # {}
    <3>1. PICK i \in I : TRUE
      BY <2>7
    <3>2. InRun(q)
      BY <1>1, <2>4, <3>1 DEF InRun
    <3>3. I = {i}
      BY <1>1, <2>4, <3>1 DEF Distinct
    <3>4. Cardinality(I) = 1
      BY <3>3, FS_Singleton
    <3>5. ~InTable(q)
      BY <3>2 DEF StoredOnce, OnePlace, Holds, Places
    <3> QED
      BY <2>1, <2>2, <2>5, <3>2, <3>4, <3>5 DEF InTable
  <2> QED
    BY <2>6, <2>7
<1>7. OnePlace' /\ Received'
  <2>1. "run" \in Places /\ "raw" \in Places
    BY DEF Places
  <2>2. ASSUME NEW q \in Quotes, NEW c \in Places, Holds(c, q)'
        PROVE  Holds(c, q) \/ (c = "raw" /\ Holds("run", q) /\ ~Holds("run", q)')
    BY <1>4, <1>6, <2>2 DEF Holds, InQueue, InBatch, InTasks, InDict
  <2> QED
    BY <1>4, <2>1, <2>2, QuotesMove DEF StoredOnce
<1>8. \A k \in Keys, t \in 1 .. MaxTs : raw'[k][t] <= 1
  <2> SUFFICES ASSUME NEW k \in Keys, NEW t \in 1 .. MaxTs PROVE raw'[k][t] <= 1
    OBVIOUS
  <2>1. [key |-> k, ts |-> t] \in Quotes
    BY DEF Quotes
  <2> QED
    BY <1>6, <2>1
<1>9. OnceEach'
  BY <1>4, <1>5, <1>8 DEF StoredOnce, OnceEach, TasksDistinct, Distinct
<1>10. OneChunk'
  BY <1>4, <1>5 DEF StoredOnce, OneChunk, Writes
<1> QED
  BY <1>7, <1>9, <1>10 DEF StoredOnce

(* A task is over, or starts again with nothing committed. *)
LEMMA TaskEndOnce == ASSUME StoreTyped, StoredOnce, Finish \/ GiveUp \/ Locked PROVE StoredOnce'
<1>1. /\ UNCHANGED <<made, quoteQ, coalesced, batch, tasks, held, raw>>
      /\ running' = Idle \/ Locked
  BY DEF Finish, GiveUp, Locked
<1>2. /\ running'.done = 0
      /\ \/ running'.payload = <<>>
         \/ /\ running'.payload = running.payload /\ running'.kind = running.kind
            /\ running.done = 0
  <2>1. CASE running' = Idle
    BY <2>1 DEF Idle
  <2>2. CASE Locked
    <3>1. running' = [running EXCEPT !.done = 0, !.tries = running.tries + 1]
      BY <2>2 DEF Locked, FromTheStart
    <3>2. running \in Jobs1
      BY DEF StoreTyped, BrokerTyped
    <3>3. /\ running'.payload = running.payload /\ running'.kind = running.kind
          /\ running'.done = 0
      BY <3>1, <3>2 DEF Jobs1
    <3>4. Writes => running.done < Len(running.payload)
      BY <2>2 DEF Locked, Failing
    <3>5. Len(running.payload) \in Nat /\ running.done \in {0, Len(running.payload)}
      BY <3>2, LenProperties DEF Jobs1, StoredOnce, OneChunk
    <3>6. ~Writes => running.payload = <<>>
      BY DEF StoredOnce, OneChunk
    <3> QED
      BY <3>3, <3>4, <3>5, <3>6
  <2> QED
    BY <1>1, <2>1, <2>2
<1>3. \A q : InRun(q)' => InRun(q)
  BY <1>2 DEF InRun
<1>4. OnePlace' /\ Received'
  <2>1. ASSUME NEW q \in Quotes, NEW c \in Places, Holds(c, q)' PROVE Holds(c, q)
    BY <1>1, <1>3, <2>1 DEF Holds, InQueue, InBatch, InTasks, InDict, InTable
  <2> QED
    BY <1>1, <2>1, QuotesStay DEF StoredOnce
<1>5. Distinct(running.payload)'
  BY <1>2 DEF StoredOnce, OnceEach, Distinct
<1>6. OneChunk'
  BY <1>1, <1>2, EmptySeq, QuoteStoreAssumption DEF StoredOnce, OneChunk, Writes
<1> QED
  BY <1>1, <1>4, <1>5, <1>6 DEF StoredOnce, OnceEach, TasksDistinct, Distinct

LEMMA StoreNextOnce ==
  Cardinality(Keys) <= ChunkSize =>
    (StoreTyped /\ StoreOnceInv /\ [StoreNext]_storeVars => StoreOnceInv')
<1> SUFFICES ASSUME Cardinality(Keys) <= ChunkSize, StoreTyped, StoreOnceInv,
                    [StoreNext]_storeVars, ~stopping'
             PROVE  StoredOnce'
  BY DEF StoreOnceInv
<1>1. ~stopping /\ ~Stop /\ ~Stopped
  <2>1. ~Stop /\ (Stopped => stopping)
    BY DEF Stop, Stopped
  <2>2. CASE UNCHANGED storeVars
    BY <2>2, <2>1 DEF storeVars, Stopped
  <2>3. CASE \E k \in Keys : OnQuote(k)
    BY <2>3, <2>1 DEF OnQuote
  <2>4. CASE Writer \/ SubmitStats \/ SubmitCompaction
    BY <2>4, <2>1 DEF Writer, Collect, FlushBatch, SubmitStats, SubmitCompaction
  <2>5. CASE Take \/ TakeHeld \/ WriteChunk
    BY <2>5, <2>1 DEF Take, TakeHeld, WriteChunk
  <2>6. CASE Finish \/ Locked \/ GiveUp
    BY <2>6, <2>1 DEF Finish, Locked, GiveUp
  <2>7. CASE Stopped
    BY <2>7 DEF Stopped
  <2> QED
    BY <2>1, <2>2, <2>3, <2>4, <2>5, <2>6, <2>7 DEF StoreNext, Broker
<1>2. StoredOnce
  BY <1>1 DEF StoreOnceInv
<1>3. CASE UNCHANGED storeVars
  <2>1. OnePlace' /\ Received'
    BY <1>2, <1>3, QuotesStay
    DEF storeVars, StoredOnce, Holds, InQueue, InBatch, InTasks, InRun, InDict, InTable
  <2> QED
    BY <1>2, <1>3, <2>1
    DEF storeVars, StoredOnce, OnceEach, OneChunk, TasksDistinct, Distinct, Writes
<1>4. CASE StoreNext
  BY <1>1, <1>2, <1>4, OnQuoteOnce, CollectOnce, FlushBatchOnce, SubmitTaskOnce, TakeOnce,
     TakeHeldOnce, WriteChunkOnce, TaskEndOnce
  DEF StoreNext, Writer, Broker
<1> QED
  BY <1>3, <1>4

LEMMA StoreInitOnce == StoreInit => StoreOnceInv
<1> SUFFICES ASSUME StoreInit PROVE StoredOnce
  BY DEF StoreOnceInv
<1>1. \A q \in Quotes : q.key \in Keys /\ q.ts # 0 /\ q.ts \in 1 .. MaxTs
  BY QuoteStoreAssumption DEF Quotes
<1>2. \A q \in Quotes, c \in Places : ~Holds(c, q)
  BY <1>1
  DEF StoreInit, Holds, InQueue, InBatch, InTasks, InRun, InDict, InTable, In, NoQuote, Idle,
      Priorities
<1> QED
  BY <1>2, QuoteStoreAssumption
  DEF StoreInit, StoredOnce, OnePlace, Received, OnceEach, OneChunk, TasksDistinct, Distinct,
      Idle, Priorities, Writes

(* Whatever the queues did with a quote and however often a task was tried   *)
(* again, it is in l0_raw once: until the service is stopped it is in one    *)
(* place at a time, and every task of quotes is one transaction.             *)
THEOREM StoredQuotesAreStoredOnce == StoreSpec => []QuotesAreStoredOnce
<1>1. StoreOnceInv /\ stopping \in BOOLEAN /\ raw \in [Keys -> [1 .. MaxTs -> Nat]]
        => QuotesAreStoredOnce
  <2>1. StoreOnceInv => stopping \/ \A k \in Keys, t \in 1 .. MaxTs : raw[k][t] <= 1
    BY DEF StoreOnceInv, StoredOnce, OnceEach
  <2>2. raw \in [Keys -> [1 .. MaxTs -> Nat]] =>
          \A k \in Keys, t \in 1 .. MaxTs : raw[k][t] <= 1 => ~(raw[k][t] > 1)
    <3> SUFFICES ASSUME raw \in [Keys -> [1 .. MaxTs -> Nat]], NEW k \in Keys,
                        NEW t \in 1 .. MaxTs
                 PROVE  raw[k][t] <= 1 => ~(raw[k][t] > 1)
      OBVIOUS
    <3>1. raw[k][t] \in Nat
      OBVIOUS
    <3> QED
      BY <3>1
  <2> QED
    BY <2>1, <2>2, Zenon DEF QuotesAreStoredOnce
<1>2. StoreTyped => stopping \in BOOLEAN /\ raw \in [Keys -> [1 .. MaxTs -> Nat]]
  BY DEF StoreTyped, TablesTyped1
<1>3. CASE Cardinality(Keys) <= ChunkSize
  BY <1>1, <1>2, <1>3, StoreTypeCorrect, StoreInitOnce, StoreNextOnce, StoreNextTyped,
     StoreInitTyped, PTL DEF StoreSpec
<1>4. CASE ~(Cardinality(Keys) <= ChunkSize)
  <2>1. QuotesAreStoredOnce
    BY <1>4 DEF QuotesAreStoredOnce
  <2> QED
    BY <2>1, PTL
<1> QED
  BY <1>3, <1>4

-----------------------------------------------------------------------------
(* The compaction: no quote is lost, and a candle closes right.            *)

-----------------------------------------------------------------------------
(* Buckets                                                                 *)

LEMMA Division ==
  ASSUME NEW a \in Nat, NEW w \in Nat \ {0}
  PROVE  a \div w \in Nat /\ a % w \in 0 .. w - 1 /\ a = w * (a \div w) + (a % w)
OBVIOUS

LEMMA BucketBounds ==
  ASSUME NEW l \in Levels, NEW t \in Nat
  PROVE  /\ Width[l] \in Nat \ {0} /\ Bucket(t, l) \in Nat
         /\ Bucket(t, l) <= t /\ t < Bucket(t, l) + Width[l]
         /\ \E p \in Nat : Bucket(t, l) = p * Width[l]
<1>1. PICK w \in Nat \ {0} : w = Width[l]
  BY RollupAssumption DEF Levels
<1>2. PICK p \in Nat : p = t \div w
  BY Division
<1>3. PICK r \in 0 .. w - 1 : t = w * p + r
  BY <1>2, Division
<1>4. Bucket(t, l) = p * w
  BY <1>1, <1>2 DEF Bucket
<1>5. w * p = p * w /\ p * w \in Nat
  OBVIOUS
<1> QED
  BY <1>1, <1>3, <1>4, <1>5

LEMMA Multiples ==
  ASSUME NEW w \in Nat \ {0}, NEW p \in Nat, NEW q \in Nat, p * w < q * w + w
  PROVE  p <= q /\ p * w <= q * w /\ p * w + w <= q * w + w
<1>1. p <= q
  <2> SUFFICES ASSUME p >= q + 1 PROVE FALSE
    OBVIOUS
  <2>1. PICK d \in Nat : p = q + 1 + d
    <3>1. p - (q + 1) \in Nat /\ p = q + 1 + (p - (q + 1))
      OBVIOUS
    <3> QED
      BY <3>1
  <2>2. p * w = q * w + w + d * w /\ d * w \in Nat /\ q * w \in Nat
    BY <2>1
  <2> QED
    BY <2>2
<1>2. PICK d \in Nat : q = p + d
  <2>1. q - p \in Nat /\ q = p + (q - p)
    BY <1>1
  <2> QED
    BY <2>1
<1>3. q * w = p * w + d * w /\ d * w \in Nat /\ p * w \in Nat
  BY <1>2
<1> QED
  BY <1>1, <1>3

LEMMA WidthsNest ==
  ASSUME NEW l \in Levels, NEW m \in Levels, l <= m
  PROVE  \E n \in Nat \ {0} : Width[m] = n * Width[l]
<1>1. \A k \in 0 .. 2 : \E n \in Nat \ {0} : Width[k + 1] = n * Width[k]
  <2> SUFFICES ASSUME NEW k \in 0 .. 2 PROVE \E n \in Nat \ {0} : Width[k + 1] = n * Width[k]
    OBVIOUS
  <2>1. /\ Width[k] \in Nat \ {0} /\ Width[k + 1] \in Nat \ {0}
        /\ Width[k + 1] % Width[k] = 0
    BY RollupAssumption
  <2>2. PICK v \in Nat \ {0} : v = Width[k]
    BY <2>1
  <2>6. PICK w \in Nat \ {0} : w = Width[k + 1]
    BY <2>1
  <2>7. w % v = 0
    BY <2>1, <2>2, <2>6
  <2>3. PICK n \in Nat : n = w \div v
    BY Division
  <2>4. w = v * n + 0
    BY <2>7, <2>3, Division
  <2>5. w = n * v /\ n # 0
    BY <2>4
  <2> QED
    BY <2>2, <2>5, <2>6
<1>2. PICK a \in Nat \ {0} : Width[1] = a * Width[0]
  BY <1>1
<1>3. PICK b \in Nat \ {0} : Width[2] = b * Width[1]
  BY <1>1
<1>4. PICK c \in Nat \ {0} : Width[3] = c * Width[2]
  BY <1>1
<1>5. \A k \in Levels : Width[k] \in Nat \ {0}
  BY RollupAssumption DEF Levels
<1>6. CASE l = m
  BY <1>5, <1>6
<1>7. CASE l = 0 /\ m = 1
  BY <1>2, <1>7
<1>8. CASE l = 1 /\ m = 2
  BY <1>3, <1>8
<1>9. CASE l = 2 /\ m = 3
  BY <1>4, <1>9
<1>10. CASE l = 0 /\ m = 2
  <2>1. Width[2] = (b * a) * Width[0] /\ b * a \in Nat \ {0}
    BY <1>2, <1>3, <1>5 DEF Levels
  <2> QED
    BY <1>10, <2>1
<1>11. CASE l = 1 /\ m = 3
  <2>1. Width[3] = (c * b) * Width[1] /\ c * b \in Nat \ {0}
    BY <1>3, <1>4, <1>5 DEF Levels
  <2> QED
    BY <1>11, <2>1
<1>12. CASE l = 0 /\ m = 3
  <2>1. Width[2] = (b * a) * Width[0] /\ b * a \in Nat \ {0}
    BY <1>2, <1>3, <1>5 DEF Levels
  <2>2. Width[3] = (c * (b * a)) * Width[0] /\ c * (b * a) \in Nat \ {0}
    BY <1>4, <1>5, <2>1 DEF Levels
  <2> QED
    BY <1>12, <2>2
<1> QED
  BY <1>6, <1>7, <1>8, <1>9, <1>10, <1>11, <1>12 DEF Levels

(* A bucket of one level lies within one of every coarser level.           *)
LEMMA BucketsNest ==
  ASSUME NEW l \in Levels, NEW m \in Levels, l <= m, NEW t \in Nat
  PROVE  /\ Bucket(Bucket(t, l), m) = Bucket(t, m)
         /\ Bucket(t, l) + Width[l] <= Bucket(t, m) + Width[m]
<1>1. PICK n \in Nat \ {0} : Width[m] = n * Width[l]
  BY WidthsNest
<1>2. PICK w \in Nat \ {0} : w = Width[l]
  BY BucketBounds
<1>3. PICK p \in Nat : Bucket(t, l) = p * w
  BY <1>2, BucketBounds
<1>4. PICK q \in Nat : Bucket(t, m) = q * (n * w)
  <2>1. PICK q \in Nat : Bucket(t, m) = q * Width[m]
    BY BucketBounds
  <2>2. Width[m] = n * w
    BY <1>1, <1>2
  <2> QED
    BY <2>1, <2>2
<1>5. /\ p * w \in Nat /\ p * w <= t /\ t < p * w + w
      /\ q * (n * w) \in Nat /\ q * (n * w) <= t /\ t < q * (n * w) + n * w
  <2>1. p * w \in Nat /\ p * w <= t /\ t < p * w + w
    BY <1>2, <1>3, BucketBounds
  <2>2. Width[m] = n * w
    BY <1>1, <1>2
  <2>3. q * (n * w) \in Nat /\ q * (n * w) <= t /\ t < q * (n * w) + Width[m]
    BY <1>4, BucketBounds
  <2> QED
    BY <2>1, <2>2, <2>3
<1>6. q * (n * w) = (q * n) * w /\ q * n \in Nat /\ n * w \in Nat
  OBVIOUS
<1>7. (q * n) * w <= p * w
  <2>1. (q * n) * w < p * w + w
    BY <1>5, <1>6
  <2> QED
    BY <1>6, <2>1, Multiples
<1>8. p * w + w <= q * (n * w) + n * w
  <2>1. q * (n * w) + n * w = (q * n + (n - 1)) * w + w /\ q * n + (n - 1) \in Nat
    OBVIOUS
  <2>2. p * w < (q * n + (n - 1)) * w + w
    BY <1>5, <1>6, <2>1
  <2>3. p * w + w <= (q * n + (n - 1)) * w + w
    BY <2>1, <2>2, Multiples
  <2> QED
    BY <2>1, <2>3
<1>9. PICK r \in Nat : /\ Bucket(p * w, m) = r * (n * w) /\ r * (n * w) \in Nat
                       /\ r * (n * w) <= p * w /\ p * w < r * (n * w) + n * w
  BY <1>1, <1>2, <1>5, BucketBounds
<1>10. r = q
  <2>1. n * w \in Nat \ {0}
    BY <1>1, <1>2, BucketBounds
  <2>2. PICK v \in Nat \ {0} : v = n * w
    BY <2>1
  <2>3. q * v <= p * w /\ p * w < q * v + v
    BY <1>5, <1>6, <1>7, <2>2
  <2>4. r * v < q * v + v /\ q * v < r * v + v
    BY <1>5, <1>9, <2>2, <2>3
  <2> QED
    BY <2>4, Multiples
<1> QED
  BY <1>1, <1>2, <1>3, <1>4, <1>8, <1>9, <1>10

LEMMA BucketsAscend ==
  ASSUME NEW l \in Levels, NEW t \in Nat, NEW u \in Nat, t <= u
  PROVE  Bucket(t, l) <= Bucket(u, l)
<1>1. PICK w \in Nat \ {0} : w = Width[l]
  BY BucketBounds
<1>2. PICK p \in Nat : Bucket(t, l) = p * w /\ p * w \in Nat /\ p * w <= t
  BY <1>1, BucketBounds
<1>3. PICK q \in Nat : Bucket(u, l) = q * w /\ q * w \in Nat /\ u < q * w + w
  BY <1>1, BucketBounds
<1>4. p * w < q * w + w
  BY <1>2, <1>3
<1> QED
  BY <1>2, <1>3, <1>4, Multiples

\* What lies under a coarser bucket lies under it by its finer one.
LEMMA SameBuckets ==
  ASSUME NEW l \in Levels, NEW m \in Levels, l <= m, NEW t \in Nat, NEW u \in Nat
  PROVE  /\ Bucket(t, l) = Bucket(u, l) => Bucket(t, m) = Bucket(u, m)
         /\ Bucket(t, m) > Bucket(u, m) => Bucket(t, l) > Bucket(u, l)
<1>1. Bucket(t, l) \in Nat /\ Bucket(u, l) \in Nat /\ Bucket(t, m) \in Nat /\ Bucket(u, m) \in Nat
  BY BucketBounds
<1>2. /\ Bucket(Bucket(t, l), m) = Bucket(t, m)
      /\ Bucket(Bucket(u, l), m) = Bucket(u, m)
  BY BucketsNest
<1>3. Bucket(t, l) <= Bucket(u, l) => Bucket(t, m) <= Bucket(u, m)
  BY <1>1, <1>2, BucketsAscend
<1> QED
  BY <1>1, <1>2, <1>3

LEMMA BucketOfInstant == \A t \in Nat : Bucket(t, 0) = t
BY RollupAssumption DEF Bucket


-----------------------------------------------------------------------------
(* The inductive invariant.  That a quote moves up, and never off, needs   *)
(* only where the rows are.  That a replaced candle closes right needs     *)
(* their order: what was rolled up is older than what was not, a bucket    *)
(* is rolled up once and as a whole, and only when it is over.             *)

\* The row of some level up to l stands for the quote of t.
Present(t, l) == \E k \in 0 .. l : Bucket(t, k) \in DOMAIN rows[k]
Undropped == DOMAIN seen \ dropped

RollTyped ==
  /\ now \in 0 .. Horizon /\ at \in 0 .. now /\ step \in 0 .. 4
  /\ DOMAIN seen \subseteq 0 .. (now - 1)
  /\ \A t \in DOMAIN seen : seen[t] \in Mids
  /\ rows = [l \in Levels |-> rows[l]]

\* A row has a quote under it; a row of l0_raw is its quote.
Filled == \A l \in Levels : \A b \in DOMAIN rows[l] : \E t \in DOMAIN seen : Bucket(t, l) = b
Quoted ==
  \A t \in DOMAIN rows[0] : /\ t \in DOMAIN seen
                            /\ rows[0][t].close = seen[t]
                            /\ rows[0][t].high = seen[t] /\ rows[0][t].low = seen[t]
\* The levels the run is done with have no row that was old when it began.
RolledUp ==
  step < 4 => \A k \in 0 .. 2 : step > k => \A y \in DOMAIN rows[k] : y >= at - Keep[k]
OlderAbove ==
  \A l \in Levels : \A x \in DOMAIN rows[l], t \in Undropped :
    Bucket(t, l) > x => Present(t, l)
Whole ==
  \A l \in 0 .. 2 : \A t \in Undropped, u \in DOMAIN seen :
    Bucket(u, l) = Bucket(t, l) /\ Present(u, l) => Present(t, l)
BucketIsOver ==
  \A l \in 0 .. 2 : \A t \in Undropped : ~Present(t, l) => Bucket(t, l) + Width[l] <= now
LadderInv == RollTyped /\ Filled /\ NothingVanishes /\ RolledUp /\ OlderAbove /\ Whole /\ BucketIsOver

LEMMA SeenIsNat == RollTyped => \A t \in DOMAIN seen : t \in Nat /\ t \in Times /\ t < now
BY RollupAssumption DEF RollTyped, Times

LEMMA RowsAreFinite ==
  ASSUME RollTyped, Filled, NEW l \in Levels
  PROVE  DOMAIN rows[l] \subseteq 0 .. Horizon /\ IsFiniteSet(DOMAIN rows[l])
<1>1. \A b \in DOMAIN rows[l] : b \in 0 .. Horizon
  <2> SUFFICES ASSUME NEW b \in DOMAIN rows[l] PROVE b \in 0 .. Horizon
    OBVIOUS
  <2>1. PICK t \in DOMAIN seen : Bucket(t, l) = b
    BY DEF Filled
  <2>2. t \in Nat /\ t < Horizon
    BY SeenIsNat, RollupAssumption DEF Times
  <2> QED
    BY <2>1, <2>2, BucketBounds, RollupAssumption
<1>2. IsFiniteSet(0 .. Horizon)
  BY RollupAssumption, FS_Interval
<1> QED
  BY <1>1, <1>2, FS_Subset

(* What a step of a roll-up does to the rows.                              *)
Rolls(l) ==
  /\ l \in 0 .. 2 /\ step = l
  /\ rows' = [rows EXCEPT ![l] = Less(@, Deleted(l)), ![l + 1] = Upsert(l)]
  /\ UNCHANGED <<now, step, at, seen, dropped>>
Hit(l) == {Bucket(t, l + 1) : t \in Picked(l)}

LEMMA OldestArePicked ==
  ASSUME RollTyped, Filled, NEW l \in 0 .. 2
  PROVE  /\ Picked(l) \subseteq DOMAIN rows[l]
         /\ \A x \in Picked(l) : x \in Nat /\ x < at - Keep[l]
         /\ \A x \in Picked(l), y \in DOMAIN rows[l] : y < x => y \in Picked(l)
<1> DEFINE S == {t \in DOMAIN rows[l] : t < at - Keep[l]}
<1>1. Picked(l) = {t \in S : Cardinality({u \in S : u < t}) < Batch}
  BY DEF Picked, Older
<1>2. DOMAIN rows[l] \subseteq 0 .. Horizon /\ IsFiniteSet(DOMAIN rows[l])
  BY RowsAreFinite DEF Levels
<1>3. at \in Int /\ Keep[l] \in Int /\ Batch \in Nat
  BY RollupAssumption DEF RollTyped
<1>4. ASSUME NEW x \in Picked(l), NEW y \in DOMAIN rows[l], y < x
      PROVE  y \in Picked(l)
  <2>1. x \in S /\ x \in Int /\ y \in Int /\ y \in S
    BY <1>1, <1>2, <1>3, <1>4
  <2>2. {u \in S : u < y} \subseteq {u \in S : u < x}
    BY <1>2, <1>4, <2>1
  <2>3. IsFiniteSet({u \in S : u < x})
    BY <1>2, FS_Subset
  <2>4. /\ Cardinality({u \in S : u < y}) <= Cardinality({u \in S : u < x})
        /\ Cardinality({u \in S : u < y}) \in Nat /\ Cardinality({u \in S : u < x}) \in Nat
    BY <2>2, <2>3, FS_Subset, FS_CardinalityType
  <2>5. Cardinality({u \in S : u < x}) < Batch
    BY <1>1
  <2>6. Cardinality({u \in S : u < y}) < Batch
    BY <1>3, <2>4, <2>5
  <2> QED
    BY <1>1, <2>1, <2>6
<1>5. \A x \in Picked(l) : x \in Nat /\ x < at - Keep[l]
  BY <1>1, <1>2
<1> QED
  BY <1>1, <1>4, <1>5

LEMMA RowsAfterRoll ==
  ASSUME RollTyped, NEW l, Rolls(l)
  PROVE  /\ DOMAIN rows'[l] = DOMAIN rows[l] \ Picked(l)
         /\ DOMAIN rows'[l + 1] = DOMAIN rows[l + 1] \union Hit(l)
         /\ \A k \in Levels : k # l /\ k # l + 1 => rows'[k] = rows[k]
         /\ \A x \in DOMAIN rows'[l] : rows'[l][x] = rows[l][x]
         /\ \A b \in DOMAIN rows'[l + 1] : rows'[l + 1][b] =
              IF b \in Hit(l) THEN Merge(l, {t \in Picked(l) : Bucket(t, l + 1) = b})
              ELSE rows[l + 1][b]
         /\ rows' = [k \in Levels |-> rows'[k]]
<1>1. l \in Levels /\ l + 1 \in Levels /\ l # l + 1
  BY DEF Rolls, Levels
<1>2. /\ rows'[l] = Less(rows[l], Picked(l)) /\ rows'[l + 1] = Upsert(l)
      /\ \A k \in Levels : k # l /\ k # l + 1 => rows'[k] = rows[k]
      /\ rows' = [k \in Levels |-> rows'[k]]
  BY <1>1 DEF Rolls, RollTyped, Deleted
<1>3. Upsert(l) = [b \in DOMAIN rows[l + 1] \union Hit(l) |->
                     IF b \in Hit(l) THEN Merge(l, {t \in Picked(l) : Bucket(t, l + 1) = b})
                     ELSE rows[l + 1][b]]
  BY DEF Upsert, Hit
<1> QED
  BY <1>1, <1>2, <1>3 DEF Less

\* Where a quote is after the step.
LEMMA Moves ==
  ASSUME RollTyped, Filled, NEW l, Rolls(l), NEW t \in Nat, NEW m \in Levels
  PROVE  /\ m < l => (Present(t, m)' <=> Present(t, m))
         /\ m <= l /\ Present(t, m)' => Present(t, m)
         /\ m = l /\ Present(t, m) => Present(t, m)' \/ Bucket(t, l) \in Picked(l)
         /\ m > l /\ Present(t, m) => Present(t, m)'
         /\ m > l /\ Present(t, m)' => Present(t, m) \/ Bucket(t, l + 1) \in Hit(l)
<1>1. l \in 0 .. 2 /\ l \in Levels /\ l + 1 \in Levels
  BY DEF Rolls, Levels
<1>2. \A x \in Picked(l) : Bucket(x, l + 1) \in Hit(l)
  BY DEF Hit
<1>3. Bucket(Bucket(t, l), l + 1) = Bucket(t, l + 1)
  BY <1>1, BucketsNest
<1>4. \A k \in Levels :
        /\ k # l /\ k # l + 1 =>
             (Bucket(t, k) \in DOMAIN rows'[k] <=> Bucket(t, k) \in DOMAIN rows[k])
        /\ Bucket(t, l) \in DOMAIN rows'[l] <=>
             Bucket(t, l) \in DOMAIN rows[l] /\ Bucket(t, l) \notin Picked(l)
        /\ Bucket(t, l + 1) \in DOMAIN rows'[l + 1] <=>
             Bucket(t, l + 1) \in DOMAIN rows[l + 1] \/ Bucket(t, l + 1) \in Hit(l)
  BY RowsAfterRoll
<1>5. \A k \in 0 .. m : k \in Levels /\ k \in Int
  BY DEF Levels
<1>6. m \in Int /\ l \in Int /\ l \in 0 .. l /\ m \in 0 .. m
  BY <1>1 DEF Levels
<1>7. Present(t, m) <=> \E k \in 0 .. m : Bucket(t, k) \in DOMAIN rows[k]
  BY DEF Present
<1>8. Present(t, m)' <=> \E k \in 0 .. m : Bucket(t, k) \in DOMAIN rows'[k]
  BY DEF Present
<1>9. m < l => (Present(t, m)' <=> Present(t, m))
  BY <1>1, <1>4, <1>5, <1>6, <1>7, <1>8
<1>10. m <= l /\ Present(t, m)' => Present(t, m)
  BY <1>1, <1>4, <1>5, <1>6, <1>7, <1>8
<1>11. m = l /\ Present(t, m) => Present(t, m)' \/ Bucket(t, l) \in Picked(l)
  BY <1>1, <1>4, <1>5, <1>6, <1>7, <1>8
<1>12. m > l /\ Present(t, m) => Present(t, m)'
  <2> SUFFICES ASSUME m > l, NEW k \in 0 .. m, Bucket(t, k) \in DOMAIN rows[k]
               PROVE  \E j \in 0 .. m : Bucket(t, j) \in DOMAIN rows'[j]
    BY <1>7, <1>8
  <2>1. l + 1 \in 0 .. m
    BY <1>1, <1>6
  <2>2. CASE k = l /\ Bucket(t, l) \in Picked(l)
    BY <1>2, <1>3, <1>4, <1>1, <2>1, <2>2
  <2>3. CASE ~(k = l /\ Bucket(t, l) \in Picked(l))
    BY <1>4, <1>5, <2>3
  <2> QED
    BY <2>2, <2>3
<1>13. m > l /\ Present(t, m)' => Present(t, m) \/ Bucket(t, l + 1) \in Hit(l)
  BY <1>1, <1>4, <1>5, <1>6, <1>7, <1>8
<1> QED
  BY <1>9, <1>10, <1>11, <1>12, <1>13

\* Every quote of a bucket that is rolled up is at its level.
LEMMA PickedAreWhole ==
  ASSUME LadderInv, NEW l, Rolls(l), NEW x \in Picked(l), NEW u \in DOMAIN seen, Bucket(u, l) = x
  PROVE  /\ \A k \in 0 .. (l - 1) : Bucket(u, k) \notin DOMAIN rows[k]
         /\ x + Width[l] <= now
<1>1. l \in 0 .. 2 /\ l \in Levels /\ step = l /\ u \in Nat
  BY SeenIsNat DEF Rolls, Levels, LadderInv
<1>2. x \in Nat /\ x < at - Keep[l] /\ x + Width[l] \in Int /\ at \in Nat /\ now \in Nat /\ at <= now
  BY <1>1, OldestArePicked, BucketBounds DEF LadderInv, RollTyped
<1>3. \A k \in 0 .. l : Keep[l] - Width[l] >= Keep[k] - Width[k]
  <2>1. \A k \in 0 .. 2 : Keep[k] \in Nat /\ Width[k] \in Nat
    BY RollupAssumption
  <2>2. Keep[1] - Width[1] >= Keep[0] - Width[0] /\ Keep[2] - Width[2] >= Keep[1] - Width[1]
    <3>1. \A k \in {0, 1} : Keep[k + 1] - Width[k + 1] >= Keep[k] - Width[k]
      BY RollupAssumption
    <3>2. 0 + 1 = 1 /\ 1 + 1 = 2
      OBVIOUS
    <3>3. Keep[0 + 1] - Width[0 + 1] >= Keep[0] - Width[0]
      BY <3>1
    <3>4. Keep[1 + 1] - Width[1 + 1] >= Keep[1] - Width[1]
      BY <3>1
    <3> QED
      BY <3>2, <3>3, <3>4
  <2>3. \A k \in 0 .. 2 : Keep[k] - Width[k] \in Int
    BY <2>1
  <2>4. /\ Keep[0] - Width[0] \in Int /\ Keep[1] - Width[1] \in Int
        /\ Keep[2] - Width[2] \in Int
    BY <2>3
  <2>5. Keep[2] - Width[2] >= Keep[0] - Width[0]
    BY <2>2, <2>4
  <2>6. l \in {0, 1, 2} /\ \A k \in 0 .. l : k \in {0, 1, 2} /\ k <= l
    BY <1>1
  <2>7. \A k \in {0, 1, 2} : Keep[k] - Width[k] >= Keep[k] - Width[k]
    BY <2>3
  <2> QED
    BY <2>2, <2>5, <2>6, <2>7
<1>4. ASSUME NEW k \in 0 .. (l - 1) PROVE Bucket(u, k) \notin DOMAIN rows[k]
  <2>1. k \in Levels /\ k \in 0 .. 2 /\ k <= l /\ k < step /\ k \in 0 .. l
    BY <1>1 DEF Levels
  <2>2. Bucket(u, k) + Width[k] <= x + Width[l] /\ Bucket(u, k) \in Nat
    BY <1>1, <2>1, BucketsNest, BucketBounds
  <2>3. /\ Keep[k] \in Nat /\ Width[k] \in Nat /\ Keep[l] \in Nat /\ Width[l] \in Nat
        /\ Keep[l] - Width[l] >= Keep[k] - Width[k]
    BY <1>1, <1>3, <2>1, RollupAssumption
  <2>4. Bucket(u, k) < at - Keep[k]
    BY <1>2, <2>2, <2>3
  <2>5. \A y \in DOMAIN rows[k] : y >= at - Keep[k]
    BY <1>1, <2>1 DEF LadderInv, RolledUp
  <2> QED
    BY <1>2, <2>2, <2>3, <2>4, <2>5
<1>5. x + Width[l] <= now
  <2>1. /\ Keep[l] \in Nat /\ Width[l] \in Nat /\ Keep[0] \in Nat /\ Width[0] = 1
        /\ Keep[l] - Width[l] >= Keep[0] - Width[0]
    BY <1>1, <1>3, RollupAssumption
  <2> QED
    BY <1>2, <2>1
<1> QED
  BY <1>4, <1>5

-----------------------------------------------------------------------------
(* A step of a roll-up keeps the ladder                                    *)

LEMMA RollKeepsOrder ==
  ASSUME LadderInv, NEW l, Rolls(l)
  PROVE  OlderAbove'
<1>1. /\ RollTyped /\ Filled /\ l \in 0 .. 2 /\ l \in Levels /\ l + 1 \in Levels /\ l \in Int
      /\ Undropped' = Undropped
  BY DEF Rolls, Levels, LadderInv, Undropped
<1>2. \A t \in Undropped : t \in Nat
  BY <1>1, SeenIsNat DEF Undropped
<1> SUFFICES ASSUME NEW m \in Levels, NEW x \in DOMAIN rows'[m], NEW t \in Undropped,
                    Bucket(t, m) > x
             PROVE  Present(t, m)'
  BY <1>1 DEF OlderAbove
<1>3. t \in Nat
  BY <1>2
<1>4. CASE x \in DOMAIN rows[m] /\ m # l
  <2>1. Present(t, m)
    BY <1>4 DEF LadderInv, OlderAbove
  <2>2. m < l \/ m > l
    BY <1>1, <1>4 DEF Levels
  <2> QED
    BY <1>1, <1>3, <2>1, <2>2, Moves
<1>5. CASE m = l
  <2>1. x \in DOMAIN rows[l] /\ x \notin Picked(l)
    BY <1>1, <1>5, RowsAfterRoll
  <2>2. Present(t, l)
    BY <1>5, <2>1 DEF LadderInv, OlderAbove
  <2>3. Bucket(t, l) \notin Picked(l)
    BY <1>1, <1>5, <2>1, OldestArePicked
  <2> QED
    BY <1>1, <1>3, <1>5, <2>2, <2>3, Moves
<1>6. CASE x \notin DOMAIN rows[m] /\ m # l
  <2>1. m = l + 1 /\ x \in Hit(l)
    BY <1>1, <1>6, RowsAfterRoll
  <2>2. PICK y \in Picked(l) : x = Bucket(y, l + 1)
    BY <2>1 DEF Hit
  <2>3. y \in DOMAIN rows[l]
    BY <1>1, OldestArePicked
  <2>4. PICK v \in DOMAIN seen : Bucket(v, l) = y
    BY <1>1, <2>3 DEF Filled
  <2>5. v \in Nat /\ Bucket(v, l + 1) = x
    BY <1>1, <2>2, <2>4, SeenIsNat, BucketsNest
  <2>6. Bucket(t, l) > y
    BY <1>1, <1>3, <2>1, <2>4, <2>5, SameBuckets
  <2>7. Present(t, l)
    BY <1>1, <2>3, <2>6 DEF LadderInv, OlderAbove
  <2>8. Present(t, m)
    BY <1>1, <2>1, <2>7 DEF Present
  <2> QED
    BY <1>1, <1>3, <2>1, <2>8, Moves
<1> QED
  BY <1>4, <1>5, <1>6

LEMMA RollKeepsWhole ==
  ASSUME LadderInv, NEW l, Rolls(l)
  PROVE  Whole' /\ BucketIsOver'
<1>1. /\ RollTyped /\ Filled /\ l \in 0 .. 2 /\ l \in Levels /\ l + 1 \in Levels /\ l \in Int
      /\ Undropped' = Undropped /\ seen' = seen /\ now' = now
  BY DEF Rolls, Levels, LadderInv, Undropped
<1>2. \A t \in DOMAIN seen : t \in Nat
  BY <1>1, SeenIsNat
<1>3. Undropped \subseteq DOMAIN seen
  BY DEF Undropped
\* A quote that left level l was there with all of its bucket.
<1>4. ASSUME NEW t \in DOMAIN seen, Present(t, l), ~Present(t, l)'
      PROVE  /\ Bucket(t, l) + Width[l] <= now
             /\ \A u \in DOMAIN seen : Bucket(u, l) = Bucket(t, l) => ~Present(u, l)'
  <2>1. Bucket(t, l) \in Picked(l)
    BY <1>1, <1>2, <1>4, Moves
  <2>2. ASSUME NEW u \in DOMAIN seen, Bucket(u, l) = Bucket(t, l) PROVE ~Present(u, l)'
    <3>1. \A k \in 0 .. (l - 1) : Bucket(u, k) \notin DOMAIN rows[k]
      BY <2>1, <2>2, PickedAreWhole
    <3>2. \A k \in 0 .. (l - 1) : k \in Levels /\ k # l /\ k # l + 1
      BY <1>1 DEF Levels
    <3>3. Bucket(u, l) \notin DOMAIN rows'[l]
      BY <1>1, <2>1, <2>2, RowsAfterRoll
    <3>4. \A k \in 0 .. l : k = l \/ k \in 0 .. (l - 1)
      BY <1>1
    <3>5. \A k \in 0 .. l : Bucket(u, k) \notin DOMAIN rows'[k]
      BY <1>1, <3>1, <3>2, <3>3, <3>4, RowsAfterRoll
    <3> QED
      BY <3>5 DEF Present
  <2> QED
    BY <2>1, <2>2, PickedAreWhole
<1>5. ASSUME NEW m \in 0 .. 2, NEW t \in Undropped, NEW u \in DOMAIN seen,
             Bucket(u, m) = Bucket(t, m), ~Present(t, m)'
      PROVE  ~Present(u, m)'
  <2>0. m \in Levels /\ m \in Int /\ t \in Nat /\ u \in Nat /\ t \in DOMAIN seen
    BY <1>2, <1>3 DEF Levels
  <2>1. ~Present(t, m) => ~Present(u, m)
    BY <1>5 DEF LadderInv, Whole
  <2>2. CASE m < l
    BY <1>1, <1>5, <2>0, <2>1, <2>2, Moves
  <2>3. CASE m = l
    <3>1. CASE Present(t, l)
      BY <1>4, <1>5, <2>0, <2>3, <3>1
    <3>2. CASE ~Present(t, l)
      BY <1>1, <2>0, <2>1, <2>3, <3>2, Moves
    <3> QED
      BY <3>1, <3>2
  <2>4. CASE m > l
    <3>1. ~Present(t, m) /\ ~Present(u, m)
      BY <1>1, <1>5, <2>0, <2>1, <2>4, Moves
    <3>2. Bucket(u, l + 1) \notin Hit(l)
      <4> SUFFICES ASSUME Bucket(u, l + 1) \in Hit(l) PROVE FALSE
        OBVIOUS
      <4>1. PICK x \in Picked(l) : Bucket(u, l + 1) = Bucket(x, l + 1)
        BY DEF Hit
      <4>2. x \in DOMAIN rows[l]
        BY <1>1, OldestArePicked
      <4>3. PICK v \in DOMAIN seen : Bucket(v, l) = x
        BY <1>1, <4>2 DEF Filled
      <4>4. v \in Nat /\ Bucket(v, l + 1) = Bucket(u, l + 1)
        BY <1>1, <1>2, <4>1, <4>3, BucketsNest
      <4>5. Bucket(v, m) = Bucket(u, m)
        BY <1>1, <2>0, <2>4, <4>4, SameBuckets
      <4>6. Present(v, m)
        BY <1>1, <2>0, <2>4, <4>2, <4>3 DEF Present
      <4> QED
        BY <1>5, <3>1, <4>5, <4>6 DEF LadderInv, Whole
    <3> QED
      BY <1>1, <2>0, <2>4, <3>1, <3>2, Moves
  <2> QED
    BY <1>1, <2>0, <2>2, <2>3, <2>4
<1>6. ASSUME NEW m \in 0 .. 2, NEW t \in Undropped, ~Present(t, m)'
      PROVE  Bucket(t, m) + Width[m] <= now
  <2>0. m \in Levels /\ m \in Int /\ t \in Nat /\ t \in DOMAIN seen
    BY <1>2, <1>3 DEF Levels
  <2>1. CASE Present(t, m)
    <3>1. m = l
      BY <1>1, <1>6, <2>0, <2>1, Moves
    <3> QED
      BY <1>4, <1>6, <2>0, <2>1, <3>1
  <2>2. CASE ~Present(t, m)
    BY <2>2 DEF LadderInv, BucketIsOver
  <2> QED
    BY <2>1, <2>2
<1> QED
  BY <1>1, <1>5, <1>6 DEF Whole, BucketIsOver

LEMMA RollKeepsRows ==
  ASSUME LadderInv, NEW l, Rolls(l)
  PROVE  RollTyped' /\ Filled' /\ NothingVanishes' /\ RolledUp'
<1>1. /\ RollTyped /\ Filled /\ l \in 0 .. 2 /\ l \in Levels /\ l + 1 \in Levels /\ l \in Int
      /\ UNCHANGED <<now, step, at, seen, dropped>> /\ step = l
  BY DEF Rolls, Levels, LadderInv
<1>2. RollTyped'
  BY <1>1, RowsAfterRoll DEF RollTyped
<1>3. Filled'
  <2> SUFFICES ASSUME NEW m \in Levels, NEW b \in DOMAIN rows'[m]
               PROVE  \E t \in DOMAIN seen : Bucket(t, m) = b
    BY <1>1 DEF Filled
  <2>1. CASE b \in DOMAIN rows[m]
    BY <1>1, <2>1 DEF Filled
  <2>2. CASE b \notin DOMAIN rows[m]
    <3>1. m = l + 1 /\ b \in Hit(l)
      BY <1>1, <2>2, RowsAfterRoll
    <3>2. PICK x \in Picked(l) : b = Bucket(x, l + 1)
      BY <3>1 DEF Hit
    <3>3. PICK t \in DOMAIN seen : Bucket(t, l) = x
      BY <1>1, OldestArePicked DEF Filled
    <3> QED
      BY <1>1, <3>1, <3>2, <3>3, SeenIsNat, BucketsNest
  <2> QED
    BY <2>1, <2>2
<1>4. NothingVanishes'
  <2>1. \A t \in DOMAIN seen \ dropped : Present(t, 3)
    BY DEF LadderInv, NothingVanishes, Present, Levels
  <2>2. \A t \in DOMAIN seen \ dropped : Present(t, 3)'
    BY <1>1, <2>1, SeenIsNat, Moves DEF Levels
  <2>3. (\A t \in DOMAIN seen \ dropped : Present(t, 3))'
    BY <1>1, <2>2
  <2> QED
    BY <2>3 DEF NothingVanishes, Present, Levels
<1>5. RolledUp'
  <2> SUFFICES ASSUME NEW k \in 0 .. 2, step > k, NEW y \in DOMAIN rows'[k]
               PROVE  y >= at - Keep[k]
    BY <1>1 DEF RolledUp
  <2>1. k \in Levels /\ k # l /\ k # l + 1
    BY <1>1 DEF Levels
  <2>2. y \in DOMAIN rows[k]
    BY <1>1, <2>1, RowsAfterRoll
  <2> QED
    BY <1>1, <2>2 DEF LadderInv, RolledUp
<1> QED
  BY <1>2, <1>3, <1>4, <1>5

-----------------------------------------------------------------------------
(* The other steps keep the ladder                                         *)

(* Nothing is picked when nothing is old.                                  *)
LEMMA NothingOld ==
  ASSUME RollTyped, Filled, NEW l \in 0 .. 2, Picked(l) = {}
  PROVE  \A y \in DOMAIN rows[l] : y >= at - Keep[l]
<1> DEFINE S == {t \in DOMAIN rows[l] : t < at - Keep[l]}
<1>1. DOMAIN rows[l] \subseteq 0 .. Horizon /\ at \in Int /\ Keep[l] \in Int /\ Batch \in Nat \ {0}
  BY RowsAreFinite, RollupAssumption DEF Levels, RollTyped
<1>2. S = {}
  <2> SUFFICES ASSUME S # {} PROVE FALSE
    OBVIOUS
  <2>1. S \in SUBSET Nat
    BY <1>1
  <2>2. PICK y \in S : \A z \in S : ~ (<<z, y>> \in OpToRel(<, Nat))
    BY <2>1, NatLessThanWellFounded, WFMin
  <2>3. {u \in S : u < y} = {}
    BY <2>1, <2>2 DEF OpToRel
  <2>4. Cardinality({u \in S : u < y}) = 0
    BY <2>3, FS_EmptySet
  <2>5. y \in Picked(l)
    BY <1>1, <2>4 DEF Picked, Older
  <2> QED
    BY <2>5
<1>3. \A y \in DOMAIN rows[l] : y \in Int /\ y \notin S
  BY <1>1, <1>2
<1> QED
  BY <1>1, <1>3

LEMMA QuietSteps ==
  ASSUME LadderInv, UNCHANGED <<now, rows, seen, dropped>>, at' \in 0 .. now, step' \in 0 .. 4, RolledUp'
  PROVE  LadderInv'
BY DEF LadderInv, RollTyped, Filled, NothingVanishes, OlderAbove, Whole, BucketIsOver, Present,
       Undropped

LEMMA RunSteps ==
  ASSUME LadderInv,
         \/ StartRun \/ EndRun \/ UNCHANGED rollupVars
         \/ /\ step \in 0 .. 2 /\ step' = step + 1
            /\ at - Keep[step] <= 0 \/ Picked(step) = {}
            /\ UNCHANGED <<now, rows, at, seen, dropped>>
  PROVE  LadderInv'
<1>1. RollTyped /\ Filled /\ RolledUp /\ now \in Nat /\ at \in Nat /\ at <= now /\ step \in 0 .. 4
  BY RollupAssumption DEF LadderInv, RollTyped
<1>2. CASE StartRun
  <2>1. step' = 0 /\ at' = now /\ UNCHANGED <<now, rows, seen, dropped>>
    BY <1>2 DEF StartRun
  <2>2. RolledUp'
    BY <2>1 DEF RolledUp
  <2> QED
    BY <1>1, <2>1, <2>2, QuietSteps
<1>3. CASE EndRun
  <2>1. step' = 4 /\ at' = at /\ UNCHANGED <<now, rows, seen, dropped>>
    BY <1>3 DEF EndRun
  <2>2. RolledUp'
    BY <2>1 DEF RolledUp
  <2> QED
    BY <1>1, <2>1, <2>2, QuietSteps
<1>4. CASE UNCHANGED rollupVars
  <2>1. UNCHANGED <<now, rows, seen, dropped, at, step>>
    BY <1>4 DEF rollupVars
  <2>2. RolledUp'
    BY <1>1, <2>1 DEF RolledUp
  <2> QED
    BY <1>1, <2>1, <2>2, QuietSteps
<1>5. CASE /\ step \in 0 .. 2 /\ step' = step + 1
           /\ at - Keep[step] <= 0 \/ Picked(step) = {}
           /\ UNCHANGED <<now, rows, at, seen, dropped>>
  <2>1. \A y \in DOMAIN rows[step] : y >= at - Keep[step]
    <3>1. CASE Picked(step) = {}
      BY <1>1, <1>5, <3>1, NothingOld
    <3>2. CASE at - Keep[step] <= 0
      <4>1. step \in Levels /\ Keep[step] \in Nat
        BY <1>5, RollupAssumption DEF Levels
      <4>2. DOMAIN rows[step] \subseteq 0 .. Horizon
        BY <1>1, <4>1, RowsAreFinite
      <4> QED
        BY <1>1, <3>2, <4>1, <4>2
    <3> QED
      BY <1>5, <3>1, <3>2
  <2>2. RolledUp'
    <3> SUFFICES ASSUME NEW k \in 0 .. 2, step' > k, NEW y \in DOMAIN rows[k]
                 PROVE  y >= at - Keep[k]
      BY <1>5 DEF RolledUp
    <3>1. k = step \/ step > k
      BY <1>1, <1>5
    <3>2. step < 4
      BY <1>5
    <3> QED
      BY <1>1, <2>1, <3>1, <3>2 DEF RolledUp
  <2> QED
    BY <1>1, <1>5, <2>2, QuietSteps
<1> QED
  BY <1>2, <1>3, <1>4, <1>5

(* A quote comes in.                                                       *)
Comes(m) ==
  /\ now < Horizon /\ now' = now + 1 /\ m \in Mids
  /\ rows' = [rows EXCEPT ![0] = With(@, now, QuoteRow(m))]
  /\ seen' = With(seen, now, m)
  /\ UNCHANGED <<step, at, dropped>>

LEMMA AfterQuote ==
  ASSUME RollTyped, Filled, NEW m, Comes(m), NEW n, n = now
  PROVE  /\ now \in Nat /\ now \notin DOMAIN seen
         /\ DOMAIN seen' = DOMAIN seen \union {now}
         /\ \A t \in DOMAIN seen : seen'[t] = seen[t]
         /\ seen'[now] = m
         /\ DOMAIN rows'[0] = DOMAIN rows[0] \union {now}
         /\ \A t \in DOMAIN rows[0] : t # now /\ rows'[0][t] = rows[0][t]
         /\ rows'[0][now] = QuoteRow(m)
         /\ \A k \in Levels : k # 0 => rows'[k] = rows[k]
         /\ rows' = [k \in Levels |-> rows'[k]]
         /\ \A t \in DOMAIN seen, l \in Levels : Present(t, l)' <=> Present(t, l)
         /\ \A l \in Levels : Present(n, l)'
<1>1. now \in Nat /\ now \notin DOMAIN seen /\ 0 \in Levels
  BY RollupAssumption DEF RollTyped, Levels
<1>2. /\ DOMAIN seen' = DOMAIN seen \union {now}
      /\ \A t \in DOMAIN seen : seen'[t] = seen[t]
      /\ seen'[now] = m
  BY <1>1 DEF Comes, With
<1>3. /\ rows'[0] = With(rows[0], now, QuoteRow(m))
      /\ \A k \in Levels : k # 0 => rows'[k] = rows[k]
      /\ rows' = [k \in Levels |-> rows'[k]]
  BY <1>1 DEF Comes, RollTyped
<1>4. \A t \in DOMAIN rows[0] : t # now
  <2> SUFFICES ASSUME NEW t \in DOMAIN rows[0] PROVE t # now
    OBVIOUS
  <2>1. PICK u \in DOMAIN seen : Bucket(u, 0) = t
    BY <1>1 DEF Filled
  <2>2. u \in Nat /\ u = t
    BY <2>1, SeenIsNat, BucketOfInstant
  <2> QED
    BY <1>1, <2>2
<1>5. /\ DOMAIN rows'[0] = DOMAIN rows[0] \union {now}
      /\ \A t \in DOMAIN rows[0] : t # now /\ rows'[0][t] = rows[0][t]
      /\ rows'[0][now] = QuoteRow(m)
  BY <1>3, <1>4 DEF With
<1>6. ASSUME NEW t \in DOMAIN seen, NEW l \in Levels PROVE Present(t, l)' <=> Present(t, l)
  <2>1. t \in Nat /\ t # now /\ Bucket(t, 0) = t
    BY <1>1, SeenIsNat, BucketOfInstant
  <2>2. \A k \in 0 .. l : k \in Levels
    BY DEF Levels
  <2>3. \A k \in 0 .. l : Bucket(t, k) \in DOMAIN rows'[k] <=> Bucket(t, k) \in DOMAIN rows[k]
    BY <1>3, <1>5, <2>1, <2>2
  <2> QED
    BY <2>3 DEF Present
<1>7. ASSUME NEW l \in Levels PROVE Present(n, l)'
  <2>1. 0 \in 0 .. l
    BY DEF Levels
  <2>2. Bucket(n, 0) \in DOMAIN rows'[0]
    BY <1>1, <1>5, BucketOfInstant
  <2> QED
    BY <2>1, <2>2 DEF Present
<1> QED
  BY <1>1, <1>2, <1>3, <1>5, <1>6, <1>7

LEMMA QuoteKeepsLadder ==
  ASSUME LadderInv, NEW m, Comes(m)
  PROVE  LadderInv'
<1>0. PICK n : n = now
  OBVIOUS
<1>1. /\ RollTyped /\ Filled /\ UNCHANGED <<step, at, dropped>> /\ now' = n + 1 /\ n < Horizon
      /\ m \in Mids /\ now \in 0 .. Horizon /\ at \in 0 .. now /\ n \in Nat
  BY <1>0, RollupAssumption DEF Comes, LadderInv, RollTyped
<1>2. /\ n \notin DOMAIN seen /\ DOMAIN seen' = DOMAIN seen \union {n}
      /\ \A t \in DOMAIN seen : seen'[t] = seen[t]
      /\ seen'[n] = m
      /\ DOMAIN rows'[0] = DOMAIN rows[0] \union {n}
      /\ \A k \in Levels : k # 0 => rows'[k] = rows[k]
      /\ rows' = [k \in Levels |-> rows'[k]]
      /\ \A t \in DOMAIN seen, l \in Levels : Present(t, l)' <=> Present(t, l)
      /\ \A l \in Levels : Present(n, l)'
  BY <1>0, <1>1, AfterQuote
<1>3. \A t \in DOMAIN seen : t \in Nat /\ t < n
  BY <1>0, <1>1, SeenIsNat
<1>4. RollTyped'
  <2>1. DOMAIN seen' \subseteq 0 .. (now' - 1)
    BY <1>1, <1>2, <1>3
  <2>2. \A t \in DOMAIN seen' : seen'[t] \in Mids
    BY <1>1, <1>2 DEF RollTyped
  <2>3. now' \in 0 .. Horizon /\ at' \in 0 .. now' /\ step' \in 0 .. 4
    BY <1>0, <1>1, RollupAssumption DEF RollTyped
  <2> QED
    BY <1>2, <2>1, <2>2, <2>3 DEF RollTyped
<1>5. Filled'
  <2> SUFFICES ASSUME NEW l \in Levels, NEW b \in DOMAIN rows'[l]
               PROVE  \E t \in DOMAIN seen' : Bucket(t, l) = b
    BY DEF Filled
  <2>1. CASE b \in DOMAIN rows[l]
    BY <1>1, <1>2, <2>1 DEF Filled
  <2>2. CASE b \notin DOMAIN rows[l]
    <3>1. l = 0 /\ b = n
      BY <1>2, <2>2
    <3> QED
      BY <1>1, <1>2, <3>1, BucketOfInstant
  <2> QED
    BY <2>1, <2>2
<1>6. NothingVanishes'
  <2>1. \A t \in DOMAIN seen \ dropped : Present(t, 3)
    BY DEF LadderInv, NothingVanishes, Present, Levels
  <2>2. \A t \in DOMAIN seen' \ dropped : Present(t, 3)'
    BY <1>2, <2>1 DEF Levels
  <2>3. (\A t \in DOMAIN seen \ dropped : Present(t, 3))'
    BY <1>1, <2>2
  <2> QED
    BY <2>3 DEF NothingVanishes, Present, Levels
<1>7. RolledUp'
  <2> SUFFICES ASSUME step < 4, NEW k \in 0 .. 2, step > k, NEW y \in DOMAIN rows'[k]
               PROVE  y >= at - Keep[k]
    BY <1>1 DEF RolledUp
  <2>1. CASE y \in DOMAIN rows[k]
    BY <2>1 DEF LadderInv, RolledUp
  <2>2. CASE y \notin DOMAIN rows[k]
    <3>1. k \in Levels
      BY DEF Levels
    <3>2. y = n
      BY <1>2, <2>2, <3>1
    <3>3. Keep[k] \in Nat
      BY RollupAssumption
    <3> QED
      BY <1>0, <1>1, <3>2, <3>3
  <2> QED
    BY <2>1, <2>2
<1>8. OlderAbove'
  <2> SUFFICES ASSUME NEW l \in Levels, NEW x \in DOMAIN rows'[l],
                      NEW t \in DOMAIN seen', t \notin dropped, Bucket(t, l) > x
               PROVE  Present(t, l)'
    BY <1>1 DEF OlderAbove, Undropped
  <2>1. CASE t = n
    BY <1>2, <2>1
  <2>2. CASE t # n /\ x \in DOMAIN rows[l]
    <3>1. t \in Undropped
      BY <1>2, <2>2 DEF Undropped
    <3>2. Present(t, l)
      BY <2>2, <3>1 DEF LadderInv, OlderAbove
    <3> QED
      BY <1>2, <2>2, <3>2
  <2>3. CASE t # n /\ x \notin DOMAIN rows[l]
    <3>1. l = 0 /\ x = n /\ t \in Nat /\ t < n /\ Bucket(t, 0) = t
      BY <1>2, <1>3, <2>3, BucketOfInstant
    <3> QED
      BY <1>1, <3>1
  <2> QED
    BY <2>1, <2>2, <2>3
<1>9. Whole'
  <2> SUFFICES ASSUME NEW l \in 0 .. 2, NEW t \in DOMAIN seen', t \notin dropped,
                      NEW u \in DOMAIN seen', Bucket(u, l) = Bucket(t, l), Present(u, l)'
               PROVE  Present(t, l)'
    BY <1>1 DEF Whole, Undropped
  <2>0. l \in Levels
    BY DEF Levels
  <2>1. CASE t = n
    BY <1>2, <2>0, <2>1
  <2>2. CASE t # n /\ u # n
    <3>1. t \in Undropped /\ u \in DOMAIN seen
      BY <1>2, <2>2 DEF Undropped
    <3>2. Present(t, l)
      BY <1>2, <2>0, <3>1 DEF LadderInv, Whole
    <3> QED
      BY <1>2, <2>0, <2>2, <3>2
  <2>3. CASE t # n /\ u = n
    <3>1. t \in Undropped /\ t \in DOMAIN seen
      BY <1>2, <2>3 DEF Undropped
    <3>2. /\ n < Bucket(n, l) + Width[l] /\ Bucket(n, l) = Bucket(t, l)
          /\ Bucket(n, l) \in Nat /\ Width[l] \in Nat
      BY <1>1, <2>0, <2>3, BucketBounds
    <3>3. Present(t, l)
      BY <1>0, <1>1, <3>1, <3>2 DEF LadderInv, BucketIsOver
    <3> QED
      BY <1>2, <2>0, <3>1, <3>3
  <2> QED
    BY <2>1, <2>2, <2>3
<1>10. BucketIsOver'
  <2> SUFFICES ASSUME NEW l \in 0 .. 2, NEW t \in DOMAIN seen', t \notin dropped,
                      ~Present(t, l)'
               PROVE  Bucket(t, l) + Width[l] <= now'
    BY <1>1 DEF BucketIsOver, Undropped
  <2>0. l \in Levels
    BY DEF Levels
  <2>1. t # n /\ t \in Undropped /\ t \in DOMAIN seen
    BY <1>2, <2>0 DEF Undropped
  <2>2. ~Present(t, l)
    BY <1>2, <2>0, <2>1
  <2>3. Bucket(t, l) + Width[l] <= now
    BY <2>1, <2>2 DEF LadderInv, BucketIsOver
  <2>4. Bucket(t, l) \in Nat /\ Width[l] \in Nat
    BY <1>3, <2>0, <2>1, BucketBounds
  <2> QED
    BY <1>0, <1>1, <2>3, <2>4
<1> QED
  BY <1>4, <1>5, <1>6, <1>7, <1>8, <1>9, <1>10 DEF LadderInv

\* Nothing comes in.
LEMMA QuietQuote ==
  ASSUME LadderInv, now < Horizon, now' = now + 1, UNCHANGED <<rows, seen, step, at, dropped>>
  PROVE  LadderInv'
<1>1. RollTyped'
  BY RollupAssumption DEF LadderInv, RollTyped
<1>2. BucketIsOver'
  <2> SUFFICES ASSUME NEW l \in 0 .. 2, NEW t \in Undropped, ~Present(t, l)
               PROVE  Bucket(t, l) + Width[l] <= now + 1
    BY DEF BucketIsOver, Undropped, Present
  <2>1. Bucket(t, l) + Width[l] <= now
    BY DEF LadderInv, BucketIsOver
  <2>2. Bucket(t, l) \in Nat /\ Width[l] \in Nat /\ now \in Nat
    BY SeenIsNat, BucketBounds, RollupAssumption DEF LadderInv, RollTyped, Undropped, Levels
  <2> QED
    BY <2>1, <2>2
<1> QED
  BY <1>1, <1>2
  DEF LadderInv, Filled, NothingVanishes, RolledUp, OlderAbove, Whole, Present, Undropped

(* An emergency.                                                           *)
Deletes(l) ==
  /\ l \in 1 .. 3 /\ step = 3
  /\ rows' = [rows EXCEPT ![l] = Less(@, Odd(l))]
  /\ dropped' = dropped \union UNION {Under(l, b) : b \in Odd(l)}
  /\ UNCHANGED <<now, step, at, seen>>

LEMMA AfterDelete ==
  ASSUME RollTyped, NEW l, Deletes(l)
  PROVE  /\ dropped \subseteq dropped'
         /\ \A k \in Levels : /\ DOMAIN rows'[k] \subseteq DOMAIN rows[k]
                              /\ \A x \in DOMAIN rows'[k] : rows'[k][x] = rows[k][x]
         /\ \A t \in DOMAIN seen, k \in Levels :
              Bucket(t, k) \in DOMAIN rows[k] /\ t \notin dropped' => Bucket(t, k) \in DOMAIN rows'[k]
         /\ rows' = [k \in Levels |-> rows'[k]]
         /\ \A t \in DOMAIN seen, k \in Levels : Present(t, k)' => Present(t, k)
         /\ \A t \in DOMAIN seen, k \in Levels :
              Present(t, k) /\ t \notin dropped' => Present(t, k)'
<1>1. /\ l \in Levels /\ rows'[l] = Less(rows[l], Odd(l))
      /\ \A k \in Levels : k # l => rows'[k] = rows[k]
      /\ rows' = [k \in Levels |-> rows'[k]]
  <2>1. l \in Levels /\ rows = [k \in Levels |-> rows[k]]
    BY DEF Deletes, RollTyped, Levels
  <2>2. rows' = [rows EXCEPT ![l] = Less(rows[l], Odd(l))]
    BY DEF Deletes
  <2> QED
    BY <2>1, <2>2
<1>2. \A k \in Levels : /\ DOMAIN rows'[k] \subseteq DOMAIN rows[k]
                        /\ \A x \in DOMAIN rows'[k] : rows'[k][x] = rows[k][x]
  BY <1>1 DEF Less
<1>3. dropped \subseteq dropped' /\ \A b \in Odd(l) : Under(l, b) \subseteq dropped'
  BY DEF Deletes
<1>4. ASSUME NEW t \in DOMAIN seen, NEW k \in Levels,
             Bucket(t, k) \in DOMAIN rows[k], t \notin dropped'
      PROVE  Bucket(t, k) \in DOMAIN rows'[k]
  <2>1. t \in Times
    BY SeenIsNat
  <2>2. t \in Under(k, Bucket(t, k))
    BY <2>1 DEF Under
  <2>3. CASE k # l
    BY <1>1, <1>4, <2>3
  <2>4. CASE k = l
    BY <1>1, <1>3, <1>4, <2>2, <2>4 DEF Less
  <2> QED
    BY <2>3, <2>4
<1>5. \A k \in Levels : \A j \in 0 .. k : j \in Levels
  BY DEF Levels
<1>6. \A t \in DOMAIN seen, k \in Levels : Present(t, k)' => Present(t, k)
  BY <1>2, <1>5 DEF Present
<1>7. ASSUME NEW t \in DOMAIN seen, NEW k \in Levels, Present(t, k), t \notin dropped'
      PROVE  Present(t, k)'
  BY <1>4, <1>5, <1>7 DEF Present
<1> QED
  BY <1>1, <1>2, <1>3, <1>4, <1>6, <1>7

LEMMA DeleteKeepsLadder ==
  ASSUME LadderInv, NEW l, Deletes(l)
  PROVE  LadderInv'
<1>1. /\ RollTyped /\ UNCHANGED <<now, step, at, seen>>
      /\ dropped \subseteq dropped'
      /\ \A k \in Levels : DOMAIN rows'[k] \subseteq DOMAIN rows[k]
      /\ rows' = [k \in Levels |-> rows'[k]]
      /\ \A t \in DOMAIN seen, k \in Levels : Present(t, k)' => Present(t, k)
      /\ \A t \in DOMAIN seen, k \in Levels : Present(t, k) /\ t \notin dropped' => Present(t, k)'
  BY AfterDelete DEF LadderInv, Deletes
<1>2. RollTyped'
  BY <1>1 DEF RollTyped
<1>3. Filled'
  BY <1>1 DEF LadderInv, Filled
<1>4. NothingVanishes'
  <2>1. \A t \in DOMAIN seen \ dropped : Present(t, 3)
    BY DEF LadderInv, NothingVanishes, Present, Levels
  <2>2. \A t \in DOMAIN seen \ dropped' : Present(t, 3)'
    BY <1>1, <2>1 DEF Levels
  <2>3. (\A t \in DOMAIN seen \ dropped : Present(t, 3))'
    BY <1>1, <2>2
  <2> QED
    BY <2>3 DEF NothingVanishes, Present, Levels
<1>5. RolledUp'
  BY <1>1 DEF LadderInv, RolledUp, Levels
<1>6. Undropped' \subseteq Undropped /\ \A t \in Undropped' : t \in DOMAIN seen /\ t \notin dropped'
  BY <1>1 DEF Undropped
<1>7. \A k \in 0 .. 2 : k \in Levels
  BY DEF Levels
<1>8. OlderAbove'
  BY <1>1, <1>6 DEF LadderInv, OlderAbove
<1>9. Whole'
  BY <1>1, <1>6, <1>7 DEF LadderInv, Whole
<1>10. BucketIsOver'
  BY <1>1, <1>6, <1>7 DEF LadderInv, BucketIsOver
<1> QED
  BY <1>2, <1>3, <1>4, <1>5, <1>8, <1>9, <1>10 DEF LadderInv

LEMMA LadderInit == RollupInit => LadderInv
<1> SUFFICES ASSUME RollupInit PROVE LadderInv
  OBVIOUS
<1>1. /\ DOMAIN seen = {} /\ Undropped = {}
      /\ \A l \in Levels : DOMAIN rows[l] = {}
  BY DEF RollupInit, Undropped
<1>2. RollTyped
  BY <1>1, RollupAssumption DEF RollupInit, RollTyped
<1> QED
  BY <1>1, <1>2
  DEF RollupInit, LadderInv, Filled, NothingVanishes, RolledUp, OlderAbove, Whole, BucketIsOver,
      Undropped

\* The steps, by what they do to the rows.
LEMMA StepsOfRollup ==
  ASSUME [RollupNext]_rollupVars
  PROVE  \/ \E m : Comes(m)
         \/ now < Horizon /\ now' = now + 1 /\ UNCHANGED <<rows, seen, step, at, dropped>>
         \/ \E l : Rolls(l)
         \/ \E l : Deletes(l)
         \/ StartRun \/ EndRun \/ UNCHANGED rollupVars
         \/ /\ step \in 0 .. 2 /\ step' = step + 1
            /\ at - Keep[step] <= 0 \/ Picked(step) = {}
            /\ UNCHANGED <<now, rows, at, seen, dropped>>
<1>1. WriteQuote => \/ \E m : Comes(m)
                    \/ now < Horizon /\ now' = now + 1 /\ UNCHANGED <<rows, seen, step, at, dropped>>
  BY DEF WriteQuote, Comes
<1>2. RollStep => \/ \E l : Rolls(l)
                  \/ /\ step \in 0 .. 2 /\ step' = step + 1
                     /\ at - Keep[step] <= 0 \/ Picked(step) = {}
                     /\ UNCHANGED <<now, rows, at, seen, dropped>>
  BY DEF RollStep, Rolls
<1>3. ASSUME HalfDelete PROVE \E l : Deletes(l)
  <2>1. PICK l \in 1 .. 3 :
          /\ rows' = [rows EXCEPT ![l] = Less(@, Odd(l))]
          /\ dropped' = dropped \union UNION {Under(l, b) : b \in Odd(l)}
    BY <1>3 DEF HalfDelete
  <2>2. step = 3 /\ UNCHANGED <<now, step, at, seen>>
    BY <1>3 DEF HalfDelete
  <2>3. Deletes(l)
    BY <2>1, <2>2 DEF Deletes
  <2> QED
    BY <2>3
<1> QED
  BY <1>1, <1>2, <1>3 DEF RollupNext

LEMMA LadderNext == LadderInv /\ [RollupNext]_rollupVars => LadderInv'
BY StepsOfRollup, QuoteKeepsLadder, QuietQuote, RollKeepsOrder, RollKeepsWhole, RollKeepsRows,
   DeleteKeepsLadder, RunSteps DEF LadderInv

(* A quote is never lost between two levels, wherever the batches, the     *)
(* budget of a run or the next run cut a roll-up off.                      *)
THEOREM NoQuoteVanishes == RollupSpec => []NothingVanishes
<1>1. LadderInv => NothingVanishes
  BY DEF LadderInv
<1> QED
  BY <1>1, LadderInit, LadderNext, PTL DEF RollupSpec

-----------------------------------------------------------------------------
(* The closing price of a candle that was replaced                         *)

(* Largest and smallest elements.                                          *)
LEMMA FiniteIsBounded ==
  ASSUME NEW S \in SUBSET Nat, IsFiniteSet(S)
  PROVE  \E n \in Nat : \A x \in S : x <= n
<1> DEFINE Bounded(T) == \E n \in Nat : \A x \in T : x <= n
           Sizes == {Cardinality(T) : T \in {T \in SUBSET S : ~Bounded(T)}}
<1> SUFFICES ASSUME ~Bounded(S) PROVE FALSE
  OBVIOUS
<1>1. \A T \in SUBSET S : IsFiniteSet(T) /\ Cardinality(T) \in Nat
  BY FS_Subset, FS_CardinalityType
<1>2. Sizes \in SUBSET Nat /\ Sizes # {}
  BY <1>1
<1> HIDE DEF Sizes
<1>3. PICK c \in Sizes : \A d \in Sizes : ~ (<<d, c>> \in OpToRel(<, Nat))
  BY <1>2, NatLessThanWellFounded, WFMin
<1>4. PICK T \in SUBSET S : ~Bounded(T) /\ c = Cardinality(T)
  BY <1>3 DEF Sizes
<1>5. PICK e : e \in T
  BY <1>4
<1>6. /\ IsFiniteSet(T \ {e}) /\ Cardinality(T \ {e}) = c - 1 /\ c \in Nat
      /\ Cardinality(T \ {e}) \in Nat
  BY <1>1, <1>4, <1>5, FS_RemoveElement
<1>7. Bounded(T \ {e})
  <2> SUFFICES ASSUME ~Bounded(T \ {e}) PROVE FALSE
    OBVIOUS
  <2>1. c - 1 \in Sizes
    BY <1>4, <1>6 DEF Sizes
  <2>2. <<c - 1, c>> \in OpToRel(<, Nat)
    BY <1>6 DEF OpToRel
  <2> QED
    BY <1>3, <2>1, <2>2
<1>8. PICK n \in Nat : \A x \in T \ {e} : x <= n
  BY <1>7
<1>9. e \in Nat /\ \A x \in T : x \in Nat
  BY <1>5
<1>10. PICK k \in Nat : n <= k /\ e <= k
  <2>1. n <= n + e /\ e <= n + e /\ n + e \in Nat
    BY <1>9
  <2> QED
    BY <2>1
<1>11. \A x \in T : x <= k
  BY <1>8, <1>9, <1>10
<1> QED
  BY <1>4, <1>11

LEMMA LargestAndSmallest ==
  ASSUME NEW S \in SUBSET Nat, IsFiniteSet(S), S # {}
  PROVE  Max(S) \in S /\ Min(S) \in S /\ \A x \in S : x <= Max(S)
<1>1. PICK n \in Nat : \A x \in S : x <= n
  BY FiniteIsBounded
<1>6. \A x \in S : x \in Nat
  OBVIOUS
<1>7. S \in SUBSET (0 .. n)
  BY <1>1, <1>6
<1>2. Max(S) \in S /\ \A x \in S : Max(S) >= x
  BY <1>7, MaxOfTimes
<1>3. PICK y \in S : \A x \in S : ~ (<<x, y>> \in OpToRel(<, Nat))
  BY NatLessThanWellFounded, WFMin
<1>4. \A x \in S : y <= x
  <2> SUFFICES ASSUME NEW x \in S PROVE ~(x < y)
    BY <1>6
  <2> QED
    BY <1>3, <1>6 DEF OpToRel
<1>5. Min(S) \in S
  BY <1>4 DEF Min
<1> QED
  BY <1>2, <1>5, <1>6

Inside(l, b) == {t \in DOMAIN seen : Bucket(t, l) = b}
Gone(l, b) == {t \in Inside(l, b) : \A k \in 0 .. (l - 1) : Bucket(t, k) \notin DOMAIN rows[k]}
CandleOk(l, b) ==
  Inside(l, b) \intersect dropped = {} =>
    /\ Gone(l, b) # {} /\ rows[l][b].close = seen[Max(Gone(l, b))]
    /\ {rows[l][b].high, rows[l][b].low} \subseteq {seen[t] : t \in Gone(l, b)}
CloseInv == LadderInv /\ Quoted /\ CloseIsLast

LEMMA CandlesOk == CloseIsLast <=> \A l \in 1 .. 3 : \A b \in DOMAIN rows[l] : CandleOk(l, b)
BY DEF CloseIsLast, CandleOk, Gone, Inside

\* What is gone, by the levels below.
LEMMA GoneOrPresent ==
  ASSUME NEW l \in 1 .. 3, NEW t
  PROVE  (\A k \in 0 .. (l - 1) : Bucket(t, k) \notin DOMAIN rows[k]) <=> ~Present(t, l - 1)
BY DEF Present

\* A row of l0_raw is a candle of one quote.
LEMMA RowsAreOk ==
  ASSUME CloseInv, NEW l \in 0 .. 2, NEW b \in DOMAIN rows[l]
  PROVE  CandleOk(l, b)
<1>1. CASE l = 0
  <2>1. /\ b \in DOMAIN seen /\ rows[0][b].close = seen[b]
        /\ rows[0][b].high = seen[b] /\ rows[0][b].low = seen[b]
    BY <1>1 DEF CloseInv, Quoted
  <2>2. \A t \in DOMAIN seen : t \in Nat /\ Bucket(t, 0) = t
    BY SeenIsNat, BucketOfInstant DEF CloseInv, LadderInv
  <2>3. Gone(0, b) = {b}
    BY <2>1, <2>2 DEF Gone, Inside
  <2>4. b \in Nat
    BY <2>1, <2>2
  <2>5. Max({b}) = b
    <3>1. Max({b}) \in {b}
      BY <2>4, FS_Singleton, LargestAndSmallest
    <3> QED
      BY <3>1
  <2> QED
    BY <1>1, <2>1, <2>3, <2>5 DEF CandleOk
<1>2. CASE l # 0
  <2>1. l \in 1 .. 3
    BY <1>2
  <2> QED
    BY <2>1, CandlesOk DEF CloseInv
<1> QED
  BY <1>1, <1>2

LEMMA LastQuote ==
  ASSUME RollTyped, NEW S, S \subseteq DOMAIN seen, S # {}
  PROVE  Max(S) \in S /\ \A t \in S : t <= Max(S)
<1>1. S \in SUBSET (0 .. Horizon) /\ Horizon \in Nat
  BY SeenIsNat, RollupAssumption DEF Times
<1>2. Max(S) \in S /\ \A t \in S : Max(S) >= t
  BY <1>1, MaxOfTimes
<1> QED
  BY <1>1, <1>2

\* What a candle depends on.
LEMMA CandleStays ==
  ASSUME RollTyped, NEW l \in 1 .. 3, NEW b, CandleOk(l, b), rows'[l][b] = rows[l][b],
         \A t \in Inside(l, b) : t \in DOMAIN seen' /\ seen'[t] = seen[t],
         Inside(l, b)' \intersect dropped' = {} =>
           /\ Inside(l, b) \intersect dropped = {}
           /\ Gone(l, b)' = Gone(l, b)
  PROVE  CandleOk(l, b)'
<1> SUFFICES ASSUME Inside(l, b)' \intersect dropped' = {}
             PROVE  /\ Gone(l, b)' # {} /\ rows'[l][b].close = seen'[Max(Gone(l, b)')]
                    /\ {rows'[l][b].high, rows'[l][b].low} \subseteq {seen'[t] : t \in Gone(l, b)'}
  BY DEF CandleOk
<1>1. PICK G : G = Gone(l, b)
  OBVIOUS
<1>2. /\ Gone(l, b)' = G /\ G # {} /\ rows[l][b].close = seen[Max(G)]
      /\ {rows[l][b].high, rows[l][b].low} \subseteq {seen[t] : t \in G}
  BY <1>1 DEF CandleOk
<1>3. \A t \in G : seen'[t] = seen[t]
  BY <1>1 DEF Gone
<1>4. Max(G) \in G
  BY <1>1, <1>2, LastQuote DEF Gone, Inside
<1> QED
  BY <1>2, <1>3, <1>4

LEMMA QuoteKeepsCloses ==
  ASSUME CloseInv, NEW m, Comes(m)
  PROVE  Quoted' /\ CloseIsLast'
<1>0. PICK n : n = now
  OBVIOUS
<1>1. RollTyped /\ Filled /\ dropped' = dropped
  BY DEF CloseInv, LadderInv, Comes
<1>2. /\ n \in Nat /\ n \notin DOMAIN seen /\ DOMAIN seen' = DOMAIN seen \union {n}
      /\ \A t \in DOMAIN seen : seen'[t] = seen[t]
      /\ seen'[n] = m
      /\ DOMAIN rows'[0] = DOMAIN rows[0] \union {n}
      /\ \A t \in DOMAIN rows[0] : t # n /\ rows'[0][t] = rows[0][t]
      /\ rows'[0][n] = QuoteRow(m)
      /\ \A k \in Levels : k # 0 => rows'[k] = rows[k]
      /\ \A t \in DOMAIN seen, l \in Levels : Present(t, l)' <=> Present(t, l)
      /\ \A l \in Levels : Present(n, l)'
  BY <1>0, <1>1, AfterQuote
<1>3. Quoted'
  BY <1>2 DEF CloseInv, Quoted, QuoteRow
<1>4. ASSUME NEW l \in 1 .. 3, NEW b \in DOMAIN rows'[l] PROVE CandleOk(l, b)'
  <2>1. l \in Levels /\ l - 1 \in Levels /\ rows'[l] = rows[l] /\ CandleOk(l, b)
    BY <1>2, <1>4, CandlesOk DEF Levels, CloseInv
  <2>2. /\ Inside(l, b) \subseteq Inside(l, b)'
        /\ \A t \in Inside(l, b) : t \in DOMAIN seen' /\ seen'[t] = seen[t]
    BY <1>2 DEF Inside
  <2>3. ASSUME NEW t PROVE t \in Gone(l, b)' <=> t \in Gone(l, b)
    <3>1. t \in Gone(l, b) <=> t \in DOMAIN seen /\ Bucket(t, l) = b /\ ~Present(t, l - 1)
      BY GoneOrPresent DEF Gone, Inside
    <3>2. t \in Gone(l, b)' <=> t \in DOMAIN seen' /\ Bucket(t, l) = b /\ ~Present(t, l - 1)'
      BY DEF Gone, Inside, Present
    <3> QED
      BY <1>2, <2>1, <3>1, <3>2
  <2>4. Gone(l, b)' = Gone(l, b)
    BY <2>3 DEF Gone
  <2> QED
    BY <1>1, <2>1, <2>2, <2>4, CandleStays
<1>5. CloseIsLast'
  BY <1>4 DEF CloseIsLast, CandleOk, Gone, Inside
<1> QED
  BY <1>3, <1>5

LEMMA DeleteKeepsCloses ==
  ASSUME CloseInv, NEW h, Deletes(h)
  PROVE  Quoted' /\ CloseIsLast'
<1>1. /\ RollTyped /\ seen' = seen /\ dropped \subseteq dropped'
      /\ \A k \in Levels : /\ DOMAIN rows'[k] \subseteq DOMAIN rows[k]
                           /\ \A x \in DOMAIN rows'[k] : rows'[k][x] = rows[k][x]
      /\ \A t \in DOMAIN seen, k \in Levels : Present(t, k)' => Present(t, k)
      /\ \A t \in DOMAIN seen, k \in Levels : Present(t, k) /\ t \notin dropped' => Present(t, k)'
  BY AfterDelete DEF CloseInv, LadderInv, Deletes
<1>2. Quoted'
  BY <1>1 DEF CloseInv, Quoted, Levels
<1>3. ASSUME NEW l \in 1 .. 3, NEW b \in DOMAIN rows'[l] PROVE CandleOk(l, b)'
  <2>1. l \in Levels /\ l - 1 \in Levels /\ rows'[l][b] = rows[l][b] /\ CandleOk(l, b)
    BY <1>1, <1>3, CandlesOk DEF Levels, CloseInv
  <2>2. Inside(l, b)' = Inside(l, b)
    BY <1>1 DEF Inside
  <2>3. \A t \in Inside(l, b) : t \in DOMAIN seen' /\ seen'[t] = seen[t]
    BY <1>1 DEF Inside
  <2>4. ASSUME Inside(l, b)' \intersect dropped' = {}
        PROVE  Inside(l, b) \intersect dropped = {} /\ Gone(l, b)' = Gone(l, b)
    <3>1. ASSUME NEW t PROVE t \in Gone(l, b)' <=> t \in Gone(l, b)
      <4>1. t \in Gone(l, b) <=> t \in Inside(l, b) /\ ~Present(t, l - 1)
        BY GoneOrPresent DEF Gone
      <4>2. t \in Gone(l, b)' <=> t \in Inside(l, b)' /\ ~Present(t, l - 1)'
        BY DEF Gone, Present
      <4>3. t \in Inside(l, b) => t \in DOMAIN seen /\ t \notin dropped'
        BY <2>2, <2>4 DEF Inside
      <4> QED
        BY <1>1, <2>1, <2>2, <4>1, <4>2, <4>3
    <3>2. Gone(l, b)' = Gone(l, b)
      BY <3>1 DEF Gone
    <3> QED
      BY <1>1, <2>2, <2>4, <3>2
  <2> QED
    BY <1>1, <2>1, <2>3, <2>4, CandleStays
<1>4. CloseIsLast'
  BY <1>3 DEF CloseIsLast, CandleOk, Gone, Inside
<1> QED
  BY <1>2, <1>4

\* A quote above level l is not under a bucket that is rolled up into l + 1.
LEMMA NotRevived ==
  ASSUME LadderInv, NEW l, Rolls(l), NEW t \in Undropped, NEW m \in 0 .. 2, m > l, ~Present(t, m)
  PROVE  ~Present(t, m)'
<1>1. /\ RollTyped /\ Filled /\ l \in 0 .. 2 /\ l \in Levels /\ l + 1 \in Levels /\ l \in Int
      /\ m \in Levels /\ m \in Int /\ t \in Nat /\ t \in DOMAIN seen
  BY SeenIsNat DEF Rolls, Levels, LadderInv, Undropped
<1>2. Bucket(t, l + 1) \notin Hit(l)
  <2> SUFFICES ASSUME Bucket(t, l + 1) \in Hit(l) PROVE FALSE
    OBVIOUS
  <2>1. PICK x \in Picked(l) : Bucket(t, l + 1) = Bucket(x, l + 1)
    BY DEF Hit
  <2>2. x \in DOMAIN rows[l]
    BY <1>1, OldestArePicked
  <2>3. PICK v \in DOMAIN seen : Bucket(v, l) = x
    BY <1>1, <2>2 DEF Filled
  <2>4. v \in Nat /\ Bucket(v, l + 1) = Bucket(t, l + 1)
    BY <1>1, SeenIsNat, <2>1, <2>3, BucketsNest
  <2>5. Bucket(v, m) = Bucket(t, m)
    BY <1>1, <2>4, SameBuckets
  <2>6. Present(v, m)
    BY <1>1, <2>2, <2>3 DEF Present
  <2> QED
    BY <2>5, <2>6 DEF LadderInv, Whole
<1> QED
  BY <1>1, <1>2, Moves

\* All of a bucket leaves its level.
LEMMA PickedLeave ==
  ASSUME LadderInv, NEW l, Rolls(l), NEW u \in DOMAIN seen, Bucket(u, l) \in Picked(l)
  PROVE  ~Present(u, l)'
<1>1. RollTyped /\ l \in 0 .. 2
  BY DEF Rolls, LadderInv
<1>2. \A k \in 0 .. (l - 1) : Bucket(u, k) \notin DOMAIN rows[k]
  BY PickedAreWhole
<1>3. \A k \in 0 .. (l - 1) : k \in Levels /\ k # l /\ k # l + 1
  BY <1>1 DEF Levels
<1>4. Bucket(u, l) \notin DOMAIN rows'[l]
  BY <1>1, RowsAfterRoll
<1>5. \A k \in 0 .. l : k = l \/ k \in 0 .. (l - 1)
  BY <1>1
<1>6. \A k \in 0 .. l : Bucket(u, k) \notin DOMAIN rows'[k]
  BY <1>1, <1>2, <1>3, <1>4, <1>5, RowsAfterRoll
<1> QED
  BY <1>6 DEF Present

\* The candle a bucket gets: the last quote under it that is rolled up is the last one.
LEMMA MergedCandle ==
  ASSUME CloseInv, NEW l, Rolls(l), NEW b \in Hit(l)
  PROVE  CandleOk(l + 1, b)'
<1>1. /\ LadderInv /\ RollTyped /\ Filled /\ l \in 0 .. 2 /\ l \in Levels /\ l + 1 \in Levels
      /\ l + 1 \in 1 .. 3 /\ (l + 1) - 1 = l /\ seen' = seen /\ dropped' = dropped
  BY DEF Rolls, Levels, LadderInv, CloseInv
<1> DEFINE S == {y \in Picked(l) : Bucket(y, l + 1) = b}
           x == Max(S)
           G == {t \in DOMAIN seen : Bucket(t, l + 1) = b /\ ~Present(t, l)'}
<1>2. S # {} /\ S \subseteq DOMAIN rows[l] /\ S \in SUBSET (0 .. Horizon) /\ IsFiniteSet(S)
  <2>1. S # {}
    BY DEF Hit
  <2>2. S \subseteq DOMAIN rows[l]
    BY <1>1, OldestArePicked
  <2>3. DOMAIN rows[l] \subseteq 0 .. Horizon /\ IsFiniteSet(DOMAIN rows[l])
    BY <1>1, RowsAreFinite
  <2>4. IsFiniteSet(S)
    BY <2>2, <2>3, FS_Subset
  <2> QED
    BY <2>1, <2>2, <2>3, <2>4
<1>3. x \in S /\ x \in Nat /\ \A y \in S : y \in Nat /\ y <= x
  <2>1. Horizon \in Nat
    BY RollupAssumption
  <2>2. \A y \in S : y \in Nat
    BY <1>2, <2>1
  <2>3. Max(S) \in S /\ \A y \in S : Max(S) >= y
    BY <1>2, <2>1, MaxOfTimes
  <2> QED
    BY <2>2, <2>3
<1>4. rows'[l + 1][b] = Merge(l, S)
  BY <1>1, RowsAfterRoll
<1>5. Gone(l + 1, b)' = G /\ Inside(l + 1, b)' = Inside(l + 1, b)
  BY <1>1 DEF Gone, Inside, Present
<1> SUFFICES ASSUME Inside(l + 1, b) \intersect dropped = {}
             PROVE  /\ G # {} /\ Merge(l, S).close = seen[Max(G)]
                    /\ {Merge(l, S).high, Merge(l, S).low} \subseteq {seen[t] : t \in G}
  BY <1>1, <1>4, <1>5 DEF CandleOk
<1>6. \A t \in DOMAIN seen : t \in Nat
  BY <1>1, SeenIsNat
<1>7. ASSUME NEW y \in S
      PROVE  /\ Inside(l, y) # {} /\ Inside(l, y) \subseteq G
             /\ rows[l][y].close = seen[Max(Inside(l, y))]
             /\ {rows[l][y].high, rows[l][y].low} \subseteq {seen[t] : t \in Inside(l, y)}
  <2>1. CandleOk(l, y)
    BY <1>1, <1>2, RowsAreOk
  <2>2. Inside(l, y) \subseteq Inside(l + 1, b)
    BY <1>1, <1>6, BucketsNest DEF Inside
  <2>3. Gone(l, y) = Inside(l, y)
    BY <1>1, PickedAreWhole DEF Gone, Inside
  <2>4. Inside(l, y) \subseteq G
    BY <1>1, <2>2, PickedLeave DEF Inside
  <2> QED
    BY <2>1, <2>2, <2>3, <2>4 DEF CandleOk
<1>8. PICK z : z = Max(Inside(l, x))
  OBVIOUS
<1>9. /\ z \in Inside(l, x) /\ z \in G /\ z \in Nat /\ Bucket(z, l) = x
      /\ \A t \in Inside(l, x) : t <= z
  BY <1>1, <1>3, <1>6, <1>7, <1>8, LastQuote DEF Inside
<1>10. ASSUME NEW t \in G PROVE t <= z
  <2>1. t \in Nat /\ t \in Undropped /\ t \in DOMAIN seen /\ Bucket(t, l) \in Nat
    BY <1>1, <1>6, BucketBounds DEF Undropped, Inside
  <2>2. CASE Bucket(t, l) = x
    BY <1>9, <2>2 DEF Inside
  <2>3. CASE Bucket(t, l) > x
    <3>1. Present(t, l)
      BY <1>1, <1>2, <1>3, <2>1, <2>3 DEF LadderInv, OlderAbove
    <3>2. Bucket(t, l) \in Picked(l)
      BY <1>1, <2>1, <3>1, Moves
    <3>3. Bucket(t, l) \in S
      BY <1>1, <2>1, <3>2, BucketsNest
    <3> QED
      BY <1>3, <2>1, <2>3, <3>3
  <2>4. CASE Bucket(t, l) < x
    <3>1. ~(z <= t)
      BY <1>1, <1>3, <1>9, <2>1, <2>4, BucketsAscend
    <3> QED
      BY <1>9, <2>1, <3>1
  <2> QED
    BY <1>3, <2>1, <2>2, <2>3, <2>4
<1>11. Max(G) = z
  <2>1. Max(G) \in G /\ \A t \in G : t <= Max(G)
    BY <1>1, <1>9, LastQuote
  <2>2. Max(G) <= z /\ z <= Max(G) /\ Max(G) \in Nat
    BY <1>6, <1>9, <1>10, <2>1
  <2> QED
    BY <1>9, <2>2
<1>12. Merge(l, S).close = seen[Max(G)]
  BY <1>3, <1>7, <1>8, <1>11 DEF Merge
<1>13. {Merge(l, S).high, Merge(l, S).low} \subseteq {seen[t] : t \in G}
  <2> DEFINE Hs == {rows[l][y].high : y \in S}
             Ls == {rows[l][y].low : y \in S}
             P == {seen[t] : t \in G}
  <2>1. Hs # {} /\ Ls # {} /\ Hs \subseteq P /\ Ls \subseteq P
    BY <1>2, <1>7
  <2>2. P \in SUBSET Nat
    BY <1>1, RollupAssumption DEF RollTyped
  <2>3. IsFiniteSet(Hs) /\ IsFiniteSet(Ls)
    <3>1. [y \in S |-> rows[l][y].high] \in Surjection(S, Hs)
      BY DEF Surjection
    <3>2. [y \in S |-> rows[l][y].low] \in Surjection(S, Ls)
      BY DEF Surjection
    <3> QED
      BY <1>2, <3>1, <3>2, FS_Surjection
  <2>4. Max(Hs) \in Hs /\ Min(Ls) \in Ls
    BY <2>1, <2>2, <2>3, LargestAndSmallest
  <2>5. Merge(l, S).high = Max(Hs) /\ Merge(l, S).low = Min(Ls)
    BY DEF Merge
  <2> QED
    BY <2>1, <2>4, <2>5
<1> QED
  BY <1>9, <1>12, <1>13

LEMMA RollKeepsCloses ==
  ASSUME CloseInv, NEW l, Rolls(l)
  PROVE  Quoted' /\ CloseIsLast'
<1>1. /\ LadderInv /\ RollTyped /\ Filled /\ l \in 0 .. 2 /\ l \in Levels /\ l + 1 \in Levels
      /\ seen' = seen /\ dropped' = dropped /\ l \in Int
  BY DEF Rolls, Levels, LadderInv, CloseInv
<1>2. Quoted'
  <2>1. \A t \in DOMAIN rows'[0] : t \in DOMAIN rows[0] /\ rows'[0][t] = rows[0][t]
    <3>1. 0 \in Levels /\ l + 1 # 0
      BY <1>1 DEF Levels
    <3> QED
      BY <1>1, <3>1, RowsAfterRoll
  <2> QED
    BY <1>1, <2>1 DEF CloseInv, Quoted
<1>3. ASSUME NEW m \in 1 .. 3, NEW b \in DOMAIN rows'[m] PROVE CandleOk(m, b)'
  <2>1. m \in Levels /\ m - 1 \in Levels /\ m \in Int
    BY DEF Levels
  <2>2. \A t \in Inside(m, b) : t \in DOMAIN seen' /\ seen'[t] = seen[t]
    BY <1>1 DEF Inside
  <2>3. CASE m = l + 1 /\ b \in Hit(l)
    BY <2>3, MergedCandle
  <2>4. CASE ~(m = l + 1 /\ b \in Hit(l))
    <3>1. b \in DOMAIN rows[m] /\ rows'[m][b] = rows[m][b]
      BY <1>1, <2>1, <2>4, RowsAfterRoll
    <3>2. CandleOk(m, b)
      BY <3>1, CandlesOk DEF CloseInv
    <3>3. Inside(m, b)' = Inside(m, b)
      BY <1>1 DEF Inside
    <3>4. ASSUME Inside(m, b) \intersect dropped = {}, NEW t \in Inside(m, b)
          PROVE  Present(t, m - 1)' <=> Present(t, m - 1)
      <4>1. t \in Nat /\ t \in DOMAIN seen /\ t \in Undropped /\ Bucket(t, m) = b
        BY <1>1, <3>4, SeenIsNat DEF Inside, Undropped
      <4>2. CASE m <= l
        BY <1>1, <2>1, <4>1, <4>2, Moves
      <4>3. CASE m = l + 1
        <5>1. Bucket(t, l) \notin Picked(l)
          <6>1. Bucket(Bucket(t, l), l + 1) = b
            BY <1>1, <4>1, <4>3, BucketsNest
          <6> QED
            BY <2>4, <4>3, <6>1 DEF Hit
        <5>2. m - 1 = l
          BY <1>1, <4>3
        <5> QED
          BY <1>1, <4>1, <5>1, <5>2, Moves
      <4>4. CASE m > l + 1
        <5>1. m - 1 > l /\ m - 1 \in 0 .. 2
          BY <1>1, <2>1, <4>4
        <5>2. Present(t, m - 1) => Present(t, m - 1)'
          BY <1>1, <2>1, <4>1, <5>1, Moves
        <5>3. ~Present(t, m - 1) => ~Present(t, m - 1)'
          BY <1>1, <4>1, <5>1, NotRevived
        <5> QED
          BY <5>2, <5>3
      <4> QED
        BY <1>1, <2>1, <4>2, <4>3, <4>4
    <3>5. ASSUME Inside(m, b) \intersect dropped = {} PROVE Gone(m, b)' = Gone(m, b)
      <4>1. Gone(m, b) = {t \in Inside(m, b) : ~Present(t, m - 1)}
        BY GoneOrPresent DEF Gone
      <4>2. Gone(m, b)' = {t \in Inside(m, b)' : ~Present(t, m - 1)'}
        BY DEF Gone, Present
      <4> QED
        BY <3>3, <3>4, <3>5, <4>1, <4>2
    <3> QED
      BY <1>1, <2>2, <3>1, <3>2, <3>3, <3>5, CandleStays
  <2> QED
    BY <2>3, <2>4
<1>4. CloseIsLast'
  BY <1>3 DEF CloseIsLast, CandleOk, Gone, Inside
<1> QED
  BY <1>2, <1>4

LEMMA CloseInit == RollupInit => CloseInv
<1> SUFFICES ASSUME RollupInit PROVE Quoted /\ CloseIsLast
  BY LadderInit DEF CloseInv
<1>1. \A l \in Levels : DOMAIN rows[l] = {}
  BY DEF RollupInit
<1> QED
  BY <1>1 DEF Quoted, CloseIsLast, Levels

LEMMA CloseNext == CloseInv /\ [RollupNext]_rollupVars => CloseInv'
<1> SUFFICES ASSUME CloseInv, [RollupNext]_rollupVars PROVE CloseInv'
  OBVIOUS
<1>1. LadderInv'
  BY LadderNext DEF CloseInv
<1>2. CASE UNCHANGED <<rows, seen, dropped>>
  <2>1. Quoted'
    BY <1>2 DEF CloseInv, Quoted
  <2>2. CloseIsLast'
    <3>1. \A l \in 1 .. 3 : \A b \in DOMAIN rows[l] : CandleOk(l, b)
      BY CandlesOk DEF CloseInv
    <3>2. \A l \in 1 .. 3 : \A b \in DOMAIN rows'[l] : CandleOk(l, b)'
      <4> SUFFICES ASSUME NEW l \in 1 .. 3, NEW b \in DOMAIN rows[l] PROVE CandleOk(l, b)'
        BY <1>2
      <4>1. Inside(l, b)' = Inside(l, b)
        BY <1>2 DEF Inside
      <4>2. Gone(l, b)' = Gone(l, b)
        BY <1>2, <4>1 DEF Gone
      <4>3. CandleOk(l, b)
        BY <3>1
      <4> QED
        BY <1>2, <4>1, <4>2, <4>3 DEF CandleOk
    <3> QED
      BY <3>2 DEF CloseIsLast, CandleOk, Gone, Inside
  <2> QED
    BY <1>1, <2>1, <2>2 DEF CloseInv
<1>3. CASE ~UNCHANGED <<rows, seen, dropped>>
  <2>1. \/ \E m : Comes(m)
        \/ \E l : Rolls(l)
        \/ \E l : Deletes(l)
    BY <1>3, StepsOfRollup DEF StartRun, EndRun, rollupVars
  <2> QED
    BY <1>1, <2>1, QuoteKeepsCloses, RollKeepsCloses, DeleteKeepsCloses DEF CloseInv
<1> QED
  BY <1>2, <1>3

(* A candle that a later batch replaced closes with the last quote under   *)
(* it that was rolled up, and its high and low are prices it saw.          *)
THEOREM CandlesCloseRight == RollupSpec => []CloseIsLast
<1>1. CloseInv => CloseIsLast
  BY DEF CloseInv
<1> QED
  BY <1>1, CloseInit, CloseNext, PTL DEF RollupSpec

=============================================================================
