----------------------------- MODULE QuoteStore -----------------------------
(***************************************************************************)
(* The path of a quote through the market-data service: on_quote and its   *)
(* bounded queue, the writer loop, the broker's priority queue and retry   *)
(* loop, and the two tables a quote is written to.  The event loop runs    *)
(* one of them at a time, between awaits; each action is the code from one *)
(* await that can suspend to the next.                                     *)
(*                                                                         *)
(* A quote is [key, ts]: its market and the time it was received.  Funding,*)
(* volume and worker statistics are tasks of the middle priority.          *)
(***************************************************************************)
EXTENDS Naturals, FiniteSets, SequencesExt

CONSTANTS
  Keys,        \* exchange|market|symbol
  MaxTs,       \* bound: quotes received per key
  QueueMax,    \* capacity of quote_q
  BatchLimit,  \* quotes the writer loop takes in one batch
  ChunkSize,   \* quotes the broker commits in one transaction
  Critical,    \* broker tasks from which quotes are coalesced
  High,        \* broker tasks from which the low-priority tasks are dropped
  FailureBudget, \* failures in a row that make the state "error"
  MaxTasks,    \* bound: statistics and compaction tasks submitted
  MaxFaults    \* bound: failures of SQLite

ASSUME QuoteStoreAssumption ==
  /\ IsFiniteSet(Keys)
  /\ MaxTs \in Nat \ {0} /\ QueueMax \in Nat \ {0}
  /\ BatchLimit \in Nat \ {0} /\ BatchLimit <= ChunkSize
  /\ ChunkSize \in Nat /\ Critical \in Nat \ {0} /\ High \in 1 .. Critical
  /\ MaxTasks \in Nat /\ MaxFaults \in Nat

VARIABLES
  made,      \* per key, the time of the last quote received
  quoteQ,    \* quote_q
  coalesced, \* per key, the quote that found quote_q full (0: none)
  batch,     \* the writer loop's local batch
  tasks,     \* per priority, the broker's queue
  held,      \* per key, the quote that found the broker's queue full (0: none)
  running,   \* the broker's loop: what it executes
  broker,    \* [state, fails]: DBBrokerRuntimeStat
  raw,       \* per key and time, the rows of l0_raw
  latest,    \* per key, the time in latest_quote
  compaction,\* the compaction loop: asleep or awaiting its answer
  submitted, \* low-priority tasks submitted so far
  lost,      \* history: quotes of a write that failed for good, or replaced
             \* by an older one of their key
  stopping,  \* stop_event
  storeFaults

storeVars == <<made, quoteQ, coalesced, batch, tasks, held, running, broker, raw,
               latest, compaction, submitted, lost, stopping, storeFaults>>

Quotes == [key : Keys, ts : 1 .. MaxTs]
NoQuote == [k \in Keys |-> 0]
Of(map) == {[key |-> k, ts |-> map[k]] : k \in {j \in Keys : map[j] # 0}}

\* The quotes of a dict, each once: the order between keys makes no difference to
\* the tables.
Values(map) == SetToSeq(Of(map))

Idle == [kind |-> "idle", payload |-> <<>>, done |-> 0, tries |-> 0]
Task(kind, payload) == [kind |-> kind, payload |-> payload]
Priorities == 1 .. 3   \* QUOTES, WORKER_STATS, MAINT
Queued == Len(tasks[1]) + Len(tasks[2]) + Len(tasks[3])
Put(p, t) == [tasks EXCEPT ![p] = Append(@, t)]

StoreInit ==
  /\ made = NoQuote /\ quoteQ = <<>> /\ coalesced = NoQuote /\ batch = <<>>
  /\ tasks = [p \in Priorities |-> <<>>] /\ held = NoQuote /\ running = Idle
  /\ broker = [state |-> "running", fails |-> 0]
  /\ raw = [k \in Keys |-> [t \in 1 .. MaxTs |-> 0]]
  /\ latest = NoQuote
  /\ compaction = "sleep" /\ submitted = 0 /\ lost = {}
  /\ stopping = FALSE /\ storeFaults = 0

-----------------------------------------------------------------------------
(* Receiving *)

\* Mutant: the first quote that did not fit stays.
KeepFirst(map, q) == [map EXCEPT ![q.key] = IF @ = 0 THEN q.ts ELSE @]
Coalesce(map, q) == [map EXCEPT ![q.key] = q.ts]

\* on_quote: into the queue, or over the key's last quote that did not fit.
OnQuote(k) ==
  LET q == [key |-> k, ts |-> made[k] + 1]
  IN /\ ~stopping /\ made[k] < MaxTs
     /\ made' = [made EXCEPT ![k] = @ + 1]
     /\ \/ /\ Len(quoteQ) < QueueMax
           /\ quoteQ' = Append(quoteQ, q)
           /\ UNCHANGED coalesced
        \/ /\ Len(quoteQ) >= QueueMax
           /\ coalesced' = Coalesce(coalesced, q)
           /\ UNCHANGED quoteQ
     /\ UNCHANGED <<batch, tasks, held, running, broker, raw, latest, compaction,
                    submitted, lost, stopping, storeFaults>>

QuotesOf(qs, k) == {i \in DOMAIN qs : qs[i].key = k}
\* The last quote given for a key counts, not the youngest.
Overlaid(map, qs) ==
  [k \in Keys |-> IF QuotesOf(qs, k) = {} THEN map[k] ELSE qs[Max(QuotesOf(qs, k))].ts]
Replaced(map, qs) ==
  {q \in Of(map) \union ToSet(qs) : Overlaid(map, qs)[q.key] < q.ts}
\* submit_quotes of qs, with the queue as long as it is now.
Submit(qs) ==
  \/ /\ Queued < Critical
     /\ tasks' = Put(1, Task("quotes", qs))
     /\ UNCHANGED <<held, lost>>
  \/ /\ Queued >= Critical
     /\ held' = Overlaid(held, qs)
     /\ lost' = lost \union Replaced(held, qs)
     /\ UNCHANGED tasks

-----------------------------------------------------------------------------
(* The writer loop *)

Collect ==
  /\ ~stopping /\ Len(batch) < BatchLimit /\ quoteQ # <<>>
  /\ batch' = Append(batch, Head(quoteQ))
  /\ quoteQ' = Tail(quoteQ)
  /\ UNCHANGED <<made, coalesced, tasks, held, running, broker, raw, latest,
                 compaction, submitted, lost, stopping, storeFaults>>

\* The deadline passes or the batch is full: coalesced quotes fill it up, and
\* it goes to the broker (and to the WebSocket clients, which keep no state
\* the tables depend on).
\* Mutant: coalesced quotes on top of a full batch.
RoomForAll == BatchLimit
Room == BatchLimit - Len(batch)
Fill(ks) == batch \o Values([k \in Keys |-> IF k \in ks THEN coalesced[k] ELSE 0])
FlushBatch ==
  /\ ~stopping
  /\ batch = <<>> => quoteQ = <<>>
  /\ \E ks \in SUBSET {k \in Keys : coalesced[k] # 0} :
       /\ Cardinality(ks) <= Room
       /\ Cardinality(ks) < Room => ks = {k \in Keys : coalesced[k] # 0}
       /\ Fill(ks) # <<>>
       /\ Submit(Fill(ks))
       /\ coalesced' = [k \in Keys |-> IF k \in ks THEN 0 ELSE coalesced[k]]
  /\ batch' = <<>>
  /\ UNCHANGED <<made, quoteQ, running, broker, raw, latest, compaction, submitted,
                 stopping, storeFaults>>

-----------------------------------------------------------------------------
(* The other producers *)

\* submit_worker_stats, submit_funding and submit_volume: dropped when the queue
\* is long.
SubmitStats ==
  /\ ~stopping /\ submitted < MaxTasks
  /\ submitted' = submitted + 1
  /\ tasks' = IF Queued >= High THEN tasks ELSE Put(2, Task("stats", <<>>))
  /\ UNCHANGED <<made, quoteQ, coalesced, batch, held, running, broker, raw, latest,
                 compaction, lost, stopping, storeFaults>>

\* compaction_loop: one compaction, or the note that it was skipped, and its
\* answer.  A put that waits for room in the broker's queue (1000 tasks or more)
\* is a submission that comes later.
SubmitCompaction ==
  /\ ~stopping /\ submitted < MaxTasks /\ compaction = "sleep"
  /\ submitted' = submitted + 1
  /\ compaction' = "wait"
  /\ tasks' = Put(3, Task("compact", <<>>))
  /\ UNCHANGED <<made, quoteQ, coalesced, batch, held, running, broker, raw, latest,
                 lost, stopping, storeFaults>>

-----------------------------------------------------------------------------
(* The broker's loop *)

Alive == broker.state \notin {"stopped", "dead"}

Take ==
  /\ Alive /\ running = Idle
  /\ \E p \in Priorities :
       /\ tasks[p] # <<>>
       /\ \A h \in 1 .. (p - 1) : tasks[h] = <<>>
       /\ running' = [kind |-> Head(tasks[p]).kind, payload |-> Head(tasks[p]).payload,
                      done |-> 0, tries |-> 0]
       /\ tasks' = [tasks EXCEPT ![p] = Tail(@)]
  /\ UNCHANGED <<made, quoteQ, coalesced, batch, held, broker, raw, latest, compaction,
                 submitted, lost, stopping, storeFaults>>

\* Nothing to do for a tick, or the end of the loop: _flush_coalesced_quotes.
TakeHeld ==
  /\ Alive /\ running = Idle /\ Queued = 0 /\ held # NoQuote
  /\ running' = [kind |-> "flush", payload |-> Values(held), done |-> 0, tries |-> 0]
  /\ held' = NoQuote
  /\ UNCHANGED <<made, quoteQ, coalesced, batch, tasks, broker, raw, latest, compaction,
                 submitted, lost, stopping, storeFaults>>

\* write_quotes of one chunk: every quote into l0_raw, and over latest_quote
\* unless that is newer.
\* Mutant: the upsert without its WHERE.
Overwritten(map, qs) == Overlaid(map, qs)
Upserted(map, qs) ==
  [k \in Keys |-> Max({map[k]} \union {qs[i].ts : i \in QuotesOf(qs, k)})]
Copies(qs, k, t) == {i \in QuotesOf(qs, k) : qs[i].ts = t}
Inserted(rows, qs) ==
  [k \in Keys |-> [t \in 1 .. MaxTs |-> rows[k][t] + Cardinality(Copies(qs, k, t))]]
Smaller(a, b) == IF a < b THEN a ELSE b
ChunkEnd == Smaller(running.done + ChunkSize, Len(running.payload))
Chunk == SubSeq(running.payload, running.done + 1, ChunkEnd)
Writes == running.kind \in {"quotes", "flush"}

WriteChunk ==
  /\ Writes /\ running.done < Len(running.payload)
  /\ raw' = Inserted(raw, Chunk)
  /\ latest' = Upserted(latest, Chunk)
  /\ running' = [running EXCEPT !.done = ChunkEnd]
  /\ UNCHANGED <<made, quoteQ, coalesced, batch, tasks, held, broker, compaction,
                 submitted, lost, stopping, storeFaults>>

\* _record_success
Recovered == [state |-> IF broker.state \in {"degraded", "error"} /\ ~stopping
                        THEN "running" ELSE broker.state,
              fails |-> 0]

\* The future of a compaction is set whether it succeeded or not.
Answer == IF running.kind = "compact" THEN "sleep" ELSE compaction

Finish ==
  /\ running.kind # "idle"
  /\ Writes => running.done = Len(running.payload)
  /\ running' = Idle
  /\ broker' = IF running.kind = "flush" THEN broker ELSE Recovered
  /\ compaction' = Answer
  /\ UNCHANGED <<made, quoteQ, coalesced, batch, tasks, held, raw, latest, submitted,
                 lost, stopping, storeFaults>>

\* The database is locked: the whole task again, at most four times in all.
Delays == 4
Failing == /\ running.kind # "idle"
           /\ Writes => running.done < Len(running.payload)
           /\ storeFaults < MaxFaults
           /\ storeFaults' = storeFaults + 1
FromTheStart == [running EXCEPT !.done = 0, !.tries = @ + 1]
Locked ==
  /\ Failing /\ running.tries + 1 < Delays
  /\ running' = FromTheStart
  /\ UNCHANGED <<made, quoteQ, coalesced, batch, tasks, held, broker, raw, latest,
                 compaction, submitted, lost, stopping>>

\* Any other error, or the last try: the task is dropped and counted
\* (_record_task_failure), its future gets the exception.  In a flush there is
\* no handler: the loop's task ends, and its state keeps its last value
\* ("dead" stands for that).
GiveUp ==
  /\ Failing
  /\ running' = Idle
  /\ broker' = IF running.kind = "flush" THEN [broker EXCEPT !.state = "dead"]
               ELSE [fails |-> broker.fails + 1,
                     state |-> IF broker.fails + 1 >= FailureBudget THEN "error" ELSE "degraded"]
  /\ compaction' = Answer
  /\ lost' = lost \union ToSet(SubSeq(running.payload, running.done + 1, Len(running.payload)))
  /\ UNCHANGED <<made, quoteQ, coalesced, batch, tasks, held, raw, latest, submitted, stopping>>

-----------------------------------------------------------------------------
(* Stopping *)

\* stop: the loops are cancelled, with the batch in the writer's hands; what is
\* still queued goes to the broker (flush_now), and a last task makes its loop
\* run out.
FlushLimit == 4 * BatchLimit
Rest == SubSeq(quoteQ, 1, Smaller(FlushLimit, Len(quoteQ))) \o Values(coalesced)
Stop ==
  /\ ~stopping
  /\ stopping' = TRUE
  /\ batch' = <<>> /\ compaction' = "sleep"
  /\ quoteQ' = SubSeq(quoteQ, Smaller(FlushLimit, Len(quoteQ)) + 1, Len(quoteQ))
  /\ coalesced' = NoQuote
  /\ \/ /\ Rest = <<>> \/ Queued < Critical
        /\ tasks' = [Put(3, Task("end", <<>>)) EXCEPT
                       ![1] = IF Rest = <<>> THEN @ ELSE Append(@, Task("quotes", Rest))]
        /\ UNCHANGED <<held, lost>>
     \/ /\ Rest # <<>> /\ Queued >= Critical
        /\ tasks' = Put(3, Task("end", <<>>))
        /\ held' = Overlaid(held, Rest)
        /\ lost' = lost \union Replaced(held, Rest)
  /\ broker' = IF Alive THEN [broker EXCEPT !.state = "draining"] ELSE broker
  /\ UNCHANGED <<made, running, raw, latest, submitted, storeFaults>>

\* The loop ends, or has not ended in time and is cancelled.
Stopped ==
  /\ stopping /\ broker.state # "stopped"
  /\ broker' = [broker EXCEPT !.state = "stopped"]
  /\ running' = Idle
  /\ UNCHANGED <<made, quoteQ, coalesced, batch, tasks, held, raw, latest, compaction,
                 submitted, lost, stopping, storeFaults>>

-----------------------------------------------------------------------------
Writer == Collect \/ FlushBatch
Broker == Take \/ TakeHeld \/ WriteChunk \/ Finish \/ Locked \/ GiveUp
StoreNext ==
  \/ \E k \in Keys : OnQuote(k)
  \/ Writer \/ Broker
  \/ SubmitStats \/ SubmitCompaction \/ Stop \/ Stopped

\* The event loop runs every task that can run.
BrokerProgress == Take \/ TakeHeld \/ WriteChunk \/ Finish
StoreFairness == /\ WF_storeVars(Collect)
                   /\ WF_storeVars(FlushBatch)
                   /\ WF_storeVars(BrokerProgress)
StoreSpec == StoreInit /\ [][StoreNext]_storeVars /\ StoreFairness

-----------------------------------------------------------------------------
(* Properties *)

\* latest_quote never goes back in time, although a quote that did not fit into a
\* queue is written after younger ones, and a task that failed is tried again
\* after others (the WHERE of the upsert in write_quotes).
LatestNeverGoesBack == [][\A k \in Keys : latest'[k] >= latest[k]]_latest

\* A retry writes no quote into l0_raw twice: the writer loop's batches, and a
\* flush of coalesced quotes while there are no more keys than that, fit into
\* one transaction.  (The flush at the end does not: its first chunks may be
\* committed and then repeated with the task.)
QuotesAreStoredOnce ==
  Cardinality(Keys) <= ChunkSize =>
    \A k \in Keys, t \in 1 .. MaxTs : raw[k][t] > 1 => stopping

\* When no more quotes come in, every last one is in latest_quote in the end,
\* however full the two queues were on the way; unless SQLite refused its write
\* for good, the broker's coalescing put an older one over it, or the service is
\* stopped.
Missing == {k \in Keys : latest[k] < made[k] /\ [key |-> k, ts |-> made[k]] \notin lost}
QuotesAreStored == <>[](Missing = {} \/ stopping \/ broker.state = "dead")
=============================================================================
