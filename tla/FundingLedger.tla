---------------------------- MODULE FundingLedger ----------------------------
(***************************************************************************)
(* The funding ledger of one exchange: the scheduler's ingest and one asked*)
(* for by a request fetch the funding events since their cursor, page by   *)
(* page, write each once into funding_ledger, divide it among the          *)
(* strategies that held the market at its time, and move the cursor in the *)
(* same commit.                                                            *)
(*                                                                         *)
(* SQLite has one write lock, taken by the first write of a transaction;   *)
(* the holder's changes are in `work' until it commits.  A savepoint that  *)
(* is released outside a transaction is a commit (sqlite3 begins one at    *)
(* INSERT, UPDATE or DELETE only, and SAVEPOINT comes before the INSERT).  *)
(*                                                                         *)
(* An event is [sym, at].  The exchange shows the events of one instant    *)
(* together.  A share is a strategy; ratios by notional are left out.      *)
(***************************************************************************)
EXTENDS Naturals, FiniteSetsExt

CONSTANTS
  Syms,       \* markets
  Strats,     \* strategies; each holds one market at most once
  Styles,     \* how exchanges page: "ascending", "descending", "newest" (one page)
  Ingests,    \* sessions that ingest: "job", and others on request
  LastInstant, \* bound: instants of the run
  PageSize,   \* rows of one page of the exchange's answer
  MaxPages,   \* pages a fetch reads at most
  IngestFaults \* bound: errors while rows are written, and crashes

ASSUME FundingLedgerAssumption ==
  /\ LastInstant \in Nat \ {0} /\ PageSize \in Nat \ {0} /\ MaxPages \in Nat \ {0}
  /\ IngestFaults \in Nat /\ IsFiniteSet(Syms) /\ "*" \notin Syms /\ "none" \notin Ingests
  /\ Styles \subseteq {"ascending", "descending", "newest"}

VARIABLES
  style,    \* the exchange's paging
  clock,    \* the instant
  posted,   \* events the exchange shows
  span,     \* per strategy, [sym, from, to]: its position row (to 0: not closed)
  committed, \* [ledger, shares, cursor]: the tables
  writer,   \* the session that holds the write lock
  work,     \* the tables as the writer sees them
  ingest,   \* per session, its call of ingest_exchange_funding_events
  overflow, \* history: an answer was longer than a fetch reads, or a page ended
            \* inside an instant
  ingestFaults

ledgerVars == <<style, clock, posted, span, committed, writer, work, ingest, overflow, ingestFaults>>

NoOne == "none"
Events == [sym : Syms, at : 1 .. LastInstant]
Keys2 == Syms \union {"*"}
AtRest == [pc |-> "idle", key |-> "*", since |-> 0, from |-> 0, pages |-> 0,
           got |-> {}, todo |-> {}]
Empty == [ledger |-> {}, shares |-> [e \in Events |-> {}], cursor |-> [k \in Keys2 |-> 0]]

LedgerInit ==
  /\ style \in Styles
  /\ clock = 0 /\ posted = {}
  /\ span = [s \in Strats |-> [sym |-> NoOne, from |-> 0, to |-> 0]]
  /\ committed = Empty /\ work = Empty /\ writer = NoOne
  /\ ingest = [w \in Ingests |-> AtRest]
  /\ overflow = FALSE /\ ingestFaults = 0

-----------------------------------------------------------------------------
(* The exchange and the strategies *)

\* The next instant, in which funding of some markets is settled.
Settlement ==
  /\ clock < LastInstant
  /\ clock' = clock + 1
  /\ \E S \in SUBSET Syms : posted' = posted \union {[sym |-> x, at |-> clock + 1] : x \in S}
  /\ UNCHANGED <<style, span, committed, writer, work, ingest, overflow, ingestFaults>>

\* A position row, created_at and closed_at, each in a commit of its own and at a
\* time between two instants.
OpenPosition(s) ==
  /\ span[s].from = 0 /\ clock < LastInstant /\ writer = NoOne
  /\ \E x \in Syms : span' = [span EXCEPT ![s] = [sym |-> x, from |-> clock + 1, to |-> 0]]
  /\ UNCHANGED <<style, clock, posted, committed, writer, work, ingest, overflow, ingestFaults>>
ClosePosition(s) ==
  /\ span[s].from > 0 /\ span[s].to = 0 /\ writer = NoOne
  /\ span' = [span EXCEPT ![s].to = clock]
  /\ UNCHANGED <<style, clock, posted, committed, writer, work, ingest, overflow, ingestFaults>>

-----------------------------------------------------------------------------
(* Fetching *)

\* The scheduler's job takes all markets, a request all or one.
Asked(w) == IF w = "job" THEN {"*"} ELSE Keys2
\* The cursor, or (0) the lookback, which reaches back to the beginning.
Begin(w, k) ==
  /\ ingest[w].pc = "idle"
  /\ ingest' = [ingest EXCEPT ![w] = [AtRest EXCEPT !.pc = "fetch", !.key = k,
                                        !.since = committed.cursor[k], !.from = committed.cursor[k]]]
  /\ UNCHANGED <<style, clock, posted, span, committed, writer, work, overflow, ingestFaults>>

Matching(i) == {e \in posted : e.at >= i.from /\ i.key \in {"*", e.sym}}
Oldest(P) == Min({e.at : e \in P})
Newest(P) == Max({e.at : e \in P})

\* What is left to read: of an ascending list all that begins at the cursor, of a
\* descending one what lies before the last row read.
Left(i) == IF style = "ascending" \/ i.got = {} THEN Matching(i)
           ELSE {e \in Matching(i) \ i.got : e.at <= Oldest(i.got)}
Pages(S) ==
  {P \in SUBSET S :
     /\ Cardinality(P) = Min({PageSize, Cardinality(S)})
     /\ \A p \in P, q \in S \ P : IF style = "ascending" THEN p.at <= q.at ELSE p.at >= q.at}

\* One page, the last one if it is short, if it brings nothing new or if there
\* may be no more; then the rows, deduplicated.
FetchPage(w) ==
  LET i == ingest[w] IN
  /\ i.pc = "fetch"
  /\ \E P \in Pages(Left(i)) :
       LET full == Cardinality(P) = PageSize
           stuck == style = "ascending" /\ P # {} /\ Newest(P) <= i.from
           last == ~full \/ stuck \/ style = "newest" \/ i.pages + 1 = MaxPages
           inside == style = "ascending" /\ full /\ \E e \in Left(i) \ P : e.at = Newest(P)
       IN /\ ingest' = [ingest EXCEPT ![w] =
               [i EXCEPT !.got = i.got \union P, !.pages = IF last THEN 0 ELSE i.pages + 1,
                         !.pc = IF last THEN "rows" ELSE "fetch",
                         !.todo = IF last THEN i.got \union P ELSE {},
                         !.from = IF last THEN 0
                                  ELSE IF style = "ascending" THEN Newest(P) + 1 ELSE i.from]]
          /\ overflow' = (overflow \/ inside \/ (last /\ full /\ style # "ascending"))
  /\ UNCHANGED <<style, clock, posted, span, committed, writer, work, ingestFaults>>

\* The exchange's answer is an exception, handled by ingest_all_active_exchanges;
\* or it is banned.
FetchFails(w) ==
  /\ ingest[w].pc = "fetch"
  /\ ingest' = [ingest EXCEPT ![w] = AtRest]
  /\ UNCHANGED <<style, clock, posted, span, committed, writer, work, overflow, ingestFaults>>

\* The gate and mexc readers swallow an exception: the rows so far are the answer.
FetchCut(w) ==
  LET i == ingest[w] IN
  /\ i.pc = "fetch"
  /\ ingest' = [ingest EXCEPT ![w] = [i EXCEPT !.pc = "rows", !.pages = 0, !.from = 0, !.todo = i.got]]
  /\ overflow' = (overflow \/ (style # "ascending" /\ i.got # {}))
  /\ UNCHANGED <<style, clock, posted, span, committed, writer, work, ingestFaults>>

-----------------------------------------------------------------------------
(* Writing *)

Free(w) == writer \in {NoOne, w}
View(w) == IF writer = w THEN work ELSE committed
Next1(i) == {e \in i.todo : \A f \in i.todo : e.at <= f.at}

\* upsert_funding_event of a row that is not there: its savepoint commits by
\* itself when no transaction is open.
Insert(w, e) ==
  /\ ingest[w].pc = "rows" /\ e \in Next1(ingest[w]) /\ Free(w)
  /\ e \notin View(w).ledger
  /\ IF writer = w
     THEN work' = [work EXCEPT !.ledger = @ \union {e}] /\ UNCHANGED committed
     ELSE committed' = [committed EXCEPT !.ledger = @ \union {e}] /\ UNCHANGED work
  /\ ingest' = [ingest EXCEPT ![w].pc = "created"]
  /\ UNCHANGED <<style, clock, posted, span, writer, overflow, ingestFaults>>

\* build_assignment_candidates and resolve_assignment_allocations.  Positions have a
\* notional above 0: where none has, the first strategy alone gets the event.
Holders(e) ==
  {s \in Strats : /\ span[s].sym = e.sym /\ span[s].from \in 1 .. e.at
                  /\ span[s].to = 0 \/ e.at <= span[s].to}

\* assign_funding_event: the old shares out, the new ones in; then the next row.
\* Mutant: shares for rows it has inserted only.
AssignCreated(w, d, e) ==
  IF ingest[w].pc = "created" THEN [d EXCEPT !.shares[e] = Holders(e)] ELSE d
Assigned(w, d, e) == [d EXCEPT !.shares[e] = Holders(e)]
Assign(w, e) ==
  /\ e \in Next1(ingest[w]) /\ Free(w) /\ e \in View(w).ledger
  /\ ingest[w].pc \in {"rows", "created"}
  /\ writer' = w
  /\ work' = Assigned(w, View(w), e)
  /\ ingest' = [ingest EXCEPT ![w].todo = @ \ {e}, ![w].pc = "rows"]
  /\ UNCHANGED <<style, clock, posted, span, committed, overflow, ingestFaults>>

Commit(w, d) == /\ committed' = d /\ writer' = NoOne /\ work' = Empty
                /\ ingest' = [ingest EXCEPT ![w] = AtRest]
\* All rows done: the cursor, and the commit.
Advance(w) ==
  LET i == ingest[w] IN
  /\ i.pc = "rows" /\ i.todo = {} /\ Free(w)
  /\ Commit(w, [View(w) EXCEPT !.cursor[i.key] =
                   IF i.got = {} THEN i.since ELSE Max({i.since, Newest(i.got)}) + 1])
  /\ UNCHANGED <<style, clock, posted, span, overflow, ingestFaults>>

\* An error among the rows: rollback, and the cursor back to where this call
\* began.
\* Mutant: to where it came.
CursorReached(i) == IF i.got = i.todo THEN i.since ELSE Newest(i.got \ i.todo) + 1
CursorAfterError(i) == i.since
RowFails(w) ==
  LET i == ingest[w] IN
  /\ i.pc \in {"rows", "created"} /\ Free(w) /\ ingestFaults < IngestFaults
  /\ ingestFaults' = ingestFaults + 1
  /\ Commit(w, [committed EXCEPT !.cursor[i.key] = CursorAfterError(i)])
  /\ UNCHANGED <<style, clock, posted, span, overflow>>

Crash ==
  /\ ingestFaults < IngestFaults /\ \E w \in Ingests : ingest[w].pc # "idle"
  /\ ingestFaults' = ingestFaults + 1
  /\ ingest' = [w \in Ingests |-> AtRest] /\ writer' = NoOne /\ work' = Empty
  /\ UNCHANGED <<style, clock, posted, span, committed, overflow>>

LedgerNext ==
  \/ Settlement \/ Crash
  \/ \E s \in Strats : OpenPosition(s) \/ ClosePosition(s)
  \/ \E w \in Ingests :
       \/ \E k \in Asked(w) : Begin(w, k)
       \/ FetchPage(w) \/ FetchCut(w) \/ FetchFails(w) \/ Advance(w) \/ RowFails(w)
       \/ \E e \in Events : Insert(w, e) \/ Assign(w, e)
LedgerSpec == LedgerInit /\ [][LedgerNext]_ledgerVars

-----------------------------------------------------------------------------
(* Properties *)

Behind(e) == \E k \in {"*", e.sym} : e.at < committed.cursor[k]

\* No event behind a cursor is missing from the ledger, whatever fails or
\* overlaps, as long as a fetch reads all pages and no page ends inside an
\* instant: nobody will ever fetch it again.
NothingIsSkipped ==
  overflow \/ \A e \in posted : Behind(e) => e \in committed.ledger

\* Nor is one of them without the share of a strategy that held its market, also
\* when a crash came between the commit of the first savepoint and that of the
\* shares, and when two sessions had the same rows in hand.
HoldersGetTheirShare ==
  overflow \/ \A e \in committed.ledger : Behind(e) => Holders(e) \subseteq committed.shares[e]
=============================================================================
