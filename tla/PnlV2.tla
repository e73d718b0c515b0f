-------------------------------- MODULE PnlV2 --------------------------------
(***************************************************************************)
(* The PnL report of pnl_v2: what the funding ledger of FundingLedger holds*)
(* at a moment, read for a window of time and labelled with a quality.  A   *)
(* row counts the funding a strategy should have had, by the calendar of   *)
(* its exchange, and the shares it did have; the label is all a reader sees*)
(* of the difference.  The reports only read: they are operators on the    *)
(* tables.  Amounts are left out (a total is known or it is not).          *)
(***************************************************************************)
EXTENDS FundingLedger

CONSTANTS
  Intervals,   \* instants between two settlements, of an exchange
  EventLimit   \* events a list of a strategy's page shows (event_limit, 200 of at most 2000)

ASSUME PnlAssumption ==
  Intervals \subseteq Nat \ {0} /\ IsFiniteSet(Strats) /\ EventLimit \in Nat \ {0}

\* The windows a reader can ask for, as the instants in them: they end at a
\* midnight or now, and a midnight is the first moment of the next day.
Windows == {w \in [start : 0 .. clock, end : 0 .. clock] : w.start <= w.end}

\* The larger and the smaller of two bounds; a position that is not closed ends
\* with the window.
Later(a, b) == IF a > b THEN a ELSE b
Until(s, w) == IF span[s].to = 0 \/ span[s].to > w.end THEN w.end ELSE span[s].to

\* count_expected_funding_events: the multiples of the interval from the first at
\* or after `a' to the last at or before `b'.
\* Mutant: the last before `b'.
FirstDue(a, n) == n * ((a + n - 1) \div n)
CountBefore(a, b, n) == IF b <= FirstDue(a, n) THEN 0 ELSE (b - FirstDue(a, n) - 1) \div n + 1
CountDue(a, b, n) == IF b < FirstDue(a, n) THEN 0 ELSE (b - FirstDue(a, n)) \div n + 1

Due(s, w, n) == LET a == Later(w.start, span[s].from)
                IN IF Until(s, w) < a THEN 0 ELSE CountDue(a, Until(s, w), n)
CapturedBy(s, w) ==
  {e \in committed.ledger : s \in committed.shares[e] /\ e.at \in w.start .. w.end}

\* `stale': the oldest success of the cursors of the strategy's exchanges is more
\* than an hour before the end of the window.
Quality(due, captured, stale) ==
  CASE due = 0 -> "na"
    [] due > 0 /\ captured = 0 -> "missing"
    [] due > 0 /\ captured > 0 /\ stale -> "stale"
    [] due > 0 /\ captured > 0 /\ ~stale -> IF captured < due THEN "partial" ELSE "ok"
Rank == [q \in {"ok", "na", "partial", "stale", "missing"} |->
           CASE q \in {"ok", "na"} -> 0 [] q = "partial" -> 1 [] q = "stale" -> 2 [] q = "missing" -> 3]
Combined(Q) ==
  IF Q # {} /\ Q \subseteq {"na"} THEN "na"
  ELSE LET worst == Max({Rank[q] : q \in Q \union {"ok"}})
       IN IF worst = 0 THEN "ok" ELSE CHOOSE q \in Q : Rank[q] = worst

\* _serialize_strategy_row, and the strategies of _build_strategy_rows: created
\* before the end of the window and not closed before its start.
Row(s, w, n, stale) ==
  LET got == Cardinality(CapturedBy(s, w))
      q == Quality(Due(s, w, n), got, stale)
  IN [strategy |-> s, due |-> Due(s, w, n), captured |-> got, quality |-> q, known |-> q # "missing"]
StrategyRows(w, n, stale) ==
  {Row(s, w, n, stale) : s \in {x \in Strats : /\ span[x].from \in 1 .. w.end + 1
                                               /\ span[x].to = 0 \/ span[x].to >= w.start}}

\* A total over rows, as the pairs of a row and one of the events it counts.
Total(R, count) == Cardinality(UNION {{r} \X (1 .. r[count]) : r \in R})

\* get_pnl_summary_v2; a filter by quality keeps the rows of that quality.
Summary(w, n, stale) ==
  LET R == StrategyRows(w, n, stale)
  IN [quality |-> Combined({r.quality : r \in R}), known |-> \A r \in R : r.known,
      due |-> Total(R, "due"), captured |-> Total(R, "captured")]

\* get_strategy_pnl_detail_v2: by default over the strategy's life; the ledger's
\* rows of its market that nobody has a share of are unassigned.  The numbers are of
\* all events; a list has the newest of them, and the merged list the newest of both.
\* A market settles once at an instant.
Lifecycle(s, w) ==
  [start |-> span[s].from, end |-> IF span[s].to = 0 THEN w.end ELSE span[s].to]
UnassignedFor(s, w) ==
  {e \in committed.ledger : /\ e.sym = span[s].sym /\ e.at \in w.start .. w.end
                            /\ committed.shares[e] = {}}
NewerThan(e, E) == {f \in E : f.at > e.at}
Shown(E) == {e \in E : Cardinality(NewerThan(e, E)) < EventLimit}
Detail(s, w, n, stale) ==
  LET assigned == Shown(CapturedBy(s, w))
      unassigned == Shown(UnassignedFor(s, w))
      row == Row(s, w, n, stale)
  IN [quality |-> row.quality, captured |-> row.captured,
      unassignedCount |-> Cardinality(UnassignedFor(s, w)),
      assigned |-> assigned, unassigned |-> unassigned, events |-> Shown(assigned \union unassigned)]

-----------------------------------------------------------------------------
(* Properties *)

HeldIn(s, w) == {e \in posted : e.at \in w.start .. w.end /\ s \in Holders(e)}
OnCalendar(n) == \A e \in posted : e.at % n = 0

\* Listed, or behind as many newer ones as a list has room for.
ListedOrOld(e, list, E) == e \in list \/ Cardinality(NewerThan(e, E)) >= EventLimit

\* A report that says "ok", or that has captured as many events as were due, hides
\* no gap: every event the exchange posted for a market while a strategy held it,
\* in the window, has its share in the sums, whatever was skipped, failed or is
\* still in the hands of an ingest.  The lists of the strategy's page are cut, its
\* numbers are not: an event of a held market that is in the ledger is counted as
\* captured or as unassigned, and is in the merged list unless that list is full of
\* newer ones; on a page that says "ok" it is so in the list of shares.  For markets
\* that settle on the calendar of their exchange.
OkHidesNothing ==
  (\E s \in Strats : span[s].from > 0) =>
  \A n \in Intervals : OnCalendar(n) =>
    \A w \in Windows :
      LET S == Summary(w, n, FALSE) IN
      /\ S.quality = "ok" \/ S.captured >= S.due =>
           \A s \in Strats : HeldIn(s, w) \subseteq CapturedBy(s, w)
      /\ \A s \in Strats : span[s].from > 0 =>
           LET v == Lifecycle(s, w)
               d == Detail(s, v, n, FALSE)
               stored == HeldIn(s, v) \cap committed.ledger
           IN /\ d.quality = "ok" =>
                   \A e \in HeldIn(s, v) : /\ e \in CapturedBy(s, v)
                                           /\ ListedOrOld(e, d.assigned, CapturedBy(s, v))
              /\ Cardinality(stored) <= d.captured + d.unassignedCount
              /\ \A e \in stored :
                   ListedOrOld(e, d.events, CapturedBy(s, v) \union UnassignedFor(s, v))
=============================================================================
