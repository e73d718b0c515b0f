-------------------------- MODULE FundingLedgerProofs --------------------------
(***************************************************************************)
(* For any markets, strategies, sessions, page sizes and ways of paging:   *)
(* no event behind a cursor is missing from the ledger, or lacks the share *)
(* of a strategy that held its market.                                     *)
(***************************************************************************)
EXTENDS PnlV2, FiniteSetTheorems, WellFoundedInduction, TLAPS

-----------------------------------------------------------------------------
(* The ends of a set of events, and the pages of one                       *)

LEMMA SmallestExists ==
  ASSUME NEW T \in SUBSET Nat, T # {}
  PROVE  \E x \in T : \A y \in T : x <= y
<1>1. PICK x \in T : \A y \in T : ~ (<<y, x>> \in OpToRel(<, Nat))
  BY NatLessThanWellFounded, WFMin
<1>2. \A y \in T : ~(y < x)
  BY <1>1 DEF OpToRel
<1> QED BY <1>2

LEMMA LargestExists ==
  ASSUME NEW N \in Nat, NEW T \in SUBSET (1 .. N), T # {}
  PROVE  \E x \in T : \A y \in T : x >= y
<1> DEFINE U == {N - x : x \in T}
<1>1. U \in SUBSET Nat /\ U # {}
  <2>1. \A x \in T : x \in 1 .. N
    OBVIOUS
  <2>2. \A x \in T : N - x \in Nat
    BY <2>1
  <2> QED BY <2>2
<1>2. PICK u \in U : \A v \in U : u <= v
  BY <1>1, SmallestExists
<1>3. PICK x \in T : u = N - x
  BY <1>2
<1>4. \A y \in T : N - x <= N - y
  BY <1>2, <1>3
<1> QED BY <1>4

LEMMA EventsTyped == \A e \in Events : e.at \in 1 .. LastInstant /\ e.at \in Nat /\ e.sym \in Syms
BY FundingLedgerAssumption DEF Events

LEMMA NewestOf ==
  ASSUME NEW P \in SUBSET Events, P # {}
  PROVE  /\ \E e \in P : e.at = Newest(P)
         /\ \A e \in P : e.at <= Newest(P)
         /\ Newest(P) \in Nat
<1> DEFINE T == {e.at : e \in P}
<1>1. T \in SUBSET (1 .. LastInstant) /\ T # {}
  BY EventsTyped
<1>2. \E x \in T : \A y \in T : x >= y
  BY <1>1, LargestExists, FundingLedgerAssumption
<1>3. Max(T) \in T /\ \A y \in T : Max(T) >= y
  BY <1>2 DEF Max
<1> QED BY <1>1, <1>3, EventsTyped DEF Newest

LEMMA OldestOf ==
  ASSUME NEW P \in SUBSET Events, P # {}
  PROVE  /\ \E e \in P : e.at = Oldest(P)
         /\ \A e \in P : Oldest(P) <= e.at
         /\ Oldest(P) \in Nat
<1> DEFINE T == {e.at : e \in P}
<1>1. T \in SUBSET Nat /\ T # {}
  BY EventsTyped
<1>2. \E x \in T : \A y \in T : x <= y
  BY <1>1, SmallestExists
<1>3. Min(T) \in T /\ \A y \in T : Min(T) <= y
  BY <1>2 DEF Min
<1> QED BY <1>1, <1>3, EventsTyped DEF Oldest

LEMMA EventsFinite == IsFiniteSet(Events)
<1> DEFINE B == Syms \X (1 .. LastInstant)
           f == [e \in Events |-> <<e.sym, e.at>>]
<1>1. IsFiniteSet(B)
  <2>1. IsFiniteSet(1 .. LastInstant)
    BY FS_Interval, FundingLedgerAssumption
  <2>2. IsFiniteSet(Syms)
    BY FundingLedgerAssumption
  <2> QED BY <2>1, <2>2, FS_Product
<1>2. f \in [Events -> B] /\ \A a, b \in Events : f[a] = f[b] => a = b
  BY DEF Events
<1> HIDE DEF B, f
<1>3. f \in Injection(Events, B)
  BY <1>2 DEF Injection, IsInjective
<1> QED BY <1>1, <1>3, FS_Injection

\* A page that is not full is all there is; a full one holds the first of the list.
LEMMA PageOf ==
  ASSUME NEW S \in SUBSET Events, NEW P \in Pages(S)
  PROVE  /\ P \subseteq S /\ (Cardinality(P) # PageSize => P = S)
         /\ Cardinality(P) = PageSize => P # {}
         /\ \A p \in P, q \in S \ P : IF style = "ascending" THEN p.at <= q.at ELSE p.at >= q.at
<1>1. IsFiniteSet(S) /\ P \in SUBSET S
  BY EventsFinite, FS_Subset DEF Pages
<1>2. Cardinality(S) \in Nat
  BY <1>1, FS_CardinalityType
<1>3. Min({PageSize, Cardinality(S)}) \in {PageSize, Cardinality(S)}
  BY <1>2, FundingLedgerAssumption DEF Min
<1>4. Cardinality(P) # PageSize => P = S
  BY <1>1, <1>3, FS_Subset DEF Pages
<1>5. Cardinality(P) = PageSize => P # {}
  BY FS_EmptySet, FundingLedgerAssumption
<1> QED BY <1>1, <1>4, <1>5 DEF Pages

-----------------------------------------------------------------------------
(* The invariant.  An event is good in tables if it is there, with every   *)
(* share due.  Behind a cursor all are; a call has good ones before `since'*)
(* and keeps, page by page, the promise that what it has read has no gap,  *)
(* and row by row that what it has done is good in the tables it sees.     *)

Calls == [pc : {"idle", "fetch", "rows", "created"}, key : Keys2, since : Nat, from : Nat,
          pages : Nat, got : SUBSET Events, todo : SUBSET Events]
Tables == [ledger : SUBSET Events, shares : [Events -> SUBSET Strats], cursor : [Keys2 -> Nat]]
Held == [sym : Syms \union {NoOne}, from : Nat, to : Nat]

WorldTyped ==
  /\ style \in {"ascending", "descending", "newest"} /\ clock \in 0 .. LastInstant
  /\ posted \subseteq Events /\ span \in [Strats -> Held] /\ overflow \in BOOLEAN
  /\ \A e \in posted : e.at <= clock
TablesTyped ==
  /\ committed \in Tables /\ work \in Tables /\ writer \in Ingests \union {NoOne}
  /\ committed.ledger \subseteq posted /\ work.ledger \subseteq posted
  /\ \A k \in Keys2 : committed.cursor[k] <= clock + 1
  /\ writer # NoOne => work.cursor = committed.cursor
CallsTyped == ingest \in [Ingests -> Calls]

\* A call has read what is posted, from `since' on, and its cursors are not ahead of time.
CallSane(i) ==
  /\ i.since <= clock + 1 /\ i.from <= clock + 1
  /\ i.got \subseteq posted /\ i.todo \subseteq i.got
  /\ \A e \in i.got : i.since <= e.at
  /\ i.pc = "fetch" => i.since <= i.from /\ (style # "ascending" => i.from = i.since)
CallsSane == \A w \in Ingests : CallSane(ingest[w])

Good(d, e) == e \in d.ledger /\ Holders(e) \subseteq d.shares[e]
Matches(i, e) == i.key \in {"*", e.sym}

\* While a session writes, its tables have what the committed ones have.
WorkIsAhead == writer # NoOne => \A e \in posted : Good(committed, e) => Good(work, e)
BehindIsDue == \A e \in posted : Behind(e) => Good(committed, e)

SinceIsDue(i) == \A e \in posted : Matches(i, e) /\ e.at < i.since => Good(committed, e)
Upward(i) ==
  /\ \A e \in i.got : e.at < i.from
  /\ \A e \in posted : Matches(i, e) /\ i.since <= e.at /\ e.at < i.from => e \in i.got
Downward(i) ==
  \A e \in posted \ i.got : Matches(i, e) /\ i.since <= e.at =>
    ((\E g \in i.got : e.at <= g.at) => \A g \in i.got : e.at <= g.at)
NoGap(i) ==
  \A e \in posted : Matches(i, e) /\ i.since <= e.at /\ (\E g \in i.got : e.at <= g.at)
                     => e \in i.got
Reading(i) ==
  /\ i.pc = "fetch" => IF style = "ascending" THEN Upward(i) ELSE Downward(i)
  /\ i.pc \in {"rows", "created"} => NoGap(i)
Writing(w) ==
  ingest[w].pc \in {"rows", "created"} =>
    \A e \in ingest[w].got \ ingest[w].todo : Good(View(w), e)
CallKept(w) == SinceIsDue(ingest[w]) /\ Reading(ingest[w]) /\ Writing(w)

LedgerTyped == WorldTyped /\ TablesTyped /\ CallsTyped /\ CallsSane
Kept == WorkIsAhead /\ BehindIsDue /\ \A w \in Ingests : CallKept(w)
LedgerInv == LedgerTyped /\ (overflow \/ Kept)

LEMMA RestIsSane ==
  ASSUME WorldTyped
  PROVE  /\ AtRest \in Calls /\ CallSane(AtRest) /\ SinceIsDue(AtRest) /\ Reading(AtRest)
         /\ AtRest.pc = "idle"
BY DEF AtRest, Calls, Keys2, CallSane, SinceIsDue, Reading, WorldTyped, Events

LEMMA EmptyTyped == Empty \in Tables
BY DEF Empty, Tables

LEMMA LedgerInitInv == LedgerInit => LedgerInv
<1> SUFFICES ASSUME LedgerInit PROVE LedgerInv
  OBVIOUS
<1>1. WorldTyped
  <2>1. style \in {"ascending", "descending", "newest"} /\ 0 \in 0 .. LastInstant
    BY FundingLedgerAssumption DEF LedgerInit
  <2>2. span \in [Strats -> Held]
    BY DEF LedgerInit, Held
  <2> QED BY <2>1, <2>2 DEF LedgerInit, WorldTyped
<1>2. TablesTyped
  BY EmptyTyped DEF LedgerInit, TablesTyped, Empty, Keys2
<1>3. CallsTyped /\ CallsSane
  BY <1>1, RestIsSane DEF LedgerInit, CallsTyped, CallsSane
<1>4. WorkIsAhead /\ BehindIsDue
  BY DEF LedgerInit, WorkIsAhead, BehindIsDue
<1>5. ASSUME NEW w \in Ingests PROVE CallKept(w)
  BY <1>1, RestIsSane DEF LedgerInit, CallKept, Writing
<1> QED BY <1>1, <1>2, <1>3, <1>4, <1>5 DEF LedgerInv, LedgerTyped, Kept

-----------------------------------------------------------------------------
(* Steps of the world: events are posted, and positions come and go.       *)

\* A call of which nothing changes, while the tables only gain.
LEMMA CallStays ==
  ASSUME NEW w \in Ingests, CallKept(w), ingest'[w] = ingest[w],
         UNCHANGED <<style, posted>>,
         \A e \in posted : Good(committed, e) => Good(committed, e)',
         \A e \in ingest[w].got : Good(View(w), e) => Good(View(w), e)'
  PROVE  CallKept(w)'
<1>1. SinceIsDue(ingest[w])'
  BY DEF CallKept, SinceIsDue, Matches
<1>2. Reading(ingest[w])'
  BY DEF CallKept, Reading, Upward, Downward, NoGap, Matches
<1>3. Writing(w)'
  BY DEF CallKept, Writing
<1> QED BY <1>1, <1>2, <1>3 DEF CallKept

LEMMA WorldStep ==
  ASSUME LedgerInv, WorldTyped', clock <= clock', posted \subseteq posted',
         \A e \in posted' \ posted : e.at = clock + 1,
         \A e \in posted : Holders(e)' = Holders(e),
         UNCHANGED <<style, committed, writer, work, ingest, overflow>>
  PROVE  LedgerInv'
<1> USE DEF LedgerInv, LedgerTyped
<1>1. clock \in Nat /\ clock' \in Nat
  BY FundingLedgerAssumption DEF WorldTyped
<1>2. \A e \in posted : e.at \in Nat /\ e.at <= clock
  BY EventsTyped DEF WorldTyped
<1>3. TablesTyped'
  BY <1>1 DEF TablesTyped, Tables
<1>4. CallsTyped'
  BY DEF CallsTyped
<1>5. CallsSane'
  BY <1>1 DEF CallsSane, CallSane, CallsTyped, Calls
<1>6. \A e \in posted : /\ Good(committed, e)' <=> Good(committed, e)
                        /\ Good(work, e)' <=> Good(work, e)
  BY DEF Good
<1>7. \A e \in posted, w \in Ingests : Good(View(w), e)' <=> Good(View(w), e)
  BY <1>6 DEF View, Good
<1>8. ASSUME ~overflow PROVE Kept'
  <2>1. Kept
    BY <1>8
  <2>2. WorkIsAhead'
    <3>1. \A e \in posted' : Good(committed, e)' => e \in posted
      BY DEF Good, TablesTyped
    <3> QED BY <2>1, <1>6, <3>1 DEF Kept, WorkIsAhead, Good
  <2>3. BehindIsDue'
    <3>1. \A e \in posted' \ posted : ~Behind(e)'
      BY <1>1 DEF Behind, TablesTyped, Tables, Keys2, WorldTyped, Events
    <3>2. \A e \in posted : Behind(e)' <=> Behind(e)
      BY DEF Behind
    <3> QED BY <2>1, <1>6, <3>1, <3>2 DEF Kept, BehindIsDue, Good
  <2>4. ASSUME NEW w \in Ingests PROVE CallKept(w)'
    <3> DEFINE i == ingest[w]
    <3>1. CallKept(w) /\ CallSane(i) /\ i \in Calls
      BY <2>1 DEF Kept, CallsSane, CallsTyped
    <3>2. \A e \in posted' \ posted : /\ e.at >= i.since /\ e.at >= i.from
                                      /\ \A g \in i.got : e.at > g.at
      BY <1>1, <1>2, <3>1 DEF CallSane, Calls
    <3>3. SinceIsDue(i)'
      <4>1. ASSUME NEW e \in posted', Matches(i, e), e.at < i.since PROVE e \in posted
        <5>1. e.at \in Nat /\ i.since \in Nat
          BY <3>1, <4>1, EventsTyped DEF Calls, WorldTyped
        <5>2. e \notin posted => e.at >= i.since
          BY <3>2, <4>1
        <5> QED BY <4>1, <5>1, <5>2
      <4>2. \A e \in posted : Matches(i, e) /\ e.at < i.since => Good(committed, e)'
        BY <1>6, <3>1 DEF CallKept, SinceIsDue, Good
      <4> QED BY <4>1, <4>2 DEF SinceIsDue, Matches
    <3>4. Reading(i)'
      <4>1. ASSUME Upward(i) PROVE Upward(i)'
        BY <3>1, <3>2, <4>1, EventsTyped DEF Upward, Matches, Calls, WorldTyped
      <4>2. ASSUME Downward(i) PROVE Downward(i)'
        BY <3>1, <3>2, <4>2, EventsTyped DEF Downward, Matches, Calls, WorldTyped
      <4>3. ASSUME NoGap(i) PROVE NoGap(i)'
        BY <3>1, <3>2, <4>3, EventsTyped DEF NoGap, Matches, Calls, WorldTyped
      <4> QED BY <3>1, <4>1, <4>2, <4>3 DEF CallKept, Reading
    <3>5. Writing(w)'
      BY <1>7, <3>1 DEF CallKept, Writing, CallSane
    <3> QED BY <3>3, <3>4, <3>5 DEF CallKept
  <2> QED BY <2>2, <2>3, <2>4 DEF Kept
<1> QED BY <1>3, <1>4, <1>5, <1>8

LEMMA SettlementStep == ASSUME LedgerInv, Settlement PROVE LedgerInv'
<1>1. PICK S \in SUBSET Syms : posted' = posted \union {[sym |-> x, at |-> clock + 1] : x \in S}
  BY DEF Settlement
<1>2. /\ clock < LastInstant /\ clock' = clock + 1
      /\ UNCHANGED <<style, span, committed, writer, work, ingest, overflow>>
  BY DEF Settlement
<1>3. clock \in Nat /\ clock + 1 \in 1 .. LastInstant
  BY <1>2, FundingLedgerAssumption DEF LedgerInv, LedgerTyped, WorldTyped
<1>4. \A e \in posted' \ posted : e \in Events /\ e.at = clock + 1
  BY <1>1, <1>3 DEF Events
<1>5. \A e \in posted' : e.at <= clock'
  BY <1>2, <1>3, <1>4, EventsTyped DEF LedgerInv, LedgerTyped, WorldTyped
<1>6. WorldTyped'
  BY <1>2, <1>3, <1>4, <1>5 DEF LedgerInv, LedgerTyped, WorldTyped
<1>7. \A e \in posted : Holders(e)' = Holders(e)
  BY <1>2 DEF Holders
<1> QED BY <1>1, <1>2, <1>3, <1>4, <1>6, <1>7, WorldStep

\* A position of the future holds nothing that is posted, and one that is closed now held
\* what is posted as long as it was open.
LEMMA PositionHolds ==
  ASSUME LedgerInv, NEW s \in Strats, OpenPosition(s) \/ ClosePosition(s)
  PROVE  span' \in [Strats -> Held] /\ \A e \in posted : Holders(e)' = Holders(e)
<1> USE DEF LedgerInv, LedgerTyped
<1>1. /\ clock \in Nat /\ span \in [Strats -> Held]
      /\ \A e \in posted : e.at \in Nat /\ e.at <= clock
  BY FundingLedgerAssumption, EventsTyped DEF WorldTyped
<1>2. CASE OpenPosition(s)
  <2>1. PICK x \in Syms : span' = [span EXCEPT ![s] = [sym |-> x, from |-> clock + 1, to |-> 0]]
    BY <1>2 DEF OpenPosition
  <2>2. span' \in [Strats -> Held]
    BY <1>1, <2>1 DEF Held
  <2>3. /\ span[s].from = 0 /\ span'[s].from = clock + 1
        /\ \A q \in Strats \ {s} : span'[q] = span[q]
    BY <1>1, <1>2, <2>1 DEF OpenPosition
  <2>4. \A e \in posted : s \notin Holders(e) /\ s \notin Holders(e)'
    BY <1>1, <2>3 DEF Holders
  <2>5. \A e \in posted : Holders(e)' = Holders(e)
    BY <2>3, <2>4 DEF Holders
  <2> QED BY <2>2, <2>5
<1>3. CASE ClosePosition(s)
  <2>1. /\ span[s].to = 0 /\ span' = [span EXCEPT ![s].to = clock]
    BY <1>3 DEF ClosePosition
  <2>2. span' \in [Strats -> Held]
    BY <1>1, <2>1 DEF Held
  <2>3. /\ span'[s].sym = span[s].sym /\ span'[s].from = span[s].from /\ span'[s].to = clock
        /\ \A q \in Strats \ {s} : span'[q] = span[q]
    BY <1>1, <2>1 DEF Held
  <2>4. \A e \in posted : s \in Holders(e) <=> s \in Holders(e)'
    BY <1>1, <2>1, <2>3 DEF Holders
  <2>5. \A e \in posted : Holders(e)' = Holders(e)
    BY <2>3, <2>4 DEF Holders
  <2> QED BY <2>2, <2>5
<1> QED BY <1>2, <1>3

LEMMA PositionStep ==
  ASSUME LedgerInv, NEW s \in Strats, OpenPosition(s) \/ ClosePosition(s)
  PROVE  LedgerInv'
<1>1. UNCHANGED <<style, clock, posted, committed, writer, work, ingest, overflow>>
  BY DEF OpenPosition, ClosePosition
<1> QED BY <1>1, PositionHolds, WorldStep DEF LedgerInv, LedgerTyped, WorldTyped

-----------------------------------------------------------------------------
(* Steps of a fetch: one call changes, and no table.                       *)

LEMMA FetchStep ==
  ASSUME LedgerInv, NEW w \in Ingests, NEW c \in Calls,
         ingest' = [ingest EXCEPT ![w] = c], CallSane(c),
         UNCHANGED <<style, clock, posted, span, committed, writer, work>>,
         overflow' \in BOOLEAN, overflow => overflow',
         ~overflow' => SinceIsDue(c) /\ Reading(c),
         c.pc \in {"rows", "created"} => c.got \subseteq c.todo
  PROVE  LedgerInv'
<1> USE DEF LedgerInv, LedgerTyped
<1>1. WorldTyped' /\ TablesTyped'
  BY DEF WorldTyped, TablesTyped
<1>2. CallsTyped'
  BY DEF CallsTyped
<1>3. ingest'[w] = c /\ \A v \in Ingests \ {w} : ingest'[v] = ingest[v]
  BY DEF CallsTyped
<1>4. CallsSane'
  <2>1. CallSane(c)'
    BY DEF CallSane
  <2>2. ASSUME NEW v \in Ingests \ {w} PROVE CallSane(ingest[v])'
    BY <1>3 DEF CallsSane, CallSane
  <2> QED BY <1>3, <2>1, <2>2 DEF CallsSane, CallSane
<1>5. ASSUME ~overflow' PROVE Kept'
  <2>1. Kept
    BY <1>5
  <2>2. WorkIsAhead' /\ BehindIsDue'
    BY <2>1 DEF Kept, WorkIsAhead, BehindIsDue, Good, Holders, Behind
  <2>3. CallKept(w)'
    <3>1. SinceIsDue(ingest[w])'
      BY <1>3, <1>5 DEF SinceIsDue, Good, Holders, Matches
    <3>2. Reading(ingest[w])'
      BY <1>3, <1>5 DEF Reading, Upward, Downward, NoGap, Matches
    <3>3. Writing(w)'
      BY <1>3 DEF Writing
    <3> QED BY <3>1, <3>2, <3>3 DEF CallKept
  <2>4. ASSUME NEW v \in Ingests \ {w} PROVE CallKept(v)'
    BY <1>3, <2>1, CallStays DEF Kept, Good, Holders, View
  <2> QED BY <2>2, <2>3, <2>4 DEF Kept
<1> QED BY <1>1, <1>2, <1>4, <1>5 DEF WorldTyped

LEMMA BeginStep ==
  ASSUME LedgerInv, NEW w \in Ingests, NEW k \in Asked(w), Begin(w, k)
  PROVE  LedgerInv'
<1> USE DEF LedgerInv, LedgerTyped
<1> DEFINE c == [AtRest EXCEPT !.pc = "fetch", !.key = k,
                               !.since = committed.cursor[k], !.from = committed.cursor[k]]
<1>1. k \in Keys2 /\ committed.cursor[k] \in Nat /\ committed.cursor[k] <= clock + 1
  BY DEF Asked, Keys2, TablesTyped, Tables
<1>2. /\ c.pc = "fetch" /\ c.key = k /\ c.since = committed.cursor[k]
      /\ c.from = committed.cursor[k] /\ c.got = {} /\ c.todo = {} /\ c \in Calls
  BY <1>1 DEF AtRest, Calls
<1>3. /\ ingest' = [ingest EXCEPT ![w] = c]
      /\ UNCHANGED <<style, clock, posted, span, committed, writer, work, overflow>>
  BY DEF Begin
<1> HIDE DEF c
<1>4. CallSane(c)
  BY <1>1, <1>2 DEF CallSane
<1>5. Reading(c)
  BY <1>1, <1>2, EventsTyped DEF Reading, Upward, Downward, WorldTyped
<1>6. ASSUME ~overflow PROVE SinceIsDue(c)
  BY <1>1, <1>2, <1>6 DEF SinceIsDue, Matches, Kept, BehindIsDue, Behind, Asked
<1> QED BY <1>2, <1>3, <1>4, <1>5, <1>6, FetchStep DEF WorldTyped

LEMMA FetchFailsStep ==
  ASSUME LedgerInv, NEW w \in Ingests, FetchFails(w)
  PROVE  LedgerInv'
<1>1. /\ AtRest \in Calls /\ CallSane(AtRest) /\ SinceIsDue(AtRest) /\ Reading(AtRest)
      /\ AtRest.pc = "idle"
  BY RestIsSane DEF LedgerInv, LedgerTyped
<1>2. /\ ingest' = [ingest EXCEPT ![w] = AtRest]
      /\ UNCHANGED <<style, clock, posted, span, committed, writer, work, overflow>>
  BY DEF FetchFails
<1> QED BY <1>1, <1>2, FetchStep DEF LedgerInv, LedgerTyped, WorldTyped

LEMMA FetchCutStep ==
  ASSUME LedgerInv, NEW w \in Ingests, FetchCut(w)
  PROVE  LedgerInv'
<1> USE DEF LedgerInv, LedgerTyped
<1> DEFINE i == ingest[w]
           c == [i EXCEPT !.pc = "rows", !.pages = 0, !.from = 0, !.todo = i.got]
<1>1. i \in Calls /\ CallSane(i) /\ i.pc = "fetch"
  BY DEF CallsTyped, CallsSane, FetchCut
<1>2. /\ c \in Calls /\ c.pc = "rows" /\ c.since = i.since /\ c.key = i.key
      /\ c.from = 0 /\ c.got = i.got /\ c.todo = i.got
  BY <1>1 DEF Calls
<1>3. /\ ingest' = [ingest EXCEPT ![w] = c]
      /\ overflow' = (overflow \/ (style # "ascending" /\ i.got # {}))
      /\ UNCHANGED <<style, clock, posted, span, committed, writer, work>>
  BY DEF FetchCut
<1> HIDE DEF c
<1>4. CallSane(c)
  BY <1>1, <1>2, FundingLedgerAssumption DEF CallSane, WorldTyped, Calls
<1>5. ASSUME ~overflow' PROVE SinceIsDue(c) /\ Reading(c)
  <2>1. CallKept(w) /\ (style = "ascending" \/ i.got = {})
    BY <1>3, <1>5 DEF Kept
  <2>2. SinceIsDue(c)
    BY <1>2, <2>1 DEF CallKept, SinceIsDue, Matches
  <2>3. NoGap(c)
    <3>1. CASE i.got = {}
      BY <1>2, <3>1 DEF NoGap
    <3>2. CASE style = "ascending"
      <4>1. Upward(i)
        BY <1>1, <2>1, <3>2 DEF CallKept, Reading
      <4> QED BY <1>1, <1>2, <4>1, EventsTyped DEF NoGap, Upward, Matches, Calls, WorldTyped
    <3> QED BY <2>1, <3>1, <3>2
  <2> QED BY <1>2, <2>2, <2>3 DEF Reading
<1> QED BY <1>2, <1>3, <1>4, <1>5, FetchStep DEF WorldTyped

\* The next page: what is read has no gap, unless the history says that it may have one.
LEMMA FetchPageStep ==
  ASSUME LedgerInv, NEW w \in Ingests, FetchPage(w)
  PROVE  LedgerInv'
<1> USE DEF LedgerInv, LedgerTyped
<1> DEFINE i == ingest[w]
           S == Left(i)
           full(P) == Cardinality(P) = PageSize
           stuck(P) == style = "ascending" /\ P # {} /\ Newest(P) <= i.from
           last(P) == ~full(P) \/ stuck(P) \/ style = "newest" \/ i.pages + 1 = MaxPages
           inside(P) == style = "ascending" /\ full(P) /\ \E e \in S \ P : e.at = Newest(P)
           next(P) == [i EXCEPT !.got = i.got \union P,
                                !.pages = IF last(P) THEN 0 ELSE i.pages + 1,
                                !.pc = IF last(P) THEN "rows" ELSE "fetch",
                                !.todo = IF last(P) THEN i.got \union P ELSE {},
                                !.from = IF last(P) THEN 0
                                         ELSE IF style = "ascending" THEN Newest(P) + 1 ELSE i.from]
<1>1. PICK P \in Pages(S) :
        /\ ingest' = [ingest EXCEPT ![w] = next(P)]
        /\ overflow' = (overflow \/ inside(P) \/ (last(P) /\ full(P) /\ style # "ascending"))
  BY DEF FetchPage
<1>2. i \in Calls /\ CallSane(i) /\ i.pc = "fetch" /\ posted \subseteq Events
      /\ UNCHANGED <<style, clock, posted, span, committed, writer, work>>
  BY DEF CallsTyped, CallsSane, FetchPage, WorldTyped
<1> DEFINE c == next(P)
<1>3. S \subseteq posted /\ \A e \in S : Matches(i, e) /\ i.from <= e.at
  BY DEF Left, Matching, Matches
<1>4. /\ P \subseteq S /\ (~full(P) => P = S) /\ (full(P) => P # {})
      /\ \A p \in P, q \in S \ P : IF style = "ascending" THEN p.at <= q.at ELSE p.at >= q.at
  BY <1>2, <1>3, PageOf
<1>5. /\ \A e \in posted : e.at \in Nat /\ e.at <= clock
      /\ i.since \in Nat /\ i.from \in Nat /\ i.pages \in Nat /\ clock \in Nat
      /\ i.since <= i.from /\ (style # "ascending" => i.from = i.since)
  BY <1>2, EventsTyped, FundingLedgerAssumption DEF WorldTyped, Calls, CallSane
<1>6. P # {} => /\ Newest(P) \in Nat /\ \A e \in P : e.at <= Newest(P)
                /\ \E e \in P : e.at = Newest(P)
  BY <1>2, <1>3, <1>4, NewestOf
<1>7. ~last(P) => full(P) /\ P # {}
  BY <1>4
<1>8. /\ c \in Calls /\ c.since = i.since /\ c.key = i.key /\ c.got = i.got \union P
      /\ c.pc = (IF last(P) THEN "rows" ELSE "fetch")
      /\ c.todo = (IF last(P) THEN i.got \union P ELSE {})
      /\ c.from = (IF last(P) THEN 0 ELSE IF style = "ascending" THEN Newest(P) + 1 ELSE i.from)
  <2>1. i.got \union P \in SUBSET Events
    BY <1>2, <1>3, <1>4 DEF Calls
  <2>2. (IF last(P) THEN 0 ELSE IF style = "ascending" THEN Newest(P) + 1 ELSE i.from) \in Nat
    BY <1>5, <1>6, <1>7
  <2>3. (IF last(P) THEN 0 ELSE i.pages + 1) \in Nat
    BY <1>5
  <2> HIDE DEF last
  <2> QED BY <1>2, <2>1, <2>2, <2>3 DEF Calls
<1> HIDE DEF c
<1>9. CallSane(c)
  <2>1. c.since <= clock + 1 /\ c.from <= clock + 1
    BY <1>2, <1>3, <1>4, <1>5, <1>6, <1>7, <1>8 DEF CallSane
  <2>2. c.got \subseteq posted /\ c.todo \subseteq c.got
    BY <1>2, <1>3, <1>4, <1>8 DEF CallSane
  <2>3. \A e \in c.got : c.since <= e.at
    BY <1>2, <1>3, <1>4, <1>5, <1>8 DEF CallSane
  <2>4. c.pc = "fetch" => c.since <= c.from /\ (style # "ascending" => c.from = c.since)
    BY <1>3, <1>4, <1>5, <1>6, <1>7, <1>8
  <2> QED BY <2>1, <2>2, <2>3, <2>4 DEF CallSane
<1>10. ASSUME ~overflow', style = "ascending" PROVE Reading(c)
  <2>1. Upward(i)
    BY <1>1, <1>2, <1>10 DEF Kept, CallKept, Reading
  <2>2. S = Matching(i)
    BY <1>10 DEF Left
  <2>3. ~inside(P)
    BY <1>1, <1>10
  \* What is at or before the newest row of the page, and not before the page, is in it.
  <2>4. ASSUME NEW e \in posted, Matches(i, e), i.from <= e.at, NEW g \in P, e.at <= g.at
        PROVE  e \in P
    <3>1. e \in S
      BY <2>2, <2>4 DEF Matching, Matches
    <3>2. CASE full(P) /\ e \notin P
      <4>1. \A p \in P : p.at <= e.at
        BY <1>4, <1>10, <3>1, <3>2
      <4>2. e.at = Newest(P)
        BY <1>3, <1>4, <1>5, <1>6, <2>4, <4>1
      <4> QED BY <1>10, <2>3, <3>1, <3>2, <4>2
    <3> QED BY <1>4, <3>1, <3>2
  <2>5. CASE last(P)
    <3>1. ASSUME NEW e \in posted, Matches(c, e), c.since <= e.at, NEW g \in c.got, e.at <= g.at
          PROVE  e \in c.got
      <4>1. CASE e.at < i.from
        BY <1>8, <2>1, <3>1, <4>1 DEF Upward, Matches
      <4>2. CASE e.at >= i.from
        <5>1. g \in P
          BY <1>2, <1>5, <1>8, <2>1, <3>1, <4>2 DEF Upward, CallSane
        <5> QED BY <1>8, <2>4, <3>1, <4>2, <5>1 DEF Matches
      <4> QED BY <1>5, <4>1, <4>2
    <3> QED BY <1>8, <2>5, <3>1 DEF Reading, NoGap
  <2>6. CASE ~last(P)
    <3>1. c.from = Newest(P) + 1 /\ P # {}
      BY <1>7, <1>8, <1>10, <2>6
    <3>2. \A e \in c.got : e.at < c.from
      BY <1>2, <1>3, <1>4, <1>5, <1>6, <1>8, <2>1, <3>1 DEF Upward, CallSane
    <3>3. ASSUME NEW e \in posted, Matches(c, e), c.since <= e.at, e.at < c.from
          PROVE  e \in c.got
      <4>1. CASE e.at < i.from
        BY <1>8, <2>1, <3>3, <4>1 DEF Upward, Matches
      <4>2. CASE e.at >= i.from
        <5>1. PICK g \in P : g.at = Newest(P)
          BY <1>6, <3>1
        <5>2. e.at <= g.at
          BY <1>5, <1>6, <3>1, <3>3, <5>1
        <5> QED BY <1>8, <2>4, <3>3, <4>2, <5>2 DEF Matches
      <4> QED BY <1>5, <4>1, <4>2
    <3> QED BY <1>8, <1>10, <2>6, <3>2, <3>3 DEF Reading, Upward
  <2> QED BY <2>5, <2>6
<1>11. ASSUME ~overflow', style # "ascending" PROVE Reading(c)
  <2>1. Downward(i)
    BY <1>1, <1>2, <1>11 DEF Kept, CallKept, Reading
  <2>2. ~(last(P) /\ full(P))
    BY <1>1, <1>11
  <2>3. i.got # {} => \A e \in i.got : Oldest(i.got) <= e.at /\ Oldest(i.got) \in Nat
    BY <1>2, OldestOf DEF Calls
  \* What has not been read is not newer than what has, and is among what is left.
  <2>4. ASSUME NEW e \in posted \ i.got, Matches(i, e), i.since <= e.at,
               NEW g \in c.got, e.at <= g.at
        PROVE  e \in S /\ \A h \in i.got : e.at <= h.at
    <3>1. e \in Matching(i)
      BY <1>5, <1>11, <2>4 DEF Matching, Matches
    <3>2. CASE i.got = {}
      BY <3>1, <3>2 DEF Left
    <3>3. CASE i.got # {}
      <4>1. \E h \in i.got : e.at <= h.at
        <5>1. CASE g \in i.got
          BY <2>4, <5>1
        <5>2. CASE g \in P
          <6>1. g.at <= Oldest(i.got)
            BY <1>4, <1>11, <3>3, <5>2 DEF Left
          <6>2. PICK h \in i.got : h.at = Oldest(i.got)
            BY <1>2, <3>3, OldestOf DEF Calls
          <6>3. e.at \in Nat /\ g.at \in Nat /\ h.at \in Nat
            BY <1>2, <1>3, <1>4, <1>5, <5>2 DEF CallSane
          <6> QED BY <2>4, <6>1, <6>2, <6>3
        <5> QED BY <1>8, <2>4, <5>1, <5>2
      <4>2. \A h \in i.got : e.at <= h.at
        BY <2>1, <2>4, <4>1 DEF Downward
      <4>3. e.at <= Oldest(i.got)
        BY <1>2, <3>3, <4>2, OldestOf DEF Calls
      <4> QED BY <1>11, <3>1, <3>3, <4>2, <4>3 DEF Left
    <3> QED BY <3>2, <3>3
  <2>5. CASE last(P)
    <3>1. P = S
      BY <1>4, <2>2, <2>5
    <3>2. NoGap(c)
      BY <1>8, <2>4, <3>1 DEF NoGap, Matches
    <3> QED BY <1>8, <2>5, <3>2 DEF Reading
  <2>6. CASE ~last(P)
    <3>1. ASSUME NEW e \in posted \ c.got, Matches(c, e), c.since <= e.at,
                 NEW g \in c.got, e.at <= g.at, NEW h \in c.got
          PROVE  e.at <= h.at
      <4>1. e \in S \ P /\ \A f \in i.got : e.at <= f.at
        BY <1>8, <2>4, <3>1 DEF Matches
      <4>2. \A p \in P : p.at >= e.at
        BY <1>4, <1>11, <4>1
      <4>3. e.at \in Nat /\ h.at \in Nat
        BY <1>5, <1>9 DEF CallSane
      <4> QED BY <1>8, <4>1, <4>2, <4>3
    <3>2. Downward(c)
      BY <3>1 DEF Downward
    <3> QED BY <1>8, <1>11, <2>6, <3>2 DEF Reading
  <2> QED BY <2>5, <2>6
<1>12. ASSUME ~overflow' PROVE SinceIsDue(c)
  BY <1>1, <1>8, <1>12 DEF Kept, CallKept, SinceIsDue, Matches
<1>13. overflow' \in BOOLEAN /\ (overflow => overflow')
  BY <1>1 DEF WorldTyped
<1>14. c.pc \in {"rows", "created"} => c.got \subseteq c.todo
  BY <1>8
<1>15. ingest' = [ingest EXCEPT ![w] = c]
  BY <1>1 DEF c
<1> HIDE DEF i, S, full, stuck, last, inside, next
<1> QED BY <1>2, <1>8, <1>9, <1>10, <1>11, <1>12, <1>13, <1>14, <1>15, FetchStep

-----------------------------------------------------------------------------
(* Steps on the tables, by the session that may write.                     *)

\* The tables another session sees are the committed ones, which only gain.
LEMMA TableStep ==
  ASSUME LedgerInv, NEW w \in Ingests, Free(w), writer' \in {NoOne, w},
         UNCHANGED <<style, clock, posted, span, overflow>>,
         NEW c \in Calls, CallSane(c), ingest' = [ingest EXCEPT ![w] = c],
         TablesTyped',
         ~overflow =>
           /\ \A e \in posted : Good(committed, e) => Good(committed', e)
           /\ writer' # NoOne => \A e \in posted : Good(committed', e) => Good(work', e)
           /\ \A e \in posted : \A k \in {"*", e.sym} :
                e.at < committed'.cursor[k] => Good(committed', e)
           /\ \A e \in posted : Matches(c, e) /\ e.at < c.since => Good(committed', e)
           /\ Reading(c)
           /\ c.pc \in {"rows", "created"} =>
                \A e \in c.got \ c.todo : Good(IF writer' = w THEN work' ELSE committed', e)
  PROVE  LedgerInv'
<1> USE DEF LedgerInv, LedgerTyped
<1>1. WorldTyped'
  BY DEF WorldTyped
<1>2. ingest'[w] = c /\ \A v \in Ingests \ {w} : ingest'[v] = ingest[v]
  BY DEF CallsTyped
<1>3. CallsTyped'
  BY DEF CallsTyped
<1>4. CallsSane'
  <2>1. CallSane(c)' /\ \A v \in Ingests : CallSane(ingest[v])
    BY DEF CallSane, CallsSane
  <2>2. ASSUME NEW v \in Ingests PROVE CallSane(ingest[v])'
    BY <1>2, <2>1 DEF CallSane
  <2> QED BY <2>2 DEF CallsSane
<1>5. ASSUME ~overflow, NEW v \in Ingests \ {w} PROVE CallKept(v)'
  <2>1. View(v) = committed /\ View(v)' = committed'
    BY FundingLedgerAssumption DEF View, Free, NoOne
  <2>2. CallKept(v) /\ ingest[v].got \subseteq posted
    BY <1>5 DEF Kept, CallsSane, CallSane
  <2>3. /\ \A e \in ingest[v].got : Good(View(v), e) => Good(View(v), e)'
        /\ \A e \in posted : Good(committed, e) => Good(committed, e)'
    BY <1>5, <2>1, <2>2 DEF Good, Holders
  <2> QED BY <1>2, <1>5, <2>2, <2>3, CallStays
<1>6. ASSUME ~overflow PROVE WorkIsAhead' /\ BehindIsDue' /\ CallKept(w)'
  <2>1. WorkIsAhead'
    BY <1>6 DEF WorkIsAhead, Good, Holders
  <2>2. BehindIsDue'
    BY <1>6 DEF BehindIsDue, Behind, Good, Holders
  <2>3. SinceIsDue(ingest[w])'
    BY <1>2, <1>6 DEF SinceIsDue, Matches, Good, Holders
  <2>4. Reading(ingest[w])'
    BY <1>2, <1>6 DEF Reading, Upward, Downward, NoGap, Matches
  <2>5. Writing(w)'
    BY <1>2, <1>6 DEF Writing, View, Good, Holders
  <2> QED BY <2>1, <2>2, <2>3, <2>4, <2>5 DEF CallKept
<1> QED BY <1>1, <1>3, <1>4, <1>5, <1>6 DEF Kept

\* What a session that may write sees: typed, and ahead of what is committed.
LEMMA ViewIsAhead ==
  ASSUME LedgerInv, NEW w \in Ingests, Free(w)
  PROVE  /\ View(w) \in Tables /\ View(w).ledger \subseteq posted
         /\ View(w).cursor = committed.cursor
         /\ ~overflow => \A e \in posted : Good(committed, e) => Good(View(w), e)
BY FundingLedgerAssumption
   DEF LedgerInv, LedgerTyped, TablesTyped, View, Free, NoOne, Kept, WorkIsAhead

LEMMA InsertStep ==
  ASSUME LedgerInv, NEW w \in Ingests, NEW e \in Events, Insert(w, e)
  PROVE  LedgerInv'
<1> USE DEF LedgerInv, LedgerTyped
<1> DEFINE i == ingest[w]
           c == [i EXCEPT !.pc = "created"]
           More(d) == [d EXCEPT !.ledger = @ \union {e}]
<1>1. /\ i \in Calls /\ CallSane(i) /\ i.pc = "rows" /\ e \in i.todo /\ Free(w)
      /\ UNCHANGED <<style, clock, posted, span, writer, overflow>>
      /\ IF writer = w THEN work' = More(work) /\ UNCHANGED committed
                       ELSE committed' = More(committed) /\ UNCHANGED work
  BY DEF Insert, Next1, CallsTyped, CallsSane
<1>2. ingest' = [ingest EXCEPT ![w] = c]
  BY <1>1 DEF Insert, CallsTyped, Calls
<1>3. c \in Calls /\ CallSane(c)
  BY <1>1 DEF Calls, CallSane
<1>4. e \in posted
  BY <1>1 DEF CallSane
<1>5. ASSUME NEW d \in Tables
      PROVE  /\ More(d) \in Tables /\ More(d).cursor = d.cursor
             /\ More(d).ledger = d.ledger \union {e} /\ More(d).shares = d.shares
  BY <1>5 DEF Tables
<1>6. committed \in Tables /\ work \in Tables
  BY DEF TablesTyped
<1> HIDE DEF More
<1>7. TablesTyped'
  BY <1>1, <1>4, <1>5 DEF TablesTyped
<1>8. \A f \in posted : /\ Good(committed, f) => Good(committed', f)
                        /\ Good(work, f) => Good(work', f)
  BY <1>1, <1>5, <1>6 DEF Good
<1>9. ASSUME ~overflow
      PROVE  /\ writer' # NoOne => \A f \in posted : Good(committed', f) => Good(work', f)
             /\ \A f \in posted : \A k \in {"*", f.sym} :
                  f.at < committed'.cursor[k] => Good(committed', f)
  <2>1. Kept
    BY <1>9
  <2>2. committed'.cursor = committed.cursor
    BY <1>1, <1>5, <1>6
  <2>3. writer' # NoOne => UNCHANGED committed
    BY <1>1 DEF Free
  <2> QED BY <1>1, <1>8, <2>1, <2>2, <2>3 DEF Kept, WorkIsAhead, BehindIsDue, Behind, Good
<1>10. ASSUME ~overflow
       PROVE  /\ \A f \in posted : Matches(c, f) /\ f.at < c.since => Good(committed', f)
              /\ Reading(c)
              /\ \A f \in c.got \ c.todo : Good(IF writer' = w THEN work' ELSE committed', f)
  <2>1. CallKept(w)
    BY <1>10 DEF Kept
  <2>2. /\ c.since = i.since /\ c.key = i.key /\ c.got = i.got /\ c.todo = i.todo
        /\ c.pc = "created"
    BY <1>1 DEF Calls
  <2>3. \A f \in c.got \ c.todo : Good(View(w), f) /\ f \in posted
    BY <1>1, <2>1, <2>2 DEF CallKept, Writing, CallSane
  <2> HIDE DEF c
  <2>4. \A f \in posted : Matches(c, f) /\ f.at < c.since => Good(committed', f)
    <3> SUFFICES ASSUME NEW f \in posted, Matches(c, f), f.at < c.since PROVE Good(committed', f)
      OBVIOUS
    <3>1. Matches(i, f) /\ f.at < i.since
      BY <2>2 DEF Matches
    <3>2. Good(committed, f)
      BY <2>1, <3>1 DEF CallKept, SinceIsDue
    <3> QED BY <1>8, <3>2
  <2>5. Reading(c)
    BY <1>1, <2>1, <2>2 DEF CallKept, Reading, NoGap, Matches
  <2>6. \A f \in c.got \ c.todo : Good(IF writer' = w THEN work' ELSE committed', f)
    BY <1>1, <1>8, <2>3 DEF View, Good
  <2> QED BY <2>4, <2>5, <2>6
<1>11. writer' \in {NoOne, w}
  BY <1>1 DEF Free
<1> HIDE DEF c, i
<1> QED BY <1>1, <1>2, <1>3, <1>7, <1>8, <1>9, <1>10, <1>11, TableStep DEF Good

LEMMA AssignStep ==
  ASSUME LedgerInv, NEW w \in Ingests, NEW e \in Events, Assign(w, e)
  PROVE  LedgerInv'
<1> USE DEF LedgerInv, LedgerTyped
<1> DEFINE i == ingest[w]
           c == [i EXCEPT !.todo = @ \ {e}, !.pc = "rows"]
           d == View(w)
<1>1. /\ i \in Calls /\ CallSane(i) /\ i.pc \in {"rows", "created"} /\ e \in i.todo /\ Free(w)
      /\ UNCHANGED <<style, clock, posted, span, committed, overflow>>
      /\ writer' = w /\ work' = Assigned(w, d, e) /\ e \in d.ledger
  BY DEF Assign, Next1, CallsTyped, CallsSane
<1>2. ingest' = [ingest EXCEPT ![w] = c]
  BY <1>1 DEF Assign, CallsTyped, Calls
<1>3. c \in Calls /\ CallSane(c)
  BY <1>1 DEF Calls, CallSane
<1>4. /\ d \in Tables /\ d.ledger \subseteq posted /\ d.cursor = committed.cursor
      /\ ~overflow => \A f \in posted : Good(committed, f) => Good(d, f)
  BY <1>1, ViewIsAhead
<1>5. /\ work' \in Tables /\ work'.cursor = committed.cursor /\ work'.ledger = d.ledger
      /\ work'.shares[e] = Holders(e)
      /\ \A f \in Events \ {e} : work'.shares[f] = d.shares[f]
  <2>1. Holders(e) \subseteq Strats
    BY DEF Holders
  <2> HIDE DEF d
  <2> QED BY <1>1, <1>4, <2>1 DEF Tables, Assigned
<1>6. TablesTyped'
  BY <1>1, <1>4, <1>5 DEF TablesTyped
<1>7. \A f \in Events : Good(d, f) \/ f = e => Good(work', f)
  BY <1>1, <1>5 DEF Good
<1>8. ASSUME ~overflow
      PROVE  /\ \A f \in posted : Good(committed', f) => Good(work', f)
             /\ \A f \in posted : \A k \in {"*", f.sym} :
                  f.at < committed'.cursor[k] => Good(committed', f)
  BY <1>1, <1>4, <1>7, <1>8 DEF Kept, BehindIsDue, Behind, WorldTyped
<1>9. ASSUME ~overflow
      PROVE  /\ \A f \in posted : Matches(c, f) /\ f.at < c.since => Good(committed', f)
             /\ Reading(c)
             /\ \A f \in c.got \ c.todo : Good(IF writer' = w THEN work' ELSE committed', f)
  <2>1. CallKept(w)
    BY <1>9 DEF Kept
  <2>2. /\ c.since = i.since /\ c.key = i.key /\ c.got = i.got /\ c.todo = i.todo \ {e}
        /\ c.pc = "rows"
    BY <1>1 DEF Calls
  <2>3. \A f \in c.got \ c.todo : (Good(d, f) \/ f = e) /\ f \in Events
    BY <1>1, <2>1, <2>2 DEF CallKept, Writing, Calls
  <2> HIDE DEF c
  <2>4. \A f \in posted : Matches(c, f) /\ f.at < c.since => Good(committed', f)
    BY <1>1, <2>1, <2>2 DEF CallKept, SinceIsDue, Matches
  <2>5. Reading(c)
    BY <1>1, <2>1, <2>2 DEF CallKept, Reading, NoGap, Matches
  <2>6. \A f \in c.got \ c.todo : Good(IF writer' = w THEN work' ELSE committed', f)
    BY <1>1, <1>7, <2>3
  <2> QED BY <2>4, <2>5, <2>6
<1>10. \A f \in posted : Good(committed, f) => Good(committed', f)
  BY <1>1
<1> HIDE DEF c, i, d
<1> QED BY <1>1, <1>2, <1>3, <1>6, <1>8, <1>9, <1>10, TableStep

\* A commit ends the call: what counts is that the tables keep what was due, and have what
\* lies behind their cursors.
LEMMA CommitStep ==
  ASSUME LedgerInv, NEW w \in Ingests, Free(w), NEW d \in Tables, Commit(w, d),
         UNCHANGED <<style, clock, posted, span, overflow>>,
         d.ledger \subseteq posted, \A k \in Keys2 : d.cursor[k] <= clock + 1,
         ~overflow =>
           /\ \A e \in posted : Good(committed, e) => Good(d, e)
           /\ \A e \in posted : \A k \in {"*", e.sym} : e.at < d.cursor[k] => Good(d, e)
  PROVE  LedgerInv'
<1> USE DEF LedgerInv, LedgerTyped
<1>1. /\ committed' = d /\ writer' = NoOne /\ work' = Empty
      /\ ingest' = [ingest EXCEPT ![w] = AtRest]
  BY DEF Commit
<1>2. TablesTyped'
  <2>1. Empty.ledger = {}
    BY DEF Empty
  <2> QED BY <1>1, <2>1, EmptyTyped DEF TablesTyped
<1>3. /\ AtRest \in Calls /\ CallSane(AtRest) /\ Reading(AtRest) /\ AtRest.pc = "idle"
      /\ \A e \in posted : ~(e.at < AtRest.since)
  <2>1. \A e \in posted : ~(e.at < 0)
    BY EventsTyped DEF WorldTyped
  <2> QED BY <2>1, RestIsSane DEF AtRest
<1> QED BY <1>1, <1>2, <1>3, TableStep

LEMMA AdvanceStep ==
  ASSUME LedgerInv, NEW w \in Ingests, Advance(w)
  PROVE  LedgerInv'
<1> USE DEF LedgerInv, LedgerTyped
<1> DEFINE i == ingest[w]
           n == IF i.got = {} THEN i.since ELSE Max({i.since, Newest(i.got)}) + 1
           d == [View(w) EXCEPT !.cursor[i.key] = n]
<1>1. /\ i \in Calls /\ CallSane(i) /\ i.pc = "rows" /\ i.todo = {} /\ Free(w) /\ Commit(w, d)
      /\ UNCHANGED <<style, clock, posted, span, overflow>>
  BY DEF Advance, CallsTyped, CallsSane
<1>2. /\ View(w) \in Tables /\ View(w).ledger \subseteq posted
      /\ View(w).cursor = committed.cursor
      /\ ~overflow => \A f \in posted : Good(committed, f) => Good(View(w), f)
  BY <1>1, ViewIsAhead
<1>3. clock \in Nat /\ \A e \in posted : e.at \in Nat /\ e.at <= clock
  BY EventsTyped, FundingLedgerAssumption DEF WorldTyped
<1>4. i.got # {} => /\ \A g \in i.got : g.at <= Newest(i.got)
                    /\ \E g \in i.got : g.at = Newest(i.got)
                    /\ Newest(i.got) \in Nat
  BY <1>1, NewestOf DEF Calls
<1>5. i.got # {} => n = Newest(i.got) + 1 /\ i.since <= Newest(i.got)
  <2>1. i.got # {} => i.since <= Newest(i.got)
    BY <1>1, <1>3, <1>4 DEF CallSane, Calls
  <2>2. ASSUME i.got # {} PROVE Max({i.since, Newest(i.got)}) = Newest(i.got)
    BY <1>1, <1>4, <2>1, <2>2 DEF Max, Calls
  <2> QED BY <2>1, <2>2
<1>6. n \in Nat /\ n <= clock + 1
  BY <1>1, <1>3, <1>4, <1>5 DEF CallSane, Calls
<1> HIDE DEF n
<1>7. /\ d \in Tables /\ d.ledger = View(w).ledger /\ d.shares = View(w).shares
      /\ d.cursor[i.key] = n
      /\ \A k \in Keys2 \ {i.key} : d.cursor[k] = committed.cursor[k]
  BY <1>1, <1>2, <1>6 DEF Tables, Calls
<1> HIDE DEF d
<1>8. \A k \in Keys2 : d.cursor[k] <= clock + 1
  BY <1>6, <1>7 DEF TablesTyped
<1>9. \A f \in posted : Good(View(w), f) => Good(d, f)
  BY <1>7 DEF Good
<1>10. ASSUME ~overflow, NEW e \in posted, NEW k \in {"*", e.sym}, e.at < d.cursor[k]
       PROVE  Good(View(w), e)
  <2>1. Kept /\ k \in Keys2
    BY <1>10, EventsTyped DEF Keys2, WorldTyped
  <2>2. CASE k # i.key
    BY <1>2, <1>7, <1>10, <2>1, <2>2 DEF Kept, BehindIsDue, Behind
  <2>3. CASE k = i.key
    <3>1. Matches(i, e) /\ e.at < n
      BY <1>7, <1>10, <2>3 DEF Matches
    <3>2. CASE e.at < i.since
      BY <1>2, <1>10, <2>1, <3>1, <3>2 DEF Kept, CallKept, SinceIsDue
    <3>3. CASE i.since <= e.at
      <4>1. i.got # {}
        BY <1>1, <1>3, <3>1, <3>3 DEF n, Calls
      <4>2. \E g \in i.got : e.at <= g.at
        BY <1>3, <1>4, <1>5, <3>1, <4>1
      <4>3. e \in i.got
        BY <1>1, <2>1, <3>1, <3>3, <4>2 DEF Kept, CallKept, Reading, NoGap
      <4> QED BY <1>1, <2>1, <4>3 DEF Kept, CallKept, Writing
    <3>4. e.at \in Nat /\ i.since \in Nat
      BY <1>1, <1>3 DEF Calls
    <3> QED BY <3>2, <3>3, <3>4
  <2> QED BY <2>2, <2>3
<1>11. ~overflow => /\ \A e \in posted : Good(committed, e) => Good(d, e)
                    /\ \A e \in posted : \A k \in {"*", e.sym} : e.at < d.cursor[k] => Good(d, e)
  BY <1>2, <1>9, <1>10
<1> HIDE DEF i
<1> QED BY <1>1, <1>2, <1>7, <1>8, <1>11, CommitStep

LEMMA RowFailsStep ==
  ASSUME LedgerInv, NEW w \in Ingests, RowFails(w)
  PROVE  LedgerInv'
<1> USE DEF LedgerInv, LedgerTyped
<1> DEFINE i == ingest[w]
           d == [committed EXCEPT !.cursor[i.key] = i.since]
<1>1. /\ i \in Calls /\ CallSane(i) /\ Free(w) /\ Commit(w, d)
      /\ UNCHANGED <<style, clock, posted, span, overflow>>
  BY DEF RowFails, CursorAfterError, CallsTyped, CallsSane
<1>2. /\ d \in Tables /\ d.ledger = committed.ledger /\ d.shares = committed.shares
      /\ d.cursor[i.key] = i.since
      /\ \A k \in Keys2 \ {i.key} : d.cursor[k] = committed.cursor[k]
  BY <1>1 DEF Tables, TablesTyped, Calls
<1> HIDE DEF d
<1>3. d.ledger \subseteq posted /\ \A k \in Keys2 : d.cursor[k] <= clock + 1
  BY <1>1, <1>2 DEF TablesTyped, CallSane
<1>4. \A f \in posted : Good(committed, f) => Good(d, f)
  BY <1>2 DEF Good
<1>5. ASSUME ~overflow, NEW e \in posted, NEW k \in {"*", e.sym}, e.at < d.cursor[k]
      PROVE  Good(d, e)
  <2>1. Kept /\ k \in Keys2
    BY <1>5, EventsTyped DEF Keys2, WorldTyped
  <2>2. CASE k # i.key
    BY <1>2, <1>4, <1>5, <2>1, <2>2 DEF Kept, BehindIsDue, Behind
  <2>3. CASE k = i.key
    BY <1>2, <1>4, <1>5, <2>1, <2>3 DEF Kept, CallKept, SinceIsDue, Matches
  <2> QED BY <2>2, <2>3
<1>6. ~overflow => /\ \A e \in posted : Good(committed, e) => Good(d, e)
                   /\ \A e \in posted : \A k \in {"*", e.sym} : e.at < d.cursor[k] => Good(d, e)
  BY <1>4, <1>5
<1> HIDE DEF i
<1> QED BY <1>1, <1>2, <1>3, <1>6, CommitStep

LEMMA CrashStep == ASSUME LedgerInv, Crash PROVE LedgerInv'
<1> USE DEF LedgerInv, LedgerTyped
<1>1. /\ ingest' = [w \in Ingests |-> AtRest] /\ writer' = NoOne /\ work' = Empty
      /\ UNCHANGED <<style, clock, posted, span, committed, overflow>>
  BY DEF Crash
<1>2. WorldTyped'
  BY <1>1 DEF WorldTyped
<1>3. TablesTyped'
  <2>1. Empty.ledger = {}
    BY DEF Empty
  <2> QED BY <1>1, <2>1, EmptyTyped DEF TablesTyped
<1>4. /\ AtRest \in Calls /\ CallSane(AtRest)' /\ SinceIsDue(AtRest)' /\ Reading(AtRest)'
      /\ AtRest.pc = "idle"
  BY <1>1, <1>2, RestIsSane
     DEF CallSane, SinceIsDue, Reading, Upward, Downward, NoGap, Matches, Good, Holders, AtRest, WorldTyped
<1>5. CallsTyped' /\ CallsSane'
  BY <1>1, <1>4 DEF CallsTyped, CallsSane, CallSane
<1>6. ASSUME ~overflow PROVE Kept'
  <2>1. WorkIsAhead'
    BY <1>1 DEF WorkIsAhead
  <2>2. BehindIsDue'
    BY <1>1, <1>6 DEF Kept, BehindIsDue, Behind, Good, Holders
  <2>3. ASSUME NEW w \in Ingests PROVE CallKept(w)'
    <3>1. ingest'[w] = AtRest
      BY <1>1
    <3> QED BY <1>4, <3>1
            DEF CallKept, SinceIsDue, Reading, Writing, Upward, Downward, NoGap
  <2> QED BY <2>1, <2>2, <2>3 DEF Kept
<1> QED BY <1>1, <1>2, <1>3, <1>5, <1>6

-----------------------------------------------------------------------------
(* The theorems *)

LEMMA LedgerStep == ASSUME LedgerInv, [LedgerNext]_ledgerVars PROVE LedgerInv'
<1>1. CASE Settlement
  BY <1>1, SettlementStep
<1>2. CASE Crash
  BY <1>2, CrashStep
<1>3. CASE \E s \in Strats : OpenPosition(s) \/ ClosePosition(s)
  BY <1>3, PositionStep
<1>4. ASSUME NEW w \in Ingests,
             \/ \E k \in Asked(w) : Begin(w, k)
             \/ FetchPage(w) \/ FetchCut(w) \/ FetchFails(w) \/ Advance(w) \/ RowFails(w)
             \/ \E e \in Events : Insert(w, e) \/ Assign(w, e)
      PROVE  LedgerInv'
  <2>1. Asked(w) \subseteq Keys2
    BY DEF Asked, Keys2
  <2> QED BY <1>4, <2>1, BeginStep, FetchPageStep, FetchCutStep, FetchFailsStep, AdvanceStep,
             RowFailsStep, InsertStep, AssignStep
<1>5. CASE UNCHANGED ledgerVars
  BY <1>5, WorldStep DEF ledgerVars, LedgerInv, LedgerTyped, WorldTyped, Holders
<1> QED BY <1>1, <1>2, <1>3, <1>4, <1>5 DEF LedgerNext

LEMMA LedgerInvariant == LedgerSpec => []LedgerInv
<1>1. LedgerInit => LedgerInv
  BY LedgerInitInv
<1>2. LedgerInv /\ [LedgerNext]_ledgerVars => LedgerInv'
  BY LedgerStep
<1> QED BY <1>1, <1>2, PTL DEF LedgerSpec

\* For any markets, strategies, sessions and page size: as long as fetches read all pages and
\* no page ends inside an instant, an event behind a cursor is in funding_ledger, whatever
\* fails, overlaps or crashes (funding_ledger/ingest.py: ingest_exchange_funding_events).
THEOREM LedgerSkipsNothing == LedgerSpec => []NothingIsSkipped
<1>1. LedgerInv => NothingIsSkipped
  BY DEF LedgerInv, Kept, BehindIsDue, Good, NothingIsSkipped
<1> QED BY <1>1, LedgerInvariant, PTL

\* And every strategy that held its market at the event's time has its share of it in
\* funding_assignment (assign.py: assign_funding_event).
THEOREM LedgerSharesWithHolders == LedgerSpec => []HoldersGetTheirShare
<1>1. LedgerInv => HoldersGetTheirShare
  BY DEF LedgerInv, LedgerTyped, TablesTyped, Kept, BehindIsDue, Good, HoldersGetTheirShare
<1> QED BY <1>1, LedgerInvariant, PTL

-----------------------------------------------------------------------------
(* The reports.  A report counts shares against the calendar.  That its    *)
(* "ok" hides nothing rests on two facts: no row has a share of an event   *)
(* it did not hold, so that no share can stand in for a missing one; and a *)
(* row cannot hold more events than the calendar has.                      *)

SharesRight(d) ==
  \A e \in Events : d.shares[e] = {} \/ (e \in posted /\ d.shares[e] = Holders(e))
ReportInv == LedgerInv /\ SharesRight(committed) /\ SharesRight(work)

LEMMA HoldersStay ==
  ASSUME LedgerInv, [LedgerNext]_ledgerVars
  PROVE  posted \subseteq posted' /\ \A e \in posted : Holders(e)' = Holders(e)
<1>1. CASE Settlement
  BY <1>1 DEF Settlement, Holders
<1>2. CASE Crash
  BY <1>2 DEF Crash, Holders
<1>3. ASSUME NEW s \in Strats, OpenPosition(s) \/ ClosePosition(s)
      PROVE  posted \subseteq posted' /\ \A e \in posted : Holders(e)' = Holders(e)
  BY <1>3, PositionHolds DEF OpenPosition, ClosePosition
<1>4. ASSUME NEW w \in Ingests,
             \/ \E k \in Asked(w) : Begin(w, k)
             \/ FetchPage(w) \/ FetchCut(w) \/ FetchFails(w) \/ Advance(w) \/ RowFails(w)
             \/ \E e \in Events : Insert(w, e) \/ Assign(w, e)
      PROVE  posted' = posted /\ span' = span
  BY <1>4 DEF Begin, FetchPage, FetchCut, FetchFails, Advance, RowFails, Insert, Assign
<1>5. CASE UNCHANGED ledgerVars
  BY <1>5 DEF ledgerVars, Holders
<1>6. CASE posted' = posted /\ span' = span
  BY <1>6 DEF Holders
<1> QED BY <1>1, <1>2, <1>3, <1>4, <1>5, <1>6 DEF LedgerNext

LEMMA SharesStay ==
  ASSUME NEW d, SharesRight(d), NEW q, q.shares = d.shares,
         posted \subseteq posted', \A e \in posted : Holders(e)' = Holders(e)
  PROVE  \A e \in Events :
           q.shares[e] = {} \/ (e \in posted' /\ q.shares[e] = Holders(e)')
BY DEF SharesRight

LEMMA EmptyShares == \A e \in Events : Empty.shares[e] = {}
BY DEF Empty

LEMMA AssignShares ==
  ASSUME ReportInv, NEW w \in Ingests, NEW e \in Events, Assign(w, e),
         posted \subseteq posted', \A x \in posted : Holders(x)' = Holders(x)
  PROVE  SharesRight(committed)' /\ SharesRight(work)'
<1>1. /\ View(w) \in Tables /\ View(w).ledger \subseteq posted /\ SharesRight(View(w))
  BY ViewIsAhead DEF ReportInv, View, Assign
<1>2. /\ committed' = committed /\ posted' = posted /\ e \in View(w).ledger
      /\ work' = Assigned(w, View(w), e)
  BY DEF Assign
<1>3. work'.shares = [View(w).shares EXCEPT ![e] = Holders(e)]
  BY <1>1, <1>2 DEF Assigned, Tables
<1>4. View(w).shares \in [Events -> SUBSET Strats]
  BY <1>1 DEF Tables
<1>5. work'.shares[e] = Holders(e) /\ \A x \in Events \ {e} : work'.shares[x] = View(w).shares[x]
  BY <1>3, <1>4
<1>6. SharesRight(work)'
  BY <1>1, <1>2, <1>5 DEF SharesRight
<1>7. SharesRight(committed)'
  BY <1>2 DEF ReportInv, SharesRight
<1> QED BY <1>6, <1>7

LEMMA SharesStep ==
  ASSUME ReportInv, [LedgerNext]_ledgerVars
  PROVE  SharesRight(committed)' /\ SharesRight(work)'
<1>1. posted \subseteq posted' /\ \A e \in posted : Holders(e)' = Holders(e)
  BY HoldersStay DEF ReportInv
<1>2. CASE UNCHANGED <<committed, work>>
  BY <1>1, <1>2 DEF SharesRight, ReportInv
<1>3. ASSUME NEW d \in {committed, work}, committed'.shares = d.shares, work' = Empty
      PROVE  SharesRight(committed)' /\ SharesRight(work)'
  <2>1. SharesRight(committed)'
    BY <1>1, <1>3, SharesStay DEF SharesRight, ReportInv
  <2> QED BY <1>3, <2>1, EmptyShares DEF SharesRight
<1>4. CASE Settlement \/ \E s \in Strats : OpenPosition(s) \/ ClosePosition(s)
  BY <1>2, <1>4 DEF Settlement, OpenPosition, ClosePosition
<1>5. CASE Crash
  BY <1>3, <1>5 DEF Crash
<1>6. ASSUME NEW w \in Ingests,
             \/ \E k \in Asked(w) : Begin(w, k)
             \/ FetchPage(w) \/ FetchCut(w) \/ FetchFails(w)
      PROVE  UNCHANGED <<committed, work>>
  BY <1>6 DEF Begin, FetchPage, FetchCut, FetchFails
<1>7. ASSUME NEW w \in Ingests, Advance(w) \/ RowFails(w)
      PROVE  SharesRight(committed)' /\ SharesRight(work)'
  <2>1. committed \in Tables /\ work \in Tables
    BY DEF ReportInv, LedgerInv, LedgerTyped, TablesTyped
  <2>2. \E d \in {committed, work} : committed'.shares = d.shares
    BY <1>7, <2>1 DEF Advance, RowFails, Commit, View, Tables
  <2>3. work' = Empty
    BY <1>7 DEF Advance, RowFails, Commit
  <2> QED BY <1>3, <2>2, <2>3
<1>8. ASSUME NEW w \in Ingests, NEW e \in Events, Insert(w, e)
      PROVE  SharesRight(committed)' /\ SharesRight(work)'
  <2>1. committed \in Tables /\ work \in Tables
    BY DEF ReportInv, LedgerInv, LedgerTyped, TablesTyped
  <2>2. committed'.shares = committed.shares /\ work'.shares = work.shares
    BY <1>8, <2>1 DEF Insert, Tables
  <2> QED BY <1>1, <2>2 DEF SharesRight, ReportInv
<1>9. CASE UNCHANGED ledgerVars
  BY <1>2, <1>9 DEF ledgerVars
<1> QED BY <1>1, <1>2, <1>4, <1>5, <1>6, <1>7, <1>8, <1>9, AssignShares DEF LedgerNext

LEMMA ReportInvariant == LedgerSpec => []ReportInv
<1>1. LedgerInit => ReportInv
  BY LedgerInitInv, EmptyShares DEF LedgerInit, ReportInv, SharesRight
<1>2. ReportInv /\ [LedgerNext]_ledgerVars => ReportInv'
  BY LedgerStep, SharesStep DEF ReportInv
<1> QED BY <1>1, <1>2, PTL DEF LedgerSpec

-----------------------------------------------------------------------------
(* The calendar: how many multiples of n there are from a to b             *)

LEMMA LaterMultiple ==
  ASSUME NEW n \in Nat \ {0}, NEW x \in Int, NEW y \in Int, x < y
  PROVE  n * x + n <= n * y
<1>1. PICK d \in Nat : y = x + 1 + d
  BY y - x - 1 \in Nat
<1>2. n * y = n * x + n + n * d
  BY <1>1
<1>3. n * d >= 0
  BY <1>1
<1> QED BY <1>2, <1>3

LEMMA Division ==
  ASSUME NEW n \in Nat \ {0}, NEW x \in Int
  PROVE  /\ x \div n \in Int
         /\ n * (x \div n) <= x /\ x < n * (x \div n) + n
OBVIOUS

LEMMA ExactDivision ==
  ASSUME NEW n \in Nat \ {0}, NEW k \in Int
  PROVE  (n * k) \div n = k
<1>1. n * k \in Int
  OBVIOUS
<1> DEFINE q == (n * k) \div n
<1>2. q \in Int /\ n * q <= n * k /\ n * k < n * q + n
  BY <1>1, Division
<1> HIDE DEF q
<1>3. ~(q < k) /\ ~(k < q)
  BY <1>2, LaterMultiple
<1> QED BY <1>2, <1>3 DEF q

LEMMA MultipleOf ==
  ASSUME NEW n \in Nat \ {0}, NEW x \in Nat, x % n = 0
  PROVE  \E q \in Nat : x = n * q
<1>1. x = n * (x \div n) + (x % n)
  OBVIOUS
<1>2. x \div n \in Nat
  OBVIOUS
<1> QED BY <1>1, <1>2

LEMMA FirstNumbers ==
  ASSUME NEW k \in Nat
  PROVE  IsFiniteSet(1 .. k) /\ Cardinality(1 .. k) = k
BY FS_Interval

LEMMA ImageIsFinite ==
  ASSUME NEW S, IsFiniteSet(S), NEW f, DOMAIN f = S, f = [x \in S |-> f[x]]
  PROVE  IsFiniteSet({f[x] : x \in S})
<1> DEFINE T == {f[x] : x \in S}
<1>1. f \in [S -> T]
  OBVIOUS
<1>2. \A t \in T : \E x \in S : f[x] = t
  OBVIOUS
<1> HIDE DEF T
<1>3. f \in Surjection(S, T)
  BY <1>1, <1>2 DEF Surjection
<1> QED BY <1>3, FS_Surjection DEF T

LEMMA FirstDueIs ==
  ASSUME NEW n \in Nat \ {0}, NEW a \in Nat
  PROVE  \E c \in Int : /\ FirstDue(a, n) = n * c /\ a <= n * c
                        /\ \A q \in Int : a <= n * q => n * c <= n * q
<1> DEFINE c == (a + n - 1) \div n
<1>1. c \in Int /\ a + n - 1 < n * c + n /\ n * c <= a + n - 1
  BY Division
<1>2. FirstDue(a, n) = n * c
  BY DEF FirstDue
<1> HIDE DEF c
<1>3. n * c \in Int
  BY <1>1
<1>4. a <= n * c
  BY <1>1, <1>3
<1>5. ASSUME NEW q \in Int, a <= n * q
      PROVE  n * c <= n * q
  <2>1. n * q \in Int
    OBVIOUS
  <2>2. ~(q < c)
    BY <1>1, <1>3, <1>5, <2>1, LaterMultiple
  <2>3. CASE q = c
    BY <1>3, <2>3
  <2>4. CASE c < q
    BY <1>1, <1>3, <2>1, <2>4, LaterMultiple
  <2> QED BY <1>1, <2>2, <2>3, <2>4
<1> QED BY <1>1, <1>2, <1>4, <1>5

\* Events of one market at multiples of n are no more than the calendar has.
LEMMA CalendarCounts ==
  ASSUME NEW n \in Nat \ {0}, NEW a \in Nat, NEW b \in Nat, NEW x, NEW H \in SUBSET Events,
         \A e \in H : e.sym = x /\ e.at % n = 0 /\ a <= e.at /\ e.at <= b
  PROVE  /\ IsFiniteSet(H) /\ CountDue(a, b, n) \in Nat
         /\ Cardinality(H) \in Nat /\ Cardinality(H) <= CountDue(a, b, n)
<1>1. IsFiniteSet(H) /\ Cardinality(H) \in Nat
  BY EventsFinite, FS_Subset, FS_CardinalityType
<1>2. PICK c \in Int : /\ FirstDue(a, n) = n * c /\ a <= n * c
                       /\ \A q \in Int : a <= n * q => n * c <= n * q
  BY FirstDueIs
<1> DEFINE F == FirstDue(a, n)
<1>3. F \in Nat
  BY <1>2
<1>4. \A e \in H : e.at \in Nat /\ \E q \in Nat : e.at = n * q
  BY MultipleOf, EventsTyped
<1>5. ASSUME NEW e \in H PROVE F <= e.at
  <2>1. PICK q \in Nat : e.at = n * q
    BY <1>4
  <2>2. a <= n * q
    BY <2>1
  <2> QED BY <1>2, <2>1, <2>2
<1>6. CASE b < F
  <2> HIDE DEF F
  <2>1. \A e \in H : e.at \in Nat /\ F <= e.at /\ e.at <= b
    BY <1>4, <1>5
  <2>2. H = {}
    BY <1>3, <1>6, <2>1
  <2> QED BY <1>1, <1>6, <2>2, FS_EmptySet DEF CountDue, F
<1>7. CASE ~(b < F)
  <2> DEFINE k == (b - F) \div n
             f == [e \in H |-> ((e.at - F) \div n) + 1]
  <2>1. k \in Int /\ b - F < n * k + n /\ 0 <= b - F
    BY <1>3, <1>7, Division
  <2>2. k >= 0
    <3>1. CASE k < 0
      <4>1. n * k + n <= n * 0
        BY <2>1, <3>1, LaterMultiple
      <4>2. n * k \in Int
        BY <2>1
      <4> QED BY <1>3, <2>1, <4>1, <4>2
    <3> QED BY <2>1, <3>1
  <2>3. CountDue(a, b, n) = k + 1
    BY <1>7 DEF CountDue
  <2> HIDE DEF k
  <2>4. ASSUME NEW e \in H
        PROVE  /\ f[e] \in 1 .. k + 1
               /\ e.at = F + n * (f[e] - 1)
    <3>1. PICK q \in Nat : e.at = n * q
      BY <1>4
    <3>2. e.at - F = n * (q - c)
      BY <1>2, <3>1
    <3>3. (e.at - F) \div n = q - c
      BY <1>2, <3>1, <3>2, ExactDivision
    <3>4. q - c \in Int /\ n * (q - c) \in Int
      BY <1>2, <3>1
    <3>5. ~(q - c < 0)
      <4>1. q - c < 0 => n * (q - c) + n <= n * 0
        BY <3>4, LaterMultiple
      <4> QED BY <1>3, <1>4, <1>5, <3>2, <3>4, <4>1
    <3>6. ~(k < q - c)
      <4>1. k < q - c => n * k + n <= n * (q - c)
        BY <2>1, <3>4, LaterMultiple
      <4>2. e.at - F <= b - F /\ n * k \in Int
        BY <1>3, <1>4, <2>1
      <4> QED BY <1>3, <2>1, <3>2, <3>4, <4>1, <4>2
    <3>7. f[e] = q - c + 1
      BY <3>3
    <3>8. f[e] \in 1 .. k + 1
      BY <2>1, <3>4, <3>5, <3>6, <3>7
    <3>9. f[e] - 1 = q - c
      BY <3>4, <3>7
    <3>10. e.at = F + n * (f[e] - 1)
      BY <1>3, <1>4, <3>2, <3>4, <3>9
    <3> QED BY <3>8, <3>10
  <2>5. f \in Injection(H, 1 .. k + 1)
    <3>1. f \in [H -> 1 .. k + 1]
      BY <2>4
    <3>2. ASSUME NEW d \in H, NEW e \in H, f[d] = f[e]
          PROVE  d = e
      <4>1. d.at = e.at /\ d.sym = e.sym
        BY <2>4, <3>2
      <4> QED BY <4>1 DEF Events
    <3> HIDE DEF f
    <3>3. DOMAIN f = H
      BY <3>1
    <3> QED BY <3>1, <3>2, <3>3 DEF Injection, IsInjective
  <2>6. IsFiniteSet(1 .. k + 1) /\ Cardinality(1 .. k + 1) = k + 1
    <3>1. k + 1 \in Nat
      BY <2>1, <2>2
    <3> QED BY <3>1, FirstNumbers
  <2>7. Cardinality(H) <= k + 1
    BY <2>5, <2>6, FS_Injection
  <2> QED BY <1>1, <2>1, <2>2, <2>3, <2>7
<1> QED BY <1>3, <1>6, <1>7

-----------------------------------------------------------------------------
(* Rows                                                                    *)

Spans == [start : Nat, end : Nat]

LEMMA HeldByCalendar ==
  ASSUME LedgerInv, NEW n \in Nat \ {0}, OnCalendar(n), NEW s \in Strats, NEW w \in Spans
  PROVE  /\ IsFiniteSet(HeldIn(s, w)) /\ Due(s, w, n) \in Nat
         /\ Cardinality(HeldIn(s, w)) \in Nat /\ Cardinality(HeldIn(s, w)) <= Due(s, w, n)
<1> DEFINE a == Later(w.start, span[s].from)
           b == Until(s, w)
<1>1. /\ posted \subseteq Events /\ span[s].from \in Nat /\ span[s].to \in Nat
      /\ w.start \in Nat /\ w.end \in Nat
  BY DEF LedgerInv, LedgerTyped, WorldTyped, Held, Spans
<1>2. a \in Nat /\ b \in Nat
  BY <1>1 DEF Later, Until
<1>3. HeldIn(s, w) \in SUBSET Events
  BY <1>1 DEF HeldIn
<1>4. ASSUME NEW e \in HeldIn(s, w)
      PROVE  e.sym = span[s].sym /\ e.at % n = 0 /\ a <= e.at /\ e.at <= b
  <2>1. e \in posted /\ e.at \in Nat
    BY <1>1, EventsTyped DEF HeldIn
  <2> QED BY <1>1, <1>4, <2>1 DEF HeldIn, Holders, OnCalendar, Later, Until
<1>5. /\ IsFiniteSet(HeldIn(s, w)) /\ CountDue(a, b, n) \in Nat
      /\ Cardinality(HeldIn(s, w)) \in Nat /\ Cardinality(HeldIn(s, w)) <= CountDue(a, b, n)
  BY <1>2, <1>3, <1>4, CalendarCounts
<1>6. CASE b < a
  <2>1. HeldIn(s, w) = {}
    BY <1>2, <1>3, <1>4, <1>6, EventsTyped
  <2> QED BY <1>5, <1>6, <2>1, FS_EmptySet DEF Due
<1>7. CASE ~(b < a)
  BY <1>5, <1>7 DEF Due
<1> QED BY <1>2, <1>6, <1>7

LEMMA CapturedIsHeld ==
  ASSUME ReportInv, NEW s \in Strats, NEW w \in Spans
  PROVE  CapturedBy(s, w) \subseteq HeldIn(s, w)
BY DEF ReportInv, SharesRight, LedgerInv, LedgerTyped, TablesTyped, Tables, CapturedBy, HeldIn

\* A row that has captured as much as was due has all its strategy held.
LEMMA FullRowIsWhole ==
  ASSUME ReportInv, NEW n \in Nat \ {0}, OnCalendar(n), NEW s \in Strats, NEW w \in Spans
  PROVE  /\ Due(s, w, n) \in Nat /\ Cardinality(CapturedBy(s, w)) \in Nat
         /\ Cardinality(CapturedBy(s, w)) <= Due(s, w, n)
         /\ Cardinality(CapturedBy(s, w)) >= Due(s, w, n) => HeldIn(s, w) \subseteq CapturedBy(s, w)
<1>1. CapturedBy(s, w) \in SUBSET HeldIn(s, w)
  BY CapturedIsHeld
<1>2. /\ IsFiniteSet(HeldIn(s, w)) /\ Due(s, w, n) \in Nat
      /\ Cardinality(HeldIn(s, w)) \in Nat /\ Cardinality(HeldIn(s, w)) <= Due(s, w, n)
  BY HeldByCalendar DEF ReportInv
<1>3. /\ IsFiniteSet(CapturedBy(s, w)) /\ Cardinality(CapturedBy(s, w)) <= Cardinality(HeldIn(s, w))
      /\ Cardinality(HeldIn(s, w)) = Cardinality(CapturedBy(s, w)) => HeldIn(s, w) = CapturedBy(s, w)
  BY <1>1, <1>2, FS_Subset
<1>4. Cardinality(CapturedBy(s, w)) \in Nat
  BY <1>3, FS_CardinalityType
<1> QED BY <1>2, <1>3, <1>4

Qualities == {"ok", "na", "partial", "stale", "missing"}

LEMMA QualityOf ==
  ASSUME NEW due \in Nat, NEW got \in Nat
  PROVE  /\ Quality(due, got, FALSE) \in Qualities
         /\ Quality(due, got, FALSE) \in {"ok", "na"} => got >= due
BY DEF Quality, Qualities

LEMMA LargestRank ==
  ASSUME NEW T \in SUBSET (0 .. 3), T # {}
  PROVE  \E x \in T : \A y \in T : x >= y
<1>1. \A y \in T : y \in Nat /\ y <= 3
  OBVIOUS
<1>2. CASE 3 \in T
  BY <1>1, <1>2
<1>3. CASE 3 \notin T /\ 2 \in T
  BY <1>1, <1>3
<1>4. CASE 3 \notin T /\ 2 \notin T /\ 1 \in T
  BY <1>1, <1>4
<1>5. CASE 3 \notin T /\ 2 \notin T /\ 1 \notin T
  <2>1. \A y \in T : y = 0
    BY <1>1, <1>5
  <2>2. 0 \in T
    BY <2>1
  <2>3. \A y \in T : 0 >= y
    BY <2>1
  <2> QED BY <2>2, <2>3
<1> QED BY <1>1, <1>2, <1>3, <1>4, <1>5

\* The worst of some qualities is "ok" only if none is worse.
LEMMA CombinedIsWorst ==
  ASSUME NEW Q \in SUBSET Qualities, Combined(Q) = "ok"
  PROVE  Q \subseteq {"ok", "na"}
<1> SUFFICES ASSUME NEW p \in Q, p \notin {"ok", "na"} PROVE FALSE
  OBVIOUS
<1> DEFINE T == {Rank[q] : q \in Q \union {"ok"}}
           worst == Max(T)
<1>1. \A q \in Qualities : Rank[q] \in 0 .. 3 /\ (Rank[q] = 0 <=> q \in {"ok", "na"})
  BY DEF Rank, Qualities
<1>2. T \in SUBSET (0 .. 3) /\ Rank[p] \in T /\ Rank[p] >= 1
  <2>1. \A q \in Q \union {"ok"} : q \in Qualities
    BY DEF Qualities
  <2>2. \A q \in Q \union {"ok"} : Rank[q] \in 0 .. 3
    BY <1>1, <2>1
  <2>3. Rank[p] \in 0 .. 3 /\ Rank[p] # 0
    BY <1>1, <2>1
  <2>4. Rank[p] >= 1
    BY <2>3
  <2> QED BY <2>2, <2>4
<1>3. \E x \in T : \A y \in T : x >= y
  <2> HIDE DEF T
  <2> QED BY <1>2, LargestRank
<1>4. worst \in T /\ \A y \in T : worst >= y
  BY <1>3 DEF Max
<1>5. worst \in 1 .. 3
  BY <1>2, <1>4
<1>6. \E q \in Q : Rank[q] = worst
  BY <1>1, <1>4, <1>5 DEF Qualities
<1>7. Combined(Q) = CHOOSE q \in Q : Rank[q] = worst
  <2>1. ~(Q # {} /\ Q \subseteq {"na"})
    OBVIOUS
  <2>2. Combined(Q) = IF Q # {} /\ Q \subseteq {"na"} THEN "na"
                      ELSE IF worst = 0 THEN "ok" ELSE CHOOSE q \in Q : Rank[q] = worst
    BY Zenon DEF Combined
  <2>3. worst # 0
    BY <1>5
  <2> HIDE DEF worst
  <2> QED BY <2>1, <2>2, <2>3
<1> HIDE DEF worst
<1>8. Combined(Q) \in Q /\ Rank[Combined(Q)] = worst
  BY <1>6, <1>7
<1> QED BY <1>1, <1>5, <1>8

\* If every row counts at most its due and the totals are equal, every row is full.
LEMMA TotalsCompare ==
  ASSUME NEW R, IsFiniteSet(R),
         \A r \in R : r.due \in Nat /\ r.captured \in Nat /\ r.captured <= r.due,
         Total(R, "captured") >= Total(R, "due")
  PROVE  \A r \in R : r.captured >= r.due
<1> DEFINE C == UNION {{r} \X (1 .. r["captured"]) : r \in R}
           P(r) == {r} \X (1 .. r["due"])
           D == UNION {P(r) : r \in R}
<1>1. \A r \in R : IsFiniteSet(P(r))
  <2> SUFFICES ASSUME NEW r \in R PROVE IsFiniteSet(P(r))
    OBVIOUS
  <2>1. IsFiniteSet(1 .. r["due"])
    BY FirstNumbers
  <2>2. IsFiniteSet({r})
    BY FS_Singleton
  <2> QED BY <2>1, <2>2, FS_Product
<1>2. IsFiniteSet({P(r) : r \in R})
  <2> DEFINE f == [r \in R |-> P(r)]
  <2> HIDE DEF P
  <2>1. IsFiniteSet({f[r] : r \in R})
    BY ImageIsFinite
  <2> QED BY <2>1
<1>3. IsFiniteSet(D)
  BY <1>1, <1>2, FS_UNION
<1>4. C \in SUBSET D
  OBVIOUS
<1>5. Cardinality(C) \in Nat /\ Cardinality(D) \in Nat /\ Cardinality(C) <= Cardinality(D)
  BY <1>3, <1>4, FS_Subset, FS_CardinalityType
<1>6. Cardinality(C) >= Cardinality(D)
  BY DEF Total
<1>7. C = D
  BY <1>3, <1>4, <1>5, <1>6, FS_Subset
<1> SUFFICES ASSUME NEW r \in R, r.captured < r.due PROVE FALSE
  OBVIOUS
<1>8. <<r, r.due>> \in D
  OBVIOUS
<1>9. <<r, r.due>> \notin C
  OBVIOUS
<1> QED BY <1>7, <1>8, <1>9

LEMMA RowsAreFinite == ASSUME NEW w, NEW n, NEW stale PROVE IsFiniteSet(StrategyRows(w, n, stale))
<1> DEFINE S == {x \in Strats : /\ span[x].from \in 1 .. w.end + 1
                                /\ span[x].to = 0 \/ span[x].to >= w.start}
<1>1. IsFiniteSet(S)
  BY PnlAssumption, FS_Subset
<1> HIDE DEF S
<1>2. IsFiniteSet({Row(s, w, n, stale) : s \in S})
  <2> DEFINE f == [s \in S |-> Row(s, w, n, stale)]
  <2>1. IsFiniteSet({f[s] : s \in S})
    BY <1>1, ImageIsFinite
  <2> QED BY <2>1
<1> QED BY <1>2 DEF StrategyRows, S

LEMMA RowOf ==
  ASSUME ReportInv, NEW n \in Nat \ {0}, OnCalendar(n), NEW s \in Strats, NEW w \in Spans
  PROVE  LET r == Row(s, w, n, FALSE)
         IN  /\ r.due \in Nat /\ r.captured \in Nat /\ r.captured <= r.due
             /\ r.quality \in Qualities
             /\ r.captured >= r.due \/ r.quality \in {"ok", "na"} =>
                  HeldIn(s, w) \subseteq CapturedBy(s, w)
<1>1. /\ Due(s, w, n) \in Nat /\ Cardinality(CapturedBy(s, w)) \in Nat
      /\ Cardinality(CapturedBy(s, w)) <= Due(s, w, n)
      /\ Cardinality(CapturedBy(s, w)) >= Due(s, w, n) => HeldIn(s, w) \subseteq CapturedBy(s, w)
  BY FullRowIsWhole
<1> DEFINE q == Quality(Due(s, w, n), Cardinality(CapturedBy(s, w)), FALSE)
<1>2. q \in Qualities /\ (q \in {"ok", "na"} => Cardinality(CapturedBy(s, w)) >= Due(s, w, n))
  BY <1>1, QualityOf
<1> HIDE DEF q
<1>3. PICK k : k = (q # "missing")
  OBVIOUS
<1>4. Row(s, w, n, FALSE) = [strategy |-> s, due |-> Due(s, w, n),
        captured |-> Cardinality(CapturedBy(s, w)), quality |-> q, known |-> k]
  BY <1>3 DEF Row, q
<1>5. PICK r : r = Row(s, w, n, FALSE)
  OBVIOUS
<1>6. /\ r.due \in Nat /\ r.captured \in Nat /\ r.captured <= r.due
      /\ r.quality \in Qualities
      /\ r.captured >= r.due \/ r.quality \in {"ok", "na"} => HeldIn(s, w) \subseteq CapturedBy(s, w)
  <2>1. PICK d, g : d = Due(s, w, n) /\ g = Cardinality(CapturedBy(s, w))
    OBVIOUS
  <2>2. r = [strategy |-> s, due |-> d, captured |-> g, quality |-> q, known |-> k]
    BY <1>4, <1>5, <2>1
  <2>3. r.due = d
    BY <2>2
  <2>4. r.captured = g
    BY <2>2
  <2>5. r.quality = q
    BY <2>2
  <2> QED BY <1>1, <1>2, <2>1, <2>3, <2>4, <2>5
<1> QED BY <1>5, <1>6

\* A strategy that held an event of the window has a row in it.
LEMMA HolderHasRow ==
  ASSUME LedgerInv, NEW n, NEW s \in Strats, NEW w \in Spans, HeldIn(s, w) # {}
  PROVE  Row(s, w, n, FALSE) \in StrategyRows(w, n, FALSE)
<1>1. PICK e \in posted : e.at \in w.start .. w.end /\ s \in Holders(e)
  BY DEF HeldIn
<1>2. /\ e.at \in Nat /\ w.start \in Nat /\ w.end \in Nat /\ span[s].from \in Nat
      /\ span[s].to \in Nat
  BY <1>1, EventsTyped DEF LedgerInv, LedgerTyped, WorldTyped, Held, Spans
<1>3. span[s].from \in 1 .. w.end + 1 /\ (span[s].to = 0 \/ span[s].to >= w.start)
  BY <1>1, <1>2 DEF Holders
<1> QED BY <1>3 DEF StrategyRows

LEMMA SummaryHidesNothing ==
  ASSUME ReportInv, NEW n \in Nat \ {0}, OnCalendar(n), NEW w \in Spans, NEW s \in Strats,
         \/ Summary(w, n, FALSE).quality = "ok"
         \/ Summary(w, n, FALSE).captured >= Summary(w, n, FALSE).due
  PROVE  HeldIn(s, w) \subseteq CapturedBy(s, w)
<1> DEFINE R == StrategyRows(w, n, FALSE)
           r == Row(s, w, n, FALSE)
<1>1. \A x \in R : /\ x.due \in Nat /\ x.captured \in Nat /\ x.captured <= x.due
                   /\ x.quality \in Qualities
  BY RowOf DEF StrategyRows
<1>2. IsFiniteSet(R)
  BY RowsAreFinite
<1>3. /\ Summary(w, n, FALSE).quality = Combined({x.quality : x \in R})
      /\ Summary(w, n, FALSE).due = Total(R, "due")
      /\ Summary(w, n, FALSE).captured = Total(R, "captured")
  BY DEF Summary
<1>4. CASE HeldIn(s, w) = {}
  BY <1>4
<1>5. CASE HeldIn(s, w) # {}
  <2>1. r \in R
    BY <1>5, HolderHasRow DEF ReportInv
  <2>2. CASE Summary(w, n, FALSE).quality = "ok"
    <3>1. {x.quality : x \in R} \in SUBSET Qualities
      BY <1>1
    <3>2. {x.quality : x \in R} \subseteq {"ok", "na"}
      BY <1>3, <2>2, <3>1, CombinedIsWorst
    <3>3. r.quality \in {"ok", "na"}
      BY <2>1, <3>2
    <3> QED BY <3>3, RowOf
  <2>3. CASE Summary(w, n, FALSE).captured >= Summary(w, n, FALSE).due
    <3>1. r.captured >= r.due
      BY <1>1, <1>2, <1>3, <2>1, <2>3, TotalsCompare
    <3> QED BY <3>1, RowOf
  <2> QED BY <2>2, <2>3
<1> QED BY <1>4, <1>5

\* What is counted beside the lists, and where what they leave out is.
LEMMA MergedIsNewest ==
  ASSUME NEW A, NEW U, IsFiniteSet(A), IsFiniteSet(U), NEW e \in A \union U
  PROVE  ListedOrOld(e, Shown(Shown(A) \union Shown(U)), A \union U)
<1> DEFINE M == Shown(A) \union Shown(U)
           newer == NewerThan(e, A \union U)
<1>1. IsFiniteSet(A \union U) /\ newer \subseteq A \union U
  BY FS_Union DEF NewerThan
<1>2. IsFiniteSet(newer) /\ Cardinality(newer) \in Nat
  BY <1>1, FS_Subset, FS_CardinalityType
<1>3. \A S \in {A, U, M} : NewerThan(e, S) \subseteq newer
  BY DEF NewerThan, Shown
<1>4. \A S \in {A, U, M} : /\ Cardinality(NewerThan(e, S)) \in Nat
                           /\ Cardinality(NewerThan(e, S)) <= Cardinality(newer)
  BY <1>2, <1>3, FS_Subset, FS_CardinalityType
<1>5. CASE \E S \in {A, U, M} : ~(Cardinality(NewerThan(e, S)) < EventLimit)
  <2>1. Cardinality(newer) >= EventLimit
    BY <1>2, <1>4, <1>5, PnlAssumption
  <2> QED BY <2>1 DEF ListedOrOld
<1>6. CASE \A S \in {A, U, M} : Cardinality(NewerThan(e, S)) < EventLimit
  <2>1. e \in M
    BY <1>6 DEF Shown
  <2>2. e \in Shown(M)
    BY <1>6, <2>1 DEF Shown
  <2> QED BY <2>2 DEF ListedOrOld
<1> QED BY <1>5, <1>6

LEMMA ShownOrOld ==
  ASSUME NEW A, IsFiniteSet(A), NEW e \in A PROVE ListedOrOld(e, Shown(A), A)
<1>1. IsFiniteSet(NewerThan(e, A))
  BY FS_Subset DEF NewerThan
<1>2. Cardinality(NewerThan(e, A)) \in Nat
  BY <1>1, FS_CardinalityType
<1> QED BY <1>2, PnlAssumption DEF Shown, ListedOrOld

LEMMA DetailHidesNothing ==
  ASSUME ReportInv, NEW n \in Nat \ {0}, OnCalendar(n), NEW v \in Spans, NEW s \in Strats
  PROVE  LET d == Detail(s, v, n, FALSE)
             stored == HeldIn(s, v) \cap committed.ledger
         IN  /\ d.quality = "ok" =>
                  \A e \in HeldIn(s, v) : /\ e \in CapturedBy(s, v)
                                          /\ ListedOrOld(e, d.assigned, CapturedBy(s, v))
             /\ Cardinality(stored) <= d.captured + d.unassignedCount
             /\ \A e \in stored :
                  ListedOrOld(e, d.events, CapturedBy(s, v) \union UnassignedFor(s, v))
<1> DEFINE A == CapturedBy(s, v)
           U == UnassignedFor(s, v)
           stored == HeldIn(s, v) \cap committed.ledger
<1>1. Row(s, v, n, FALSE).quality = "ok" => HeldIn(s, v) \subseteq A
  BY RowOf
<1>2. Row(s, v, n, FALSE).captured = Cardinality(A)
  BY DEF Row
<1>3. ASSUME NEW e \in stored PROVE e \in A \union U
  <2>1. e \in Events /\ e.at \in v.start .. v.end /\ s \in Holders(e)
    BY <1>3 DEF HeldIn, ReportInv, LedgerInv, LedgerTyped, WorldTyped
  <2>2. committed.shares[e] = {} \/ committed.shares[e] = Holders(e)
    BY <2>1 DEF ReportInv, SharesRight
  <2>3. e.sym = span[s].sym
    BY <2>1 DEF Holders
  <2> QED BY <1>3, <2>1, <2>2, <2>3 DEF CapturedBy, UnassignedFor
<1>4. IsFiniteSet(A) /\ IsFiniteSet(U)
  <2>1. A \subseteq Events /\ U \subseteq Events
    BY DEF CapturedBy, UnassignedFor, ReportInv, LedgerInv, LedgerTyped, TablesTyped, Tables
  <2> QED BY <2>1, EventsFinite, FS_Subset
<1>5. Cardinality(stored) <= Cardinality(A) + Cardinality(U)
  <2>1. stored \subseteq A \union U
    BY <1>3
  <2>2. /\ IsFiniteSet(A \union U) /\ IsFiniteSet(A \cap U) /\ IsFiniteSet(stored)
        /\ Cardinality(A \union U) = Cardinality(A) + Cardinality(U) - Cardinality(A \cap U)
        /\ Cardinality(stored) <= Cardinality(A \union U)
    BY <1>4, <2>1, FS_Union, FS_Subset
  <2>3. /\ Cardinality(A) \in Nat /\ Cardinality(U) \in Nat /\ Cardinality(A \cap U) \in Nat
        /\ Cardinality(stored) \in Nat
    BY <1>4, <2>2, FS_CardinalityType
  <2> QED BY <2>2, <2>3
<1>6. \A e \in A : ListedOrOld(e, Shown(A), A)
  BY <1>4, ShownOrOld
<1>7. \A e \in stored : ListedOrOld(e, Shown(Shown(A) \union Shown(U)), A \union U)
  BY <1>3, <1>4, MergedIsNewest
<1> QED BY <1>1, <1>2, <1>5, <1>6, <1>7 DEF Detail

\* A summary that says "ok", or that captured what was due, has every share of every
\* strategy and window in its sums.  A strategy's page counts every event in the ledger
\* that it held, and lists it unless as many newer ones fill the list, on any settlement
\* calendar, whatever the ingests have skipped or are still doing
\* (infra/pnl_v2/runtime: summary_api.py, strategy_row.py, detail_api.py).
THEOREM ReportsHideNothing == LedgerSpec => []OkHidesNothing
<1>1. ASSUME ReportInv PROVE OkHidesNothing
  <2> SUFFICES ASSUME NEW n \in Intervals, OnCalendar(n), NEW w \in Windows
      PROVE  LET S == Summary(w, n, FALSE) IN
             /\ S.quality = "ok" \/ S.captured >= S.due =>
                  \A s \in Strats : HeldIn(s, w) \subseteq CapturedBy(s, w)
             /\ \A s \in Strats : span[s].from > 0 =>
                  LET v == Lifecycle(s, w)
                      d == Detail(s, v, n, FALSE)
                      stored == HeldIn(s, v) \cap committed.ledger
                  IN /\ d.quality = "ok" =>
                          \A e \in HeldIn(s, v) : /\ e \in CapturedBy(s, v)
                                                  /\ ListedOrOld(e, d.assigned, CapturedBy(s, v))
                     /\ Cardinality(stored) <= d.captured + d.unassignedCount
                     /\ \A e \in stored :
                          ListedOrOld(e, d.events, CapturedBy(s, v) \union UnassignedFor(s, v))
    BY DEF OkHidesNothing
  <2>1. n \in Nat \ {0} /\ w \in Spans
    BY <1>1, PnlAssumption, FundingLedgerAssumption
       DEF Windows, Spans, ReportInv, LedgerInv, LedgerTyped, WorldTyped
  <2>2. ASSUME NEW s \in Strats PROVE Lifecycle(s, w) \in Spans
    BY <1>1, <2>1 DEF Lifecycle, Spans, ReportInv, LedgerInv, LedgerTyped, WorldTyped, Held
  <2> QED BY <1>1, <2>1, <2>2, SummaryHidesNothing, DetailHidesNothing
<1> QED BY <1>1, ReportInvariant, PTL
=============================================================================
