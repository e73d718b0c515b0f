--------------------------- MODULE ReconcilerProofs ---------------------------
(***************************************************************************)
(* What the reconciler guarantees for every number of strategies, symbols, *)
(* request threads, opens, faults and deleted exchanges, on top of what    *)
(* StrategyBookProofs shows of the workers it runs beside.                 *)
(***************************************************************************)
EXTENDS Reconciler, StrategyBookProofs

(* The variables of a pass. *)
PassTyped ==
  /\ step \in {"idle", "tracking", "shorts", "spots", "pairing"}
  /\ listed \in SUBSET Markets
  /\ tracked \in [Markets -> Nat]
  /\ live \in [Markets -> Nat]
  /\ todoSyms \in SUBSET Symbols
  /\ quiet \in BOOLEAN

RTyped == Typed /\ PassTyped

(* What Typed says of the variables a pass does not write. *)
LEMMA TypedCarried ==
  ASSUME Typed, UNCHANGED <<gone, venue, locals, adrift, opens>>,
         sst' \in [Strategies -> {"none", "active", "closing", "closed", "error"}],
         pst' \in [Strategies -> [Legs -> Statuses \cup {"none"}]],
         stray' \in [Markets -> Nat],
         faults' \in 0 .. MaxFaults
  PROVE  Typed'
BY DEF Typed, TypeOK, locals, BookInHand, LegsPlaced, First

LEMMA TrackedFinite ==
  ASSUME NEW m \in Markets
  PROVE  IsFiniteSet(TrackedLegs(m)) /\ Cardinality(TrackedLegs(m)) \in Nat
<1>1. IsFiniteSet(Spots)
  BY BookAssumption, FS_Subset
<1>2. IsFiniteSet(Spots \X Legs)
  BY <1>1, WorkersFinite, FS_Product
<1>3. TrackedLegs(m) \subseteq Spots \X Legs
  BY DEF TrackedLegs
<1> QED
  BY <1>2, <1>3, FS_Subset, FS_CardinalityType

LEMMA MarketsFinite == IsFiniteSet(Markets)
<1>1. {"short", "spot"} = {"short"} \cup {"spot"}
  OBVIOUS
<1>2. {"long", "short", "spot"} = {"long"} \cup {"short", "spot"}
  OBVIOUS
<1>3. IsFiniteSet({"short"} \cup {"spot"})
  BY FS_Singleton, FS_Union
<1>4. IsFiniteSet({"long"} \cup {"short", "spot"})
  BY <1>1, <1>3, FS_Singleton, FS_Union
<1> QED
  BY <1>2, <1>4, ReconcilerAssumption, FS_Product DEF Markets

LEMMA RInitTyped == RInit => RTyped
<1>1. Nothing \in [Markets -> Nat]
  BY DEF Nothing
<1>2. ASSUME RInit PROVE PassTyped
  BY <1>1, <1>2 DEF RInit, PassTyped
<1> QED
  BY <1>2, InitTyped DEF RInit, RTyped

LEMMA CloseEmptyTyped == ASSUME RTyped, CloseEmpty PROVE RTyped'
<1>1. Typed'
  <2>1. sst' \in [Strategies -> {"none", "active", "closing", "closed", "error"}]
    BY DEF CloseEmpty, RTyped, Typed, TypeOK
  <2> QED
    BY <2>1, TypedCarried DEF CloseEmpty, RTyped, Typed, TypeOK
<1> QED
  BY <1>1 DEF CloseEmpty, RTyped, PassTyped

LEMMA LoadTrackedTyped == ASSUME RTyped, LoadTracked PROVE RTyped'
<1>1. Typed'
  BY TypedCarried DEF LoadTracked, RTyped, Typed, TypeOK, vars, database
<1>2. tracked' \in [Markets -> Nat] /\ quiet' \in BOOLEAN
  BY TrackedFinite DEF LoadTracked, Busy
<1> QED
  BY <1>1, <1>2 DEF LoadTracked, RTyped, PassTyped

(* What a read leaves behind.  A market's figure is what the exchange holds, *)
(* or nothing.                                                               *)
LEMMA ReadReports ==
  ASSUME RTyped, NEW kind, NEW next \in {"spots", "pairing"}, Read(kind, next)
  PROVE  /\ faults' \in 0 .. MaxFaults
         /\ live' \in [Markets -> Nat]
         /\ \A m \in Markets : IF m[2] # kind THEN live'[m] = live[m]
                               ELSE live'[m] \in {venue[m], 0}
         /\ step' = next
         /\ UNCHANGED <<sst, pst, gone, venue, locals, stray, adrift, opens>>
         /\ UNCHANGED <<listed, tracked, quiet>>
<1>1. PICK failed \in SUBSET {m \in listed : m[2] = kind} :
        /\ faults + Cardinality(failed) <= MaxFaults
        /\ faults' = faults + Cardinality(failed)
        /\ live' = [m \in Markets |->
                      IF m[2] # kind THEN live[m]
                      ELSE IF m \in listed \ failed THEN venue[m] ELSE 0]
  BY DEF Read
<1>2. live' \in [Markets -> Nat]
  BY <1>1 DEF RTyped, PassTyped, Typed, TypeOK
<1>4. Cardinality(failed) \in Nat
  <2>1. failed \subseteq Markets
    BY <1>1 DEF RTyped, PassTyped
  <2> QED
    BY <2>1, MarketsFinite, FS_Subset, FS_CardinalityType
<1>5. faults' \in 0 .. MaxFaults
  BY <1>1, <1>4, BookAssumption DEF RTyped, Typed, TypeOK
<1>3. \A m \in Markets : IF m[2] # kind THEN live'[m] = live[m]
                         ELSE live'[m] \in {venue[m], 0}
  BY <1>1
<1> QED
  BY <1>2, <1>3, <1>5 DEF Read, database

LEMMA ReadTyped == ASSUME RTyped, ReadShorts \/ ReadSpots PROVE RTyped'
<1>1. PICK kind \in {"short", "spot"}, next \in {"spots", "pairing"} : Read(kind, next)
  BY DEF ReadShorts, ReadSpots
<1>2. todoSyms' \in SUBSET Symbols
  BY DEF ReadShorts, ReadSpots, RTyped, PassTyped
<1>3. Typed'
  BY <1>1, ReadReports, TypedCarried DEF RTyped, Typed, TypeOK
<1> QED
  BY <1>1, <1>2, <1>3, ReadReports DEF RTyped, PassTyped

LEMMA RecoverTyped ==
  ASSUME RTyped, NEW s \in Symbols, NEW k \in Strategies, Recover(s, k)
  PROVE  RTyped'
<1>1. /\ sst' \in [Strategies -> {"none", "active", "closing", "closed", "error"}]
      /\ pst' \in [Strategies -> [Legs -> Statuses \cup {"none"}]]
  BY DEF Recover, RTyped, Typed, TypeOK, Statuses
<1>2. stray' \in [Markets -> Nat]
  <2>1. \A m \in Markets : stray[m] \in Nat
    BY DEF RTyped, Typed, TypeOK
  <2>2. \A m \in Markets : (IF \E l \in Legs : Market(k, l) = m /\ stray[m] > 0
                            THEN stray[m] - 1 ELSE stray[m]) \in Nat
    BY <2>1
  <2> QED
    BY <2>2 DEF Recover
<1>3. Typed'
  BY <1>1, <1>2, TypedCarried DEF Recover, RTyped, Typed, TypeOK
<1> QED
  BY <1>3 DEF Recover, RTyped, PassTyped

LEMMA PassEndTyped ==
  ASSUME RTyped, AbortPass \/ EndPassR \/ \E s \in Symbols : SkipSymbol(s)
  PROVE  RTyped'
<1>1. Typed'
  BY TypedCarried, BookAssumption
  DEF AbortPass, EndPassR, SkipSymbol, RTyped, Typed, TypeOK, vars, database
<1>2. PassTyped'
  BY DEF AbortPass, EndPassR, SkipSymbol, RTyped, PassTyped, Nothing
<1> QED
  BY <1>1, <1>2 DEF RTyped

LEMMA BookStepTyped == ASSUME RTyped, BookStep PROVE RTyped'
BY NextTyped DEF BookStep, pass, RTyped, PassTyped

LEMMA RNextTyped == RTyped /\ [RNext]_rvars => RTyped'
<1> SUFFICES ASSUME RTyped, [RNext]_rvars PROVE RTyped'
  OBVIOUS
<1>1. CASE UNCHANGED rvars
  BY <1>1, NextTyped DEF rvars, pass, RTyped, PassTyped
<1>2. CASE RNext
  BY <1>2, BookStepTyped, CloseEmptyTyped, LoadTrackedTyped, ReadTyped, RecoverTyped,
     PassEndTyped
  DEF RNext, Pass
<1> QED
  BY <1>1, <1>2

(* Every state of the book under the reconciler is well typed: its writes in *)
(* the middle of the workers' opens and closes leave no worker without the   *)
(* strategy it works on, and no market with fewer than no units.             *)
THEOREM ReconcilerTypeCorrect == RSpec => []RTypeOK
<1>1. RTyped => RTypeOK
  BY DEF RTyped, Typed, PassTyped, RTypeOK
<1> QED
  BY RInitTyped, RNextTyped, <1>1, PTL DEF RSpec

-----------------------------------------------------------------------------
(* A pass no worker disturbs recovers what is there.                       *)

(* The tables are as the pass read them, as far as symbol s goes. *)
AsTracked(s) ==
  \A c \in {"short", "spot"} :
    tracked[<<s, c>>] = Cardinality(TrackedLegs(<<s, c>>))

(* An exchange was read right, or not at all. *)
AsHeld(m) == live[m] \in {venue[m], 0}

(* What a pass knows while nobody has a strategy in hand: of the symbols it  *)
(* has not paired yet, what the tables say and at most what is held.         *)
QuietPass ==
  quiet /\ step \in {"shorts", "spots", "pairing"} =>
    /\ ~Busy
    /\ \A s \in Symbols :
         /\ (step = "pairing" => s \in todoSyms) => AsTracked(s)
         /\ step \in {"spots", "pairing"} => AsHeld(<<s, "short">>)
         /\ step = "pairing" => AsHeld(<<s, "spot">>)

LEMMA SymbolMarkets ==
  ASSUME NEW s \in Symbols, NEW c \in {"short", "spot"}
  PROVE  <<s, c>> \in Markets /\ <<s, c>>[1] = s /\ <<s, c>>[2] = c
BY DEF Markets

(* A worker that neither has nor gets a strategy leaves the tables and the   *)
(* units alone.                                                              *)
LEMMA IdleWorkersWriteNothing ==
  ASSUME Typed, ~Busy, Next, ~Busy'
  PROVE  UNCHANGED <<sst, pst, venue>>
<1>1. \A w \in Workers : pc[w] \notin HeldStages /\ book[w] = NoStrategy /\ book'[w] = NoStrategy
  BY BookAssumption DEF Busy, Typed, BookInHand
<1>2. ASSUME NEW w \in Workers PROVE ~OpenStep(w)
  <2>1. pc[w] \notin {"first", "second", "report", "unwind"}
    BY <1>1 DEF HeldStages
  <2>2. ASSUME NEW k \in Strategies PROVE ~OpenBegin(w, k)
    BY <1>1, BookAssumption DEF OpenBegin, Typed, TypeOK
  <2> QED
    BY <2>1, <2>2
    DEF OpenStep, Place, ReportSpot, ReportCross, ReportError, Unwind, Settle
<1>3. ASSUME NEW w \in Workers, CloseStep(w) PROVE EndPass(w)
  <2>1. pc[w] \notin {"checked", "closing"}
    BY <1>1 DEF HeldStages
  <2>2. ASSUME NEW k \in Strategies PROVE ~CloseCheck(w, k) /\ ~CloseBegin(w, k)
    BY <1>1, BookAssumption DEF CloseCheck, CloseBegin, Typed, TypeOK
  <2> QED
    BY <1>3, <2>1, <2>2 DEF CloseStep, CloseEnd, CloseLeg, SkipLeg, BreakClose
<1>4. \A w \in Workers : ~Abort(w)
  BY <1>1 DEF Abort
<1> QED
  BY <1>2, <1>3, <1>4
  DEF Next, EndPass, StartRisk, StartAuto, Crash, DeleteExchange, database

LEMMA BookStepQuiet == ASSUME RTyped, QuietPass, BookStep PROVE QuietPass'
<1> SUFFICES ASSUME quiet', step' \in {"shorts", "spots", "pairing"} PROVE QuietPass'
  BY DEF QuietPass
<1>1. quiet /\ ~Busy'
  BY DEF BookStep, Busy
<1>2. UNCHANGED pass /\ ~Busy
  BY <1>1 DEF BookStep, QuietPass, pass
<1>3. UNCHANGED <<sst, pst, venue>>
  BY <1>1, <1>2, IdleWorkersWriteNothing DEF BookStep, RTyped
<1>4. \A m : TrackedLegs(m)' = TrackedLegs(m)
  BY <1>3 DEF TrackedLegs
<1> QED
  BY <1>1, <1>2, <1>3, <1>4 DEF QuietPass, pass, AsTracked, AsHeld

LEMMA LoadTrackedQuiet == ASSUME RTyped, LoadTracked PROVE QuietPass'
<1>1. \A m : TrackedLegs(m)' = TrackedLegs(m)
  BY DEF LoadTracked, vars, database, TrackedLegs
<1>2. \A s \in Symbols : AsTracked(s)'
  BY <1>1, SymbolMarkets DEF LoadTracked, AsTracked
<1>3. quiet' => ~Busy'
  BY DEF LoadTracked, Busy, vars, locals
<1> QED
  BY <1>2, <1>3 DEF QuietPass, LoadTracked

LEMMA ReadQuiet ==
  ASSUME RTyped, QuietPass, ReadShorts \/ ReadSpots
  PROVE  QuietPass'
<1>1. PICK kind \in {"short", "spot"}, next \in {"spots", "pairing"} :
        /\ Read(kind, next)
        /\ step = (IF kind = "short" THEN "shorts" ELSE "spots")
        /\ next = (IF kind = "short" THEN "spots" ELSE "pairing")
        /\ next = "pairing" => todoSyms' = Symbols
  BY DEF ReadShorts, ReadSpots
<1>2. \A m : TrackedLegs(m)' = TrackedLegs(m)
  BY <1>1, ReadReports DEF TrackedLegs
<1>3. \A s \in Symbols : AsTracked(s) => AsTracked(s)'
  BY <1>1, <1>2, ReadReports DEF AsTracked
<1>4. Busy' = Busy
  BY <1>1, ReadReports DEF Busy, locals
<1>5. ASSUME NEW s \in Symbols, NEW c \in {"short", "spot"}
      PROVE  IF c = kind THEN AsHeld(<<s, c>>)'
             ELSE AsHeld(<<s, c>>) => AsHeld(<<s, c>>)'
  BY <1>1, ReadReports, SymbolMarkets DEF AsHeld
<1> QED
  BY <1>1, <1>3, <1>4, <1>5, ReadReports DEF QuietPass

(* The two legs of a spot hedge are in the two markets of its symbol. *)
LEMMA HedgeMarkets ==
  ASSUME NEW k \in Spots
  PROVE  /\ Market(k, "short") = <<SymbolOf[k], "short">>
         /\ Market(k, "long") = <<SymbolOf[k], "spot">>
         /\ SymbolOf[k] \in Symbols /\ k \in Strategies
BY BookAssumption DEF Market

(* Writing a strategy adds one tracked leg to each market of its symbol. *)
LEMMA RecoverTracks ==
  ASSUME RTyped, NEW s \in Symbols, NEW k \in Strategies, Recover(s, k)
  PROVE  /\ \A c \in {"short", "spot"} :
              Cardinality(TrackedLegs(<<s, c>>)') = Cardinality(TrackedLegs(<<s, c>>)) + 1
         /\ \A t \in Symbols \ {s}, c \in {"short", "spot"} :
              TrackedLegs(<<t, c>>)' = TrackedLegs(<<t, c>>)
<1>1. /\ k \in Spots /\ SymbolOf[k] = s /\ sst[k] = "none"
      /\ sst' = [sst EXCEPT ![k] = "active"]
      /\ pst' = [pst EXCEPT ![k] = [l \in Legs |-> "open"]]
      /\ sst \in [Strategies -> {"none", "active", "closing", "closed", "error"}]
      /\ pst \in [Strategies -> [Legs -> Statuses \cup {"none"}]]
  BY DEF Recover, Free, RTyped, Typed, TypeOK
<1>2. \A q \in Spots, l \in Legs :
        (sst'[q] \in {"active", "closing", "error"} /\ pst'[q][l] = "open")
          <=> (q = k \/ (sst[q] \in {"active", "closing", "error"} /\ pst[q][l] = "open"))
  BY <1>1, BookAssumption
<1>3. \A m : TrackedLegs(m)' = TrackedLegs(m) \cup {x \in {k} \X Legs : Market(x[1], x[2]) = m}
  BY <1>1, <1>2 DEF TrackedLegs
<1>4. \A m, l : <<k, l>> \notin TrackedLegs(m)
  BY <1>1 DEF TrackedLegs
<1>5. ASSUME NEW t \in Symbols, NEW c \in {"short", "spot"}
      PROVE  {x \in {k} \X Legs : Market(x[1], x[2]) = <<t, c>>} =
             IF t = s THEN {<<k, IF c = "short" THEN "short" ELSE "long">>} ELSE {}
  BY <1>1, HedgeMarkets DEF Legs
<1>6. \A t \in Symbols \ {s}, c \in {"short", "spot"} :
        TrackedLegs(<<t, c>>)' = TrackedLegs(<<t, c>>)
  BY <1>3, <1>5
<1>7. ASSUME NEW c \in {"short", "spot"}
      PROVE  Cardinality(TrackedLegs(<<s, c>>)') = Cardinality(TrackedLegs(<<s, c>>)) + 1
  <2> DEFINE x == <<k, IF c = "short" THEN "short" ELSE "long">>
  <2>1. TrackedLegs(<<s, c>>)' = TrackedLegs(<<s, c>>) \cup {x} /\ x \notin TrackedLegs(<<s, c>>)
    BY <1>3, <1>4, <1>5
  <2>2. IsFiniteSet(TrackedLegs(<<s, c>>))
    BY SymbolMarkets, TrackedFinite
  <2> QED
    BY <2>1, <2>2, FS_AddElement
<1> QED
  BY <1>6, <1>7

LEMMA RecoverQuiet ==
  ASSUME RTyped, QuietPass, NEW s \in Symbols, NEW k \in Strategies, Recover(s, k)
  PROVE  QuietPass'
<1>1. /\ step = "pairing" /\ todoSyms' = todoSyms \ {s}
      /\ UNCHANGED <<venue, book, step, tracked, live, quiet>>
  BY DEF Recover, locals
<1>2. \A t \in Symbols \ {s} : AsTracked(t) => AsTracked(t)'
  BY <1>1, RecoverTracks DEF AsTracked
<1>3. \A t \in Symbols, c \in {"short", "spot"} : AsHeld(<<t, c>>) => AsHeld(<<t, c>>)'
  BY <1>1 DEF AsHeld
<1>4. Busy' = Busy
  BY <1>1 DEF Busy
<1> QED
  BY <1>1, <1>2, <1>3, <1>4 DEF QuietPass

LEMMA RNextQuiet == RTyped /\ QuietPass /\ [RNext]_rvars => QuietPass'
<1> SUFFICES ASSUME RTyped, QuietPass, [RNext]_rvars PROVE QuietPass'
  OBVIOUS
<1>1. ASSUME UNCHANGED <<sst, pst, venue, book, tracked, live, quiet>>,
             \/ UNCHANGED <<step, todoSyms>>
             \/ UNCHANGED step /\ todoSyms' \subseteq todoSyms
      PROVE  QuietPass'
  <2>1. \A m : TrackedLegs(m)' = TrackedLegs(m)
    BY <1>1 DEF TrackedLegs
  <2>2. Busy' = Busy
    BY <1>1 DEF Busy
  <2> QED
    BY <1>1, <2>1, <2>2 DEF QuietPass, AsTracked, AsHeld
<1>2. CASE UNCHANGED rvars
  BY <1>1, <1>2 DEF rvars, vars, pass, database, locals
<1>3. ASSUME NEW s \in Symbols, SkipSymbol(s) PROVE QuietPass'
  BY <1>1, <1>3 DEF SkipSymbol, vars, database, locals
<1>4. ASSUME CloseEmpty \/ EndPassR \/ AbortPass PROVE QuietPass'
  BY <1>4 DEF CloseEmpty, EndPassR, AbortPass, QuietPass
<1>5. CASE RNext
  BY <1>3, <1>4, <1>5, BookStepQuiet, LoadTrackedQuiet, ReadQuiet, RecoverQuiet
  DEF RNext, Pass
<1> QED
  BY <1>2, <1>5

(* A recovery in a pass no worker disturbed writes rows for units that are   *)
(* there, whatever reads failed: an exchange that could not be read shows    *)
(* nothing, and what the pass compares with the tables is still what they    *)
(* say, for every symbol it has not paired yet.                              *)
THEOREM QuietRecoveriesAreHeld == RSpec => QuietRecoveryIsHeld
<1>1. RInit => QuietPass
  BY DEF RInit, QuietPass
<1>2. ASSUME RTyped, QuietPass, NEW s \in Symbols, NEW k \in Strategies, Recover(s, k), quiet,
             NEW l \in Legs
      PROVE  Cardinality(TrackedLegs(Market(k, l)))' <= venue[Market(k, l)]
  <2> DEFINE c == IF l = "short" THEN "short" ELSE "spot"
             m == <<s, c>>
  <2>1. Market(k, l) = m /\ m \in Markets
    BY <1>2, HedgeMarkets, SymbolMarkets DEF Recover, Legs
  <2>2. /\ AsTracked(s) /\ AsHeld(m) /\ Matched(s)
    BY <1>2 DEF QuietPass, Recover, Recoverable
  <2>3. venue[m] \in Nat /\ live[m] \in Nat /\ tracked[m] \in Nat
    BY <1>2, <2>1 DEF RTyped, PassTyped, Typed, TypeOK
  <2>4. Residual(<<s, "short">>) = 1 /\ Residual(<<s, "spot">>) = 1
    <3>1. Residual(<<s, "spot">>) \in Nat
      <4>1. <<s, "spot">> \in Markets
        BY SymbolMarkets
      <4>2. live[<<s, "spot">>] \in Nat /\ tracked[<<s, "spot">>] \in Nat
        BY <1>2, <4>1 DEF RTyped, PassTyped
      <4> QED
        BY <4>2 DEF Residual
    <3>2. /\ Residual(<<s, "short">>) = 1
          /\ 10 * Residual(<<s, "spot">>) >= 6 /\ 10 * Residual(<<s, "spot">>) <= 14
      BY <2>2 DEF Matched
    <3> QED
      BY <3>1, <3>2
  <2>5. live[m] = tracked[m] + 1
    BY <2>3, <2>4 DEF Residual
  <2>6. venue[m] = Cardinality(TrackedLegs(m)) + 1
    BY <2>2, <2>3, <2>5 DEF AsTracked, AsHeld
  <2>7. Cardinality(TrackedLegs(m)') = Cardinality(TrackedLegs(m)) + 1
    BY <1>2, RecoverTracks
  <2>8. TrackedLegs(Market(k, l))' = TrackedLegs(m)'
    BY <2>1 DEF TrackedLegs
  <2> QED
    BY <2>1, <2>3, <2>6, <2>7, <2>8
<1>3. RTyped /\ QuietPass =>
        [\A s \in Symbols, k \in Strategies :
           Recover(s, k) /\ quiet =>
             \A l \in Legs : Cardinality(TrackedLegs(Market(k, l)))' <= venue[Market(k, l)]]_rvars
  BY <1>2
<1> QED
  BY RInitTyped, RNextTyped, RNextQuiet, <1>1, <1>3, PTL DEF RSpec, QuietRecoveryIsHeld

-----------------------------------------------------------------------------
(* The record under the reconciler.                                        *)

(* Openers' strategies stay theirs, and no row is taken away. *)
LEMMA PassInOrder ==
  ASSUME RTyped, AllInOrder, UNCHANGED locals,
         \A q \in Strategies : (sst'[q] = "none") = (sst[q] = "none"), UNCHANGED pst
  PROVE  AllInOrder'
<1>1. NoRowYet'
  BY DEF AllInOrder, NoRowYet
<1>2. ASSUME NEW w \in Workers PROVE InOrder(w)'
  <2>1. InOrder(w) /\ plan[w] \subseteq Strategies
    BY DEF AllInOrder, RTyped, Typed, TypeOK
  <2>2. pc[w] \in HeldStages => book[w] \in Strategies
    BY DEF RTyped, Typed, BookInHand
  <2> QED
    BY <2>1, <2>2 DEF InOrder, locals, Opening, HeldStages, Second
<1> QED
  BY <1>1, <1>2 DEF AllInOrder

LEMMA PassOnTheBooks ==
  ASSUME RTyped, OnTheBooks, UNCHANGED <<pst, venue, stray, locals>>,
         \A q \in Strategies : (sst'[q] = "none") = (sst[q] = "none")
  PROVE  OnTheBooks'
<1>1. \A m \in Markets : Wider(m)
  BY DEF Wider, Flying, Recorded, OnRow, Market, locals
<1> QED
  BY <1>1, PassInOrder, WiderKeeps DEF OnTheBooks, RTyped

(* A recovery takes a unit of each of its markets off the strays at most, and *)
(* adds a row for it.                                                         *)
LEMMA RecoverCovers ==
  ASSUME Typed, NEW s \in Symbols, NEW k \in Strategies, Recover(s, k), NEW m \in Markets,
         NEW R, NEW Q, IsFiniteSet(R), IsFiniteSet(Q), R \subseteq Q,
         \A l \in Legs : Market(k, l) = m => <<k, l>> \in Q /\ <<k, l>> \notin R,
         venue[m] <= Cardinality(Flying(m)) + stray[m] + Cardinality(R)
  PROVE  venue'[m] <= Cardinality(Flying(m)') + stray'[m] + Cardinality(Q)
<1>1. UNCHANGED <<pc, book, local, venue>>
  BY DEF Recover, locals
<1>2. /\ venue[m] \in Nat /\ stray[m] \in Nat
      /\ Cardinality(R) <= Cardinality(Q) /\ Cardinality(R) \in Nat /\ Cardinality(Q) \in Nat
  BY FS_Subset, FS_CardinalityType DEF Typed, TypeOK
<1>3. Flying(m) \subseteq Flying(m)'
  BY <1>1 DEF Flying, Market
<1>4. stray'[m] = IF \E l \in Legs : Market(k, l) = m /\ stray[m] > 0
                  THEN stray[m] - 1 ELSE stray[m]
  BY DEF Recover
<1>5. CASE \E l \in Legs : Market(k, l) = m
  <2>1. PICK l \in Legs : Market(k, l) = m
    BY <1>5
  <2>2. Cardinality(R) + 1 <= Cardinality(Q)
    <3>1. Cardinality(R \cup {<<k, l>>}) = Cardinality(R) + 1
      BY <2>1, FS_AddElement, Zenon
    <3>2. Cardinality(R \cup {<<k, l>>}) <= Cardinality(Q)
      BY <2>1, FS_Subset
    <3> QED
      BY <3>1, <3>2
  <2>3. stray'[m] \in Nat /\ stray'[m] >= stray[m] - 1
    BY <1>2, <1>4
  <2> QED
    BY <1>1, <1>2, <1>3, <2>2, <2>3, Counted
<1>6. CASE ~\E l \in Legs : Market(k, l) = m
  BY <1>1, <1>2, <1>3, <1>4, <1>6, Counted
<1> QED
  BY <1>5, <1>6

LEMMA RecoverOnTheBooks ==
  ASSUME RTyped, RTyped', OnTheBooks, NEW s \in Symbols, NEW k \in Strategies, Recover(s, k)
  PROVE  OnTheBooks'
<1>1. /\ sst[k] = "none" /\ pst[k] = NoLegs /\ \A w \in Workers : book[w] # k
      /\ sst' = [sst EXCEPT ![k] = "active"]
      /\ pst' = [pst EXCEPT ![k] = [l \in Legs |-> "open"]]
      /\ UNCHANGED <<pc, book, local, plan, venue>>
  BY DEF Recover, Free, OnTheBooks, AllInOrder, NoRowYet, locals
<1>2. /\ sst'[k] = "active" /\ pst'[k] = [l \in Legs |-> "open"]
      /\ \A q \in Strategies \ {k} : sst'[q] = sst[q] /\ pst'[q] = pst[q]
  BY <1>1 DEF RTyped, Typed, TypeOK
<1>3. AllInOrder'
  <2>1. NoRowYet'
    BY <1>2 DEF OnTheBooks, AllInOrder, NoRowYet
  <2>2. ASSUME NEW w \in Workers PROVE InOrder(w)'
    <3>1. InOrder(w) /\ plan[w] \subseteq Strategies
      BY DEF OnTheBooks, AllInOrder, RTyped, Typed, TypeOK
    <3>2. pc[w] \in HeldStages => book[w] \in Strategies \ {k}
      BY <1>1 DEF RTyped, Typed, BookInHand
    <3> QED
      BY <1>1, <1>2, <3>1, <3>2 DEF InOrder, Opening, HeldStages, Second
  <2> QED
    BY <2>1, <2>2 DEF AllInOrder
<1>4. ASSUME NEW m \in Markets
      PROVE  venue'[m] <= Cardinality(Flying(m)') + stray'[m] + Cardinality(Recorded(m)')
  <2>1. Recorded(m) \subseteq Recorded(m)'
    BY <1>1, <1>2 DEF Recorded, OnRow, Market
  <2>2. ASSUME NEW l \in Legs, Market(k, l) = m
        PROVE  <<k, l>> \in Recorded(m)' /\ <<k, l>> \notin Recorded(m)
    <3>1. OnRow(k, l)' /\ ~OnRow(k, l)
      BY <1>1, <1>2 DEF OnRow, NoLegs
    <3> QED
      BY <2>2, <3>1 DEF Recorded, Market
  <2>3. venue[m] <= Cardinality(Flying(m)) + stray[m] + Cardinality(Recorded(m))
    BY DEF OnTheBooks, HeldIsRecorded
  <2> QED
    BY <2>1, <2>2, <2>3, Counted, RecoverCovers DEF RTyped
<1> QED
  BY <1>3, <1>4 DEF OnTheBooks, HeldIsRecorded

LEMMA RNextOnTheBooks == RTyped /\ RTyped' /\ OnTheBooks /\ [RNext]_rvars => OnTheBooks'
<1> SUFFICES ASSUME RTyped, RTyped', OnTheBooks, [RNext]_rvars PROVE OnTheBooks'
  OBVIOUS
<1>1. CASE BookStep
  BY <1>1, NextOnTheBooks DEF BookStep, RTyped
<1>2. CASE CloseEmpty
  <2>1. \A q \in Strategies : (sst'[q] = "none") = (sst[q] = "none")
    BY <1>2 DEF CloseEmpty, Swept, Empty
  <2> QED
    BY <1>2, <2>1, PassOnTheBooks DEF CloseEmpty
<1>3. CASE ReadShorts \/ ReadSpots
  BY <1>3, PassOnTheBooks DEF ReadShorts, ReadSpots, Read, database
<1>4. CASE LoadTracked \/ EndPassR \/ AbortPass \/ \E s \in Symbols : SkipSymbol(s)
  BY <1>4, PassOnTheBooks DEF LoadTracked, EndPassR, AbortPass, SkipSymbol, vars, database
<1>5. CASE UNCHANGED rvars
  BY <1>5, PassOnTheBooks DEF rvars, vars, database
<1>6. ASSUME NEW s \in Symbols, NEW k \in Strategies, Recover(s, k) PROVE OnTheBooks'
  BY <1>6, RecoverOnTheBooks
<1> QED
  BY <1>1, <1>2, <1>3, <1>4, <1>5, <1>6 DEF RNext, Pass

(* The reconciler takes no unit off the record: what it closes has no open    *)
(* row, and what it recovers gets a row for each unit it no longer counts as  *)
(* lost, whatever the workers do between its reads and its writes             *)
(* (_close_active_or_closing_without_open_legs, the recovery of the runner).  *)
THEOREM RecordSurvivesReconciler == RSpec => []HeldIsRecorded
<1>1. RInit => OnTheBooks
  BY InitOnTheBooks DEF RInit
<1>2. OnTheBooks => HeldIsRecorded
  BY DEF OnTheBooks
<1> QED
  BY <1>1, <1>2, RInitTyped, RNextTyped, RNextOnTheBooks, PTL DEF RSpec

-----------------------------------------------------------------------------
(* Up to four failures under the reconciler.  A read that fails counts.    *)

LEMMA PassFaults ==
  ASSUME RTyped, RTyped', Pass \/ AbortPass
  PROVE  /\ faults \in Nat /\ faults' \in Nat /\ faults' >= faults
         /\ UNCHANGED locals /\ UNCHANGED <<gone, venue>>
<1>1. faults \in Nat /\ faults' \in Nat
  BY BookAssumption DEF RTyped, Typed, TypeOK
<1>2. ASSUME NEW kind, NEW next, Read(kind, next)
      PROVE  faults' >= faults /\ UNCHANGED locals /\ UNCHANGED <<gone, venue>>
  <2>1. PICK failed \in SUBSET {m \in listed : m[2] = kind} : faults' = faults + Cardinality(failed)
    BY <1>2 DEF Read
  <2>2. Cardinality(failed) \in Nat
    <3>1. failed \subseteq Markets
      BY <2>1 DEF RTyped, PassTyped
    <3> QED
      BY <3>1, MarketsFinite, FS_Subset, FS_CardinalityType
  <2> QED
    BY <1>1, <1>2, <2>1, <2>2 DEF Read, database
<1>3. CASE CloseEmpty \/ LoadTracked \/ EndPassR \/ \E s \in Symbols : SkipSymbol(s)
  BY <1>1, <1>3 DEF CloseEmpty, LoadTracked, EndPassR, SkipSymbol, vars, database
<1>4. ASSUME NEW s \in Symbols, NEW k \in Strategies, Recover(s, k)
      PROVE  faults' >= faults /\ UNCHANGED locals /\ UNCHANGED <<gone, venue>>
  BY <1>1, <1>4 DEF Recover
<1>5. CASE AbortPass
  BY <1>1, <1>5 DEF AbortPass, database
<1> QED
  BY <1>1, <1>2, <1>3, <1>4, <1>5 DEF Pass, ReadShorts, ReadSpots

(* A pass is no worker: it leaves their hands alone. *)
LEMMA PassInRole ==
  ASSUME RTyped, AllInRole, UNCHANGED locals, faults \in Nat, faults' \in Nat, faults' >= faults
  PROVE  AllInRole'
BY DEF AllInRole, InRole, locals

LEMMA PassSure ==
  ASSUME UNCHANGED locals, faults \in Nat, faults' \in Nat, faults' >= faults,
         NEW k \in Strategies, NEW l \in Legs, Sure(k, l),
         pst'[k] = pst[k], pst[k][l] = "open" => sst'[k] = sst[k]
  PROVE  Sure(k, l)'
<1>1. /\ OnRow(k, l)' /\ Attended(k, l)'
      /\ pst[k][l] \in {"open", "error"}
  BY DEF Sure, OnRow, Attended, Finishes, locals
<1>2. Missed(k, l)' = Missed(k, l) /\ Refused(k, l)' = Refused(k, l)
  BY <1>1 DEF Missed, Refused, locals
<1>3. ASSUME NEW w \in Workers, Reopens(w, k, l)' PROVE faults' >= Cost(w, k, l)'
  <2>1. Reopens(w, k, l)
    BY <1>3 DEF Reopens, locals
  <2>2. Cost(w, k, l)' = Cost(w, k, l) /\ Cost(w, k, l) \in Nat
    BY <1>2 DEF Cost, One, locals
  <2> QED
    BY <2>1, <2>2 DEF Sure, Paid
<1> QED
  BY <1>1, <1>3 DEF Sure, Paid

LEMMA PassHeldSure ==
  ASSUME RTyped, HeldForSure, UNCHANGED locals, UNCHANGED <<gone, venue, stray, pst>>,
         faults \in Nat, faults' \in Nat, faults' >= faults,
         \A k \in Strategies, l \in Legs : pst[k][l] = "open" => sst'[k] = sst[k]
  PROVE  HeldForSure'
<1> SUFFICES ASSUME NEW m \in Markets \ gone
             PROVE  venue'[m] <= Cardinality(Flying(m)') + stray'[m] + Cardinality(SureRows(m)')
  BY DEF HeldForSure
<1>1. SureRows(m) \subseteq SureRows(m)'
  BY PassSure, SureGrows
<1>2. Flying(m) \subseteq Flying(m)'
  BY DEF Flying, Market, locals
<1>3. venue[m] <= Cardinality(Flying(m)) + stray[m] + Cardinality(SureRows(m))
  BY DEF HeldForSure
<1> QED
  BY <1>1, <1>2, <1>3, SureCounted, StillCovers DEF RTyped

(* Nobody has the slot of a recovery in hand: its rows are sure. *)
LEMMA RecoverHeldSure ==
  ASSUME RTyped, RTyped', AllInOrder, HeldForSure, faults \in Nat,
         NEW s \in Symbols, NEW k \in Strategies, Recover(s, k)
  PROVE  HeldForSure'
<1>1. /\ sst[k] = "none" /\ pst[k] = NoLegs /\ \A w \in Workers : book[w] # k
      /\ sst' = [sst EXCEPT ![k] = "active"]
      /\ pst' = [pst EXCEPT ![k] = [l \in Legs |-> "open"]]
      /\ UNCHANGED locals /\ UNCHANGED <<gone, venue, faults>>
  BY DEF Recover, Free, AllInOrder, NoRowYet
<1>2. /\ sst'[k] = "active" /\ pst'[k] = [l \in Legs |-> "open"]
      /\ \A q \in Strategies \ {k} : sst'[q] = sst[q] /\ pst'[q] = pst[q]
  BY <1>1 DEF RTyped, Typed, TypeOK
<1>3. ASSUME NEW l \in Legs PROVE Sure(k, l)' /\ ~Sure(k, l)
  BY <1>1, <1>2 DEF Sure, OnRow, Attended, Paid, Finishes, Reopens, NoLegs, locals
<1>4. ASSUME NEW q \in Strategies, NEW l \in Legs, Sure(q, l) PROVE Sure(q, l)'
  BY <1>1, <1>2, <1>3, <1>4, PassSure
<1> SUFFICES ASSUME NEW m \in Markets \ gone
             PROVE  venue'[m] <= Cardinality(Flying(m)') + stray'[m] + Cardinality(SureRows(m)')
  BY <1>1 DEF HeldForSure
<1>5. SureRows(m) \subseteq SureRows(m)'
  BY <1>4, SureGrows
<1>6. ASSUME NEW l \in Legs, Market(k, l) = m
      PROVE  <<k, l>> \in SureRows(m)' /\ <<k, l>> \notin SureRows(m)
  BY <1>3, <1>6 DEF SureRows, Market
<1>7. venue[m] <= Cardinality(Flying(m)) + stray[m] + Cardinality(SureRows(m))
  BY DEF HeldForSure
<1> QED
  BY <1>5, <1>6, <1>7, SureCounted, RecoverCovers DEF RTyped

LEMMA PassHolds ==
  ASSUME RTyped, RTyped', AllInOrder, HeldForSure, Pass \/ AbortPass
  PROVE  HeldForSure'
<1>1. /\ faults \in Nat /\ faults' \in Nat /\ faults' >= faults
      /\ UNCHANGED locals /\ UNCHANGED <<gone, venue>>
  BY PassFaults
<1>2. CASE CloseEmpty
  <2>1. UNCHANGED <<pst, stray>> /\ sst' = [k \in Strategies |-> IF Swept(k) THEN "closed" ELSE sst[k]]
    BY <1>2 DEF CloseEmpty
  <2>2. ASSUME NEW k \in Strategies, NEW l \in Legs, pst[k][l] = "open" PROVE sst'[k] = sst[k]
    BY <2>1, <2>2 DEF Swept, Empty, LegsOpen
  <2> QED
    BY <1>1, <2>1, <2>2, PassHeldSure
<1>3. ASSUME UNCHANGED <<sst, pst, stray>> PROVE HeldForSure'
  BY <1>1, <1>3, PassHeldSure
<1>4. CASE ReadShorts \/ ReadSpots
  BY <1>3, <1>4 DEF ReadShorts, ReadSpots, Read, database
<1>5. CASE LoadTracked \/ EndPassR \/ AbortPass \/ \E s \in Symbols : SkipSymbol(s)
  BY <1>3, <1>5 DEF LoadTracked, EndPassR, AbortPass, SkipSymbol, vars, database
<1>6. ASSUME NEW s \in Symbols, NEW k \in Strategies, Recover(s, k) PROVE HeldForSure'
  BY <1>1, <1>6, RecoverHeldSure
<1> QED
  BY <1>2, <1>4, <1>5, <1>6 DEF Pass

(* The reconciler hides no exposure either: with passes of it at any moment   *)
(* between the steps of the workers, and up to four failed calls, reads,      *)
(* aborts and crashes, a unit that is held still has a position that failed,  *)
(* or that is open in a strategy nobody has called closed: what the sweep     *)
(* closes has no open leg, and what the recovery writes has both              *)
(* (_close_active_or_closing_without_open_legs, the recovery of the runner).  *)
THEOREM ReconcilerForgetsNothing == RSpec => [](faults <= 4 => HeldIsPromised)
<1> DEFINE Inv == /\ RTyped /\ OnTheBooks /\ AllInRole
                  /\ faults <= 4 => HeldForSure
<1>1. RInit => Inv
  BY RInitTyped, InitOnTheBooks, InitInRole, InitHeldSure DEF RInit
<1>2. Inv /\ [RNext]_rvars => Inv'
  <2> SUFFICES ASSUME Inv, [RNext]_rvars PROVE Inv'
    OBVIOUS
  <2>1. RTyped' /\ OnTheBooks' /\ AllInOrder
    BY RNextTyped, RNextOnTheBooks DEF OnTheBooks
  <2>2. ASSUME [Next]_vars PROVE AllInRole' /\ (faults' <= 4 => HeldForSure')
    BY <2>1, <2>2, NextInRole, NextHeldSure DEF RTyped
  <2>3. ASSUME Pass \/ AbortPass PROVE AllInRole' /\ (faults' <= 4 => HeldForSure')
    <3>1. faults \in Nat /\ faults' \in Nat /\ faults' >= faults /\ UNCHANGED locals
      BY <2>1, <2>3, PassFaults
    <3> QED
      BY <2>1, <2>3, <3>1, PassInRole, PassHolds
  <2> QED
    BY <2>1, <2>2, <2>3 DEF RNext, BookStep, rvars
<1>3. Inv => (faults <= 4 => HeldIsPromised)
  BY SureIsPromised DEF RTyped
<1> HIDE DEF Inv
<1> QED
  BY <1>1, <1>2, <1>3, PTL DEF RSpec

=============================================================================
